------------------------------ MODULE PersonsProofs ------------------------------
(***************************************************************************)
(* What the statements of a merge, and the rows that come meanwhile, leave *)
(* right about the tables of Persons: lemmas for the proofs of Identity    *)
(* and Connect.                                                            *)
(***************************************************************************)
EXTENDS Persons, TLAPS

(* A merge in progress is of somebody who is there into somebody else who    *)
(* is; it has moved nobody else's rows, and what is still to go with the     *)
(* loser came late.                                                          *)
MergeOK(l) ==
  \/ merge[l] = NoMerge
  \/ /\ l \in people /\ merge[l].into \in people /\ merge[l].into # l
     /\ merge[l].at \in Statements
     /\ \A r \in merge[l].rows : Whose(r) = l
     /\ \A r \in Identities \cup Owned :
          Whose(r) = l /\ Passed(l, r) => r \in merge[l].rows \cup merge[l].late

MergesOK == \A l \in People : MergeOK(l)

TablesOK == PersonsTypeOK /\ NobodyUnreachable /\ MergesOK

LEMMA NotMerging ==
  ASSUME NEW l, merge[l] = NoMerge
  PROVE  merge[l].at = "none" /\ ~\E r : Passed(l, r)
BY DEF NoMerge, Passed

(* Somebody who is not there has no rows and no merge.                       *)
LEMMA WhoseTyped ==
  ASSUME PersonsTypeOK
  PROVE  /\ \A r \in Identities \cup Owned : Whose(r) \in people \cup {NoOne}
         /\ \A x \in Identities : Whose(x) = identity[x]
         /\ \A r \in Owned : Whose(r) = owner[r]
         /\ people \subseteq People /\ NoOne \notin people
BY PersonsAssumption DEF PersonsTypeOK, Whose

AllMerges == [People -> [into : Anyone, at : Statements \cup {"none"},
                         rows : SUBSET (Identities \cup Owned),
                         late : SUBSET (Identities \cup Owned)]]

LEMMA MergesTyped == PersonsTypeOK => merge \in AllMerges
BY DEF PersonsTypeOK, AllMerges

(* What Comes does to each merge.                                            *)
ComesAs(res, mg, p, R) ==
  /\ \A l \in People : /\ res[l].into = mg[l].into /\ res[l].at = mg[l].at
                       /\ res[l].rows = mg[l].rows
                       /\ l # p => res[l] = mg[l]
  /\ \A q : q \in res[p].late <=> q \in mg[p].late \/ (q \in R /\ Passed(p, q))
  /\ (\A r \in R : ~Passed(p, r)) => res[p] = mg[p]

LEMMA ComesDoes ==
  ASSUME NEW p \in People, NEW R \in SUBSET (Identities \cup Owned), NEW mg \in AllMerges
  PROVE  Comes(mg, p, R) \in AllMerges /\ ComesAs(Comes(mg, p, R), mg, p, R)
<1>. DEFINE L   == {r \in R : Passed(p, r)}
            res == Comes(mg, p, R)
<1>1. L \in SUBSET (Identities \cup Owned)
  OBVIOUS
<1>2. \A q : q \in L <=> q \in R /\ Passed(p, q)
  OBVIOUS
<1>3. res = [mg EXCEPT ![p] = [mg[p] EXCEPT !.late = mg[p].late \cup L]]
  BY DEF Comes
<1>. HIDE DEF L, res
<1>4. mg[p] = [into |-> mg[p].into, at |-> mg[p].at, rows |-> mg[p].rows, late |-> mg[p].late]
  BY DEF AllMerges
<1>5. res[p] = [into |-> mg[p].into, at |-> mg[p].at, rows |-> mg[p].rows, late |-> mg[p].late \cup L]
  BY <1>3, <1>4 DEF AllMerges
<1>6. \A l \in People : l # p => res[l] = mg[l]
  BY <1>3 DEF AllMerges
<1>7. res \in AllMerges
  BY <1>1, <1>3, <1>5 DEF AllMerges
<1>8. (\A r \in R : ~Passed(p, r)) => res[p] = mg[p]
  <2>1. (\A r \in R : ~Passed(p, r)) => mg[p].late \cup L = mg[p].late
    BY <1>2
  <2>. QED BY <1>4, <1>5, <2>1
<1>9. \A q : q \in res[p].late <=> q \in mg[p].late \/ (q \in R /\ Passed(p, q))
  BY <1>2, <1>5
<1>10. ComesAs(res, mg, p, R)
  BY <1>5, <1>6, <1>8, <1>9 DEF ComesAs
<1>. QED BY <1>7, <1>10 DEF res

(* A row that was nobody's becomes that of somebody who is there.            *)
LEMMA RowComes ==
  ASSUME PersonsTypeOK, MergesOK, PersonsTypeOK', NEW p \in people, NEW r \in Identities \cup Owned,
         Whose(r) = NoOne, people' = people, merge' = Comes(merge, p, {r}),
         Whose(r)' = p, \A q \in Identities \cup Owned : q # r => Whose(q)' = Whose(q)
  PROVE  MergesOK'
<1>1. p \in People /\ people \subseteq People /\ NoOne \notin people
  BY WhoseTyped
<1>2. /\ \A l \in People : /\ merge'[l].into = merge[l].into /\ merge'[l].at = merge[l].at
                           /\ merge'[l].rows = merge[l].rows
                           /\ l # p => merge'[l] = merge[l]
      /\ \A q : q \in merge'[p].late <=> q \in merge[p].late \/ (q \in {r} /\ Passed(p, q))
      /\ (\A q \in {r} : ~Passed(p, q)) => merge'[p] = merge[p]
  <2>1. {r} \in SUBSET (Identities \cup Owned)
    OBVIOUS
  <2>2. ComesAs(Comes(merge, p, {r}), merge, p, {r})
    BY <1>1, <2>1, MergesTyped, ComesDoes
  <2>. QED BY <2>2 DEF ComesAs
<1>3. \A l \in People : \A q : Passed(l, q)' = Passed(l, q)
  BY <1>2 DEF Passed
<1>4. \A l \in People : merge[l].rows \subseteq Identities \cup Owned
  BY DEF PersonsTypeOK
<1>5. ASSUME NEW l \in People PROVE MergeOK(l)'
  <2>1. CASE merge[l] = NoMerge
    <3>1. merge'[l] = NoMerge
      BY <1>2, <2>1, NotMerging
    <3>. QED BY <3>1 DEF MergeOK, NoMerge
  <2>2. CASE merge[l] # NoMerge
    <3>1. /\ l \in people /\ merge[l].into \in people /\ merge[l].into # l
          /\ merge[l].at \in Statements
          /\ \A q \in merge[l].rows : Whose(q) = l
          /\ \A q \in Identities \cup Owned :
               Whose(q) = l /\ Passed(l, q) => q \in merge[l].rows \cup merge[l].late
      BY <2>2 DEF MergesOK, MergeOK
    <3>2. ASSUME NEW q \in merge'[l].rows PROVE Whose(q)' = l
      <4>1. q \in merge[l].rows /\ q \in Identities \cup Owned /\ q # r
        BY <1>1, <1>2, <1>4, <3>1
      <4>. QED BY <3>1, <4>1
    <3>3. ASSUME NEW q \in Identities \cup Owned, Whose(q)' = l, Passed(l, q)'
          PROVE  q \in merge'[l].rows \cup merge'[l].late
      <4>1. CASE q = r
        BY <1>2, <1>3, <3>3, <4>1
      <4>2. CASE q # r
        <5>1. q \in merge[l].rows \cup merge[l].late
          BY <1>3, <3>1, <3>3, <4>2
        <5>. QED BY <1>2, <5>1
      <4>. QED BY <4>1, <4>2
    <3>. QED BY <1>2, <3>1, <3>2, <3>3 DEF MergeOK
  <2>. QED BY <2>1, <2>2
<1>. QED BY <1>5 DEF MergesOK
(* A statement of a merge changes nothing else.                              *)
LEMMA OneMerge ==
  ASSUME TablesOK, NEW l \in People, UNCHANGED <<people, born, identity, owner, held, gone>>,
         NEW rec \in [into : Anyone, at : Statements \cup {"none"},
                      rows : SUBSET (Identities \cup Owned),
                      late : SUBSET (Identities \cup Owned)],
         merge' = [merge EXCEPT ![l] = rec], MergeOK(l)'
  PROVE  TablesOK'
<1>1. PersonsTypeOK'
  BY DEF TablesOK, PersonsTypeOK
<1>2. NobodyUnreachable'
  BY DEF TablesOK, NobodyUnreachable
<1>3. ASSUME NEW q \in People, q # l PROVE MergeOK(q)'
  <2>1. merge'[q] = merge[q]
    BY <1>3 DEF TablesOK, PersonsTypeOK
  <2>2. MergeOK(q)
    BY DEF TablesOK, MergesOK
  <2>. QED BY <2>1, <2>2 DEF MergeOK, Whose, Passed
<1>. QED BY <1>1, <1>2, <1>3 DEF TablesOK, MergesOK

LEMMA BeginsOK ==
  ASSUME TablesOK, NEW w, NEW l, MergeBegins(w, l)
  PROVE  TablesOK' /\ l \in People
<1>1. /\ l \in people /\ l \in People /\ w \in people /\ w # l /\ w \in Anyone
  BY WhoseTyped DEF MergeBegins, MergeSkips, MergeFails, TablesOK, Anyone
<1>. DEFINE rec == [into |-> w, at |-> "identities", rows |-> Moves(l, "identities"), late |-> {}]
<1>2. merge' = [merge EXCEPT ![l] = rec] /\ UNCHANGED <<people, born, identity, owner, held, gone>>
  BY DEF MergeBegins
<1>3. \A r : r \in Moves(l, "identities") <=> r \in Identities /\ Whose(r) = l
  BY DEF Moves, Table
<1>4. rec \in [into : Anyone, at : Statements \cup {"none"}, rows : SUBSET (Identities \cup Owned),
               late : SUBSET (Identities \cup Owned)]
  BY <1>1, <1>3 DEF Statements
<1>5. MergeOK(l)'
  <2>1. merge'[l] = rec
    BY <1>1, <1>2 DEF TablesOK, PersonsTypeOK
  <2>2. \A r : Whose(r)' = Whose(r)
    BY <1>2 DEF Whose
  <2>3. \A r : Passed(l, r)' => r \in Identities
    BY <2>1 DEF Passed
  <2>. QED BY <1>1, <1>2, <1>3, <2>1, <2>2, <2>3 DEF MergeOK, Statements
<1>. HIDE DEF rec
<1>. QED BY <1>1, <1>2, <1>4, <1>5, OneMerge

LEMMA MovesOK ==
  ASSUME TablesOK, NEW l \in People, MergeMoves(l)
  PROVE  TablesOK'
<1>. DEFINE next == IF merge[l].at = "identities" THEN "keys" ELSE "memories"
            g    == merge[l]
            rec  == [into |-> g.into, at |-> next, rows |-> g.rows \cup Moves(l, next),
                     late |-> g.late]
<1>1. /\ g # NoMerge /\ g.at # "memories"
      /\ merge' = [merge EXCEPT ![l].at = next, ![l].rows = @ \cup Moves(l, next)]
      /\ UNCHANGED <<people, born, identity, owner, held, gone>>
  BY DEF MergeMoves, Merging
<1>2. /\ l \in people /\ g.into \in people /\ g.into # l /\ g.at \in Statements
      /\ \A r \in g.rows : Whose(r) = l
      /\ \A r \in Identities \cup Owned : Whose(r) = l /\ Passed(l, r) => r \in g.rows \cup g.late
  BY <1>1 DEF TablesOK, MergesOK, MergeOK
<1>3. /\ g \in [into : Anyone, at : Statements \cup {"none"}, rows : SUBSET (Identities \cup Owned),
               late : SUBSET (Identities \cup Owned)]
      /\ \/ g.at = "identities" /\ next = "keys"
         \/ g.at = "keys" /\ next = "memories"
  BY <1>1, <1>2 DEF TablesOK, PersonsTypeOK, Statements
<1>4. \A r : r \in Moves(l, next) <=> r \in Table(next) /\ Whose(r) = l
  BY DEF Moves
<1>5. Table(next) = IF next = "keys" THEN Keys ELSE Memories
  BY <1>3 DEF Table
<1>6. merge' = [merge EXCEPT ![l] = rec] /\ merge'[l] = rec
  <2>1. merge' = [merge EXCEPT ![l] = [g EXCEPT !.at = next, !.rows = g.rows \cup Moves(l, next)]]
    BY <1>1
  <2>2. [g EXCEPT !.at = next, !.rows = g.rows \cup Moves(l, next)] = rec
    <3>. DEFINE X == [g EXCEPT !.at = next, !.rows = g.rows \cup Moves(l, next)]
    <3>1. /\ next \in Statements \cup {"none"}
          /\ g.rows \cup Moves(l, next) \in SUBSET (Identities \cup Owned)
      BY <1>3, <1>4, <1>5 DEF Statements, Owned
    <3>2. X \in [into : Anyone, at : Statements \cup {"none"},
                 rows : SUBSET (Identities \cup Owned), late : SUBSET (Identities \cup Owned)]
      BY <1>3, <3>1
    <3>3. X.into = g.into /\ X.at = next /\ X.rows = g.rows \cup Moves(l, next) /\ X.late = g.late
      BY <1>3
    <3>. HIDE DEF X
    <3>4. X = [into |-> X.into, at |-> X.at, rows |-> X.rows, late |-> X.late]
      BY <3>2
    <3>. QED BY <3>3, <3>4 DEF X
  <2>3. merge' = [merge EXCEPT ![l] = rec]
    BY <2>1, <2>2
  <2>. QED BY <2>3 DEF TablesOK, PersonsTypeOK
<1>7. rec \in [into : Anyone, at : Statements \cup {"none"}, rows : SUBSET (Identities \cup Owned),
               late : SUBSET (Identities \cup Owned)]
  BY <1>3, <1>4, <1>5 DEF Statements, Owned
<1>8. MergeOK(l)'
  <2>1. \A r : Whose(r)' = Whose(r)
    BY <1>1 DEF Whose
  <2>2. \A r : Passed(l, r)' => Passed(l, r) \/ r \in Table(next)
    BY <1>3, <1>5, <1>6 DEF Passed, Owned
  <2>3. ASSUME NEW r \in Identities \cup Owned, Whose(r)' = l, Passed(l, r)'
        PROVE  r \in rec.rows \cup rec.late
    BY <1>2, <1>4, <2>1, <2>2, <2>3
  <2>4. \A r \in rec.rows : Whose(r)' = l
    BY <1>2, <1>4, <2>1
  <2>5. rec.into = g.into /\ rec.at \in Statements /\ people' = people
    BY <1>1, <1>3 DEF Statements
  <2>. HIDE DEF rec, g
  <2>. QED BY <1>2, <1>6, <2>3, <2>4, <2>5 DEF MergeOK
<1>. HIDE DEF rec
<1>. QED BY <1>1, <1>6, <1>7, <1>8, OneMerge

LEMMA RollsBackOK ==
  ASSUME TablesOK, NEW l, MergeRollsBack(l)
  PROVE  TablesOK'
<1>1. CASE l \in People
  <2>1. /\ merge' = [merge EXCEPT ![l] = NoMerge]
        /\ UNCHANGED <<people, born, identity, owner, held, gone>>
    BY DEF MergeRollsBack
  <2>2. NoMerge \in [into : Anyone, at : Statements \cup {"none"},
                     rows : SUBSET (Identities \cup Owned), late : SUBSET (Identities \cup Owned)]
    BY DEF NoMerge, Anyone
  <2>3. MergeOK(l)'
    BY <1>1, <2>1 DEF MergeOK, NoMerge, TablesOK, PersonsTypeOK
  <2>. QED BY <1>1, <2>1, <2>2, <2>3, OneMerge
<1>2. CASE l \notin People
  <2>1. UNCHANGED tables
    BY <1>2 DEF MergeRollsBack, TablesOK, PersonsTypeOK, tables
  <2>. QED BY <2>1 DEF tables, TablesOK, PersonsTypeOK, NobodyUnreachable, MergesOK, MergeOK, Whose, Passed
<1>. QED BY <1>1, <1>2
(* The end of a merge: what becomes of each row.                             *)
EndsAs(l) ==
  /\ l \in people /\ merge[l].into \in people /\ merge[l].into # l
  /\ people' = people \ {l} /\ born' = born /\ gone' = gone \cup merge[l].late
  /\ \A r \in Identities \cup Owned :
       Whose(r)' = CASE r \in merge[l].rows                  -> merge[l].into
                     [] r \notin merge[l].rows /\ Whose(r) = l -> NoOne
                     [] OTHER                               -> Whose(r)
  /\ \A r \in merge[l].rows : Whose(r) = l
  /\ \A r \in Identities \cup Owned : Whose(r) = l => r \in merge[l].rows \cup merge[l].late

LEMMA EndsDoes ==
  ASSUME TablesOK, NEW l \in People, MergeEnds(l)
  PROVE  EndsAs(l)
<1>. DEFINE g == merge[l]
<1>1. /\ g # NoMerge /\ g.at = "memories"
      /\ identity' = AfterMerge(identity, l) /\ owner' = AfterMerge(owner, l)
      /\ people' = people \ {l} /\ born' = born /\ gone' = gone \cup g.late
  BY DEF MergeEnds, Merging
<1>2. /\ l \in people /\ g.into \in people /\ g.into # l
      /\ \A r \in g.rows : Whose(r) = l
      /\ \A r \in Identities \cup Owned : Whose(r) = l /\ Passed(l, r) => r \in g.rows \cup g.late
  BY <1>1 DEF TablesOK, MergesOK, MergeOK
<1>3. \A r \in Identities \cup Owned : Passed(l, r)
  BY <1>1 DEF Passed
<1>4. DOMAIN identity = Identities /\ DOMAIN owner = Owned
  BY DEF TablesOK, PersonsTypeOK
<1>5. \A r \in Identities : identity'[r] = CASE r \in g.rows -> g.into
                                             [] r \notin g.rows /\ identity[r] = l -> NoOne
                                             [] OTHER -> identity[r]
  BY <1>1, <1>4 DEF AfterMerge
<1>6. \A r \in Owned : owner'[r] = CASE r \in g.rows -> g.into
                                     [] r \notin g.rows /\ owner[r] = l -> NoOne
                                     [] OTHER -> owner[r]
  BY <1>1, <1>4 DEF AfterMerge
<1>7. \A r \in Identities \cup Owned :
        Whose(r)' = CASE r \in g.rows -> g.into
                      [] r \notin g.rows /\ Whose(r) = l -> NoOne
                      [] OTHER -> Whose(r)
  BY <1>5, <1>6 DEF Whose
<1>. QED BY <1>1, <1>2, <1>3, <1>7 DEF EndsAs

LEMMA EndsOK ==
  ASSUME TablesOK, NEW l \in People, MergeEnds(l)
  PROVE  TablesOK'
<1>. DEFINE g == merge[l]
            w == g.into
<1>1. EndsAs(l)
  BY EndsDoes
<1>2. /\ l \in people /\ w \in people /\ w # l /\ w \in People /\ NoOne \notin people
      /\ g.rows \in SUBSET (Identities \cup Owned)
  BY <1>1, WhoseTyped DEF EndsAs, TablesOK, PersonsTypeOK
<1>3. /\ held' = AfterMerge(held, l) /\ identity' = AfterMerge(identity, l) /\ owner' = AfterMerge(owner, l)
      /\ \A q \in People : merge[q].into # l
      /\ merge' = [Comes(merge, w, g.rows) EXCEPT ![l] = NoMerge]
  BY DEF MergeEnds
<1>4. PICK mg : mg = Comes(merge, w, g.rows)
  OBVIOUS
<1>5. mg \in AllMerges /\ ComesAs(mg, merge, w, g.rows)
  BY <1>2, <1>4, MergesTyped, ComesDoes DEF TablesOK
<1>6. NoMerge \in [into : Anyone, at : Statements \cup {"none"},
                   rows : SUBSET (Identities \cup Owned), late : SUBSET (Identities \cup Owned)]
  BY DEF NoMerge, Anyone
<1>7. merge' \in AllMerges /\ \A q \in People : merge'[q] = IF q = l THEN NoMerge ELSE mg[q]
  BY <1>3, <1>4, <1>5, <1>6 DEF AllMerges
<1>8. PersonsTypeOK'
  <2>1. /\ people' \in SUBSET born' /\ born' \in SUBSET People
        /\ gone' \in SUBSET (Identities \cup Owned)
    BY <1>1 DEF EndsAs, TablesOK, PersonsTypeOK
  <2>2. identity' \in [Identities -> people' \cup {NoOne}]
    BY <1>1, <1>2, <1>3 DEF EndsAs, AfterMerge, TablesOK, PersonsTypeOK
  <2>3. owner' \in [Owned -> people' \cup {NoOne}]
    BY <1>1, <1>2, <1>3 DEF EndsAs, AfterMerge, TablesOK, PersonsTypeOK
  <2>4. held' \in [Things -> people' \cup {NoOne}]
    BY <1>1, <1>2, <1>3 DEF EndsAs, AfterMerge, TablesOK, PersonsTypeOK
  <2>5. merge' \in [People -> [into : Anyone, at : Statements \cup {"none"},
                              rows : SUBSET (Identities \cup Owned),
                              late : SUBSET (Identities \cup Owned)]]
    BY <1>7 DEF AllMerges
  <2>. QED BY <2>1, <2>2, <2>3, <2>4, <2>5 DEF PersonsTypeOK
<1>9. NobodyUnreachable'
  <2>1. ASSUME NEW p \in people' PROVE \E x \in Identities : identity'[x] = p
    <3>1. p \in people /\ p # l
      BY <1>1, <2>1 DEF EndsAs
    <3>2. PICK x \in Identities : identity[x] = p
      BY <3>1 DEF TablesOK, NobodyUnreachable
    <3>3. Whose(x) = p /\ Whose(x)' = identity'[x] /\ x \notin g.rows
      BY <1>1, <3>1, <3>2 DEF Whose, EndsAs
    <3>4. Whose(x)' = p
      BY <1>1, <3>1, <3>3 DEF EndsAs
    <3>. QED BY <3>3, <3>4
  <2>. QED BY <2>1 DEF NobodyUnreachable
<1>10. ASSUME NEW q \in People PROVE MergeOK(q)'
  <2>1. CASE q = l \/ merge[q] = NoMerge
    <3>1. merge'[q] = NoMerge
      <4>1. CASE q # l
        <5>1. merge[q] = NoMerge /\ ~\E r : Passed(q, r)
          BY <2>1, <4>1, NotMerging
        <5>2. mg[q] = merge[q]
          BY <1>5, <5>1 DEF ComesAs
        <5>. QED BY <1>7, <4>1, <5>1, <5>2
      <4>. QED BY <1>7, <4>1
    <3>. QED BY <3>1 DEF MergeOK, NoMerge
  <2>2. CASE q # l /\ merge[q] # NoMerge
    <3>1. /\ q \in people /\ merge[q].into \in people /\ merge[q].into # q
          /\ merge[q].at \in Statements
          /\ \A r \in merge[q].rows : Whose(r) = q
          /\ \A r \in Identities \cup Owned :
               Whose(r) = q /\ Passed(q, r) => r \in merge[q].rows \cup merge[q].late
      BY <2>2 DEF TablesOK, MergesOK, MergeOK
    <3>2. /\ merge'[q].into = merge[q].into /\ merge'[q].at = merge[q].at
          /\ merge'[q].rows = merge[q].rows /\ (q # w => merge'[q] = merge[q])
          /\ \A r : q = w => (r \in merge'[q].late <=> r \in merge[q].late \/ (r \in g.rows /\ Passed(w, r)))
      BY <1>5, <1>7, <2>2 DEF ComesAs
    <3>3. \A r : Passed(q, r)' <=> Passed(q, r)
      BY <3>2 DEF Passed
    <3>4. ASSUME NEW r \in merge'[q].rows PROVE Whose(r)' = q
      <4>1. Whose(r) = q /\ r \notin g.rows /\ r \in Identities \cup Owned
        BY <1>1, <2>2, <3>1, <3>2, <3>4 DEF EndsAs, TablesOK, PersonsTypeOK
      <4>. QED BY <1>1, <2>2, <4>1 DEF EndsAs
    <3>5. ASSUME NEW r \in Identities \cup Owned, Whose(r)' = q, Passed(q, r)'
          PROVE  r \in merge'[q].rows \cup merge'[q].late
      <4>1. CASE r \in g.rows
        BY <1>1, <3>2, <3>3, <3>5, <4>1 DEF EndsAs
      <4>2. CASE r \notin g.rows
        <5>1. Whose(r) = q
          BY <1>1, <1>2, <3>1, <3>5, <4>2 DEF EndsAs
        <5>2. r \in merge[q].rows \cup merge[q].late
          BY <3>1, <3>3, <3>5, <5>1
        <5>. QED BY <3>2, <5>2
      <4>. QED BY <4>1, <4>2
    <3>6. q \in people' /\ merge'[q].into \in people'
      BY <1>1, <1>3, <2>2, <3>1, <3>2 DEF EndsAs
    <3>. QED BY <3>1, <3>2, <3>4, <3>5, <3>6 DEF MergeOK
  <2>. QED BY <2>1, <2>2
<1>. QED BY <1>8, <1>9, <1>10 DEF TablesOK, MergesOK
-----------------------------------------------------------------------------
(* The operations on the tables.                                             *)
LEMMA SameOK ==
  ASSUME TablesOK, UNCHANGED <<people, born, identity, owner, merge, gone>>,
         held' \in [Things -> people \cup {NoOne}]
  PROVE  TablesOK'
BY DEF TablesOK, PersonsTypeOK, NobodyUnreachable, MergesOK, MergeOK, Whose, Passed

LEMMA CreateOK ==
  ASSUME TablesOK, NEW x \in Identities, NEW p, identity[x] = NoOne, Create(x, p)
  PROVE  /\ TablesOK' /\ p \in People \ born /\ p # NoOne
         /\ people' = people \cup {p} /\ born' = born \cup {p}
         /\ UNCHANGED <<owner, held, merge, gone>>
         /\ \A y \in Identities : identity'[y] = IF y = x THEN p ELSE identity[y]
<1>1. p \in People \ born /\ p # NoOne /\ p \notin people
  BY PersonsAssumption DEF Create, TablesOK, PersonsTypeOK
<1>2. /\ people' = people \cup {p} /\ born' = born \cup {p}
      /\ identity' = [identity EXCEPT ![x] = p] /\ UNCHANGED <<owner, held, merge, gone>>
  BY DEF Create
<1>3. PersonsTypeOK'
  BY <1>1, <1>2 DEF TablesOK, PersonsTypeOK
<1>4. \A y \in Identities : identity'[y] = IF y = x THEN p ELSE identity[y]
  BY <1>2 DEF TablesOK, PersonsTypeOK
<1>5. NobodyUnreachable'
  BY <1>1, <1>2, <1>4, PersonsAssumption DEF TablesOK, PersonsTypeOK, NobodyUnreachable
<1>6. ASSUME NEW l \in People PROVE MergeOK(l)'
  <2>1. CASE merge[l] = NoMerge
    BY <1>2, <2>1 DEF MergeOK, NoMerge
  <2>2. CASE merge[l] # NoMerge
    <3>1. /\ l \in people /\ merge[l].into \in people /\ merge[l].into # l
          /\ merge[l].at \in Statements
          /\ \A r \in merge[l].rows : Whose(r) = l
          /\ \A r \in Identities \cup Owned :
               Whose(r) = l /\ Passed(l, r) => r \in merge[l].rows \cup merge[l].late
      BY <2>2 DEF TablesOK, MergesOK, MergeOK
    <3>2. Whose(x) = NoOne /\ l # NoOne /\ l # p /\ Whose(x)' = p
      BY <1>1, <1>4, <3>1, WhoseTyped DEF TablesOK, Whose
    <3>3. \A r : r # x => Whose(r)' = Whose(r)
      BY <1>2, <1>4 DEF Whose
    <3>4. \A r : Passed(l, r)' = Passed(l, r)
      BY <1>2 DEF Passed
    <3>5. ASSUME NEW r \in merge[l].rows PROVE Whose(r)' = l
      BY <3>1, <3>2, <3>3
    <3>6. ASSUME NEW r \in Identities \cup Owned, Whose(r)' = l, Passed(l, r)
          PROVE  r \in merge[l].rows \cup merge[l].late
      BY <3>1, <3>2, <3>3, <3>6
    <3>. QED BY <1>2, <3>1, <3>4, <3>5, <3>6 DEF MergeOK
  <2>. QED BY <2>1, <2>2
<1>. QED BY <1>1, <1>2, <1>3, <1>4, <1>5, <1>6 DEF TablesOK, MergesOK

LEMMA AttachOK ==
  ASSUME TablesOK, NEW w \in Wallets, NEW p, Attach(w, p)
  PROVE  /\ TablesOK' /\ UNCHANGED <<people, born, owner, held, gone>>
         /\ \A y \in Identities : identity'[y] = IF y = w /\ identity[y] = NoOne THEN p ELSE identity[y]
         /\ identity[w] = NoOne => p \in people
<1>1. /\ UNCHANGED <<people, born, owner, held, gone>>
      /\ identity[w] = NoOne => p \in people
      /\ w \in Identities
  BY DEF Attach, AttachFails, Identities
<1>2. CASE identity[w] # NoOne
  <2>1. UNCHANGED <<identity, merge>>
    BY <1>2 DEF Attach
  <2>. QED BY <1>1, <1>2, <2>1, SameOK DEF TablesOK, PersonsTypeOK
<1>3. CASE identity[w] = NoOne
  <2>1. identity' = [identity EXCEPT ![w] = p] /\ merge' = Comes(merge, p, {w}) /\ p \in people
    BY <1>1, <1>3 DEF Attach
  <2>2. p \in People /\ p # NoOne
    BY <2>1, WhoseTyped DEF TablesOK
  <2>3. \A y \in Identities : identity'[y] = IF y = w THEN p ELSE identity[y]
    BY <2>1 DEF TablesOK, PersonsTypeOK
  <2>4. merge' \in AllMerges
    <3>1. {w} \in SUBSET (Identities \cup Owned)
      BY <1>1
    <3>. QED BY <2>1, <2>2, <3>1, ComesDoes, MergesTyped DEF TablesOK
  <2>5. PersonsTypeOK'
    BY <1>1, <2>1, <2>4 DEF TablesOK, PersonsTypeOK, AllMerges
  <2>6. Whose(w) = NoOne /\ Whose(w)' = p /\ \A r : r # w => Whose(r)' = Whose(r)
    BY <1>1, <1>3, <2>3 DEF Whose
  <2>7. MergesOK'
    BY <1>1, <2>1, <2>5, <2>6, RowComes DEF TablesOK
  <2>8. NobodyUnreachable'
    BY <1>1, <1>3, <2>2, <2>3, WhoseTyped DEF TablesOK, NobodyUnreachable
  <2>. QED BY <1>1, <1>3, <2>1, <2>3, <2>5, <2>7, <2>8 DEF TablesOK
<1>. QED BY <1>2, <1>3

LEMMA InsertOK ==
  ASSUME TablesOK, NEW r \in Owned, NEW p, Insert(r, p), owner[r] = NoOne,
         UNCHANGED <<people, born, identity, gone>>, held' \in [Things -> people \cup {NoOne}]
  PROVE  TablesOK' /\ p \in people /\ \A q \in Owned : owner'[q] = IF q = r THEN p ELSE owner[q]
<1>1. owner' = [owner EXCEPT ![r] = p] /\ merge' = Comes(merge, p, {r}) /\ p \in people
  BY DEF Insert
<1>2. p \in People /\ r \in Identities \cup Owned /\ r \notin Identities
  BY <1>1, WhoseTyped, PersonsAssumption DEF TablesOK
<1>3. \A q \in Owned : owner'[q] = IF q = r THEN p ELSE owner[q]
  BY <1>1 DEF TablesOK, PersonsTypeOK
<1>4. merge' \in AllMerges
  <2>1. {r} \in SUBSET (Identities \cup Owned)
    BY <1>2
  <2>. QED BY <1>1, <1>2, <2>1, ComesDoes, MergesTyped DEF TablesOK
<1>5. PersonsTypeOK'
  BY <1>1, <1>4 DEF TablesOK, PersonsTypeOK, AllMerges
<1>6. Whose(r) = NoOne /\ Whose(r)' = p /\ \A q \in Identities \cup Owned : q # r => Whose(q)' = Whose(q)
  BY <1>2, <1>3 DEF Whose
<1>7. MergesOK'
  BY <1>1, <1>2, <1>5, <1>6, RowComes DEF TablesOK
<1>8. NobodyUnreachable'
  BY DEF TablesOK, NobodyUnreachable
<1>. QED BY <1>1, <1>3, <1>5, <1>7, <1>8 DEF TablesOK
=============================================================================
