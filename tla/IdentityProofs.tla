----------------------------- MODULE IdentityProofs -----------------------------
(***************************************************************************)
(* Identity proved for any people, channels, wallets, turns, sign-ins and  *)
(* link codes.  What a turn has read of its author's person stays right,   *)
(* or is about somebody who is gone for good: an id is never reused, and a *)
(* merge ends for a person's identities and memories at once, but for what *)
(* came late for it (PersonsProofs).                                       *)
(***************************************************************************)
EXTENDS Identity, PersonsProofs

(* A turn that has found its person names whom its author now belongs to, or *)
(* somebody who is gone; unless the author went with a person.               *)
Found(m) ==
  LET x == turn[m].author  p == turn[m].person IN
  /\ p \in born
  /\ x \notin gone => identity[x] # NoOne /\ (p \in people => p = identity[x])

Written(m) ==
  LET x == turn[m].author IN
  m \notin gone /\ x \notin gone => identity[x] # NoOne /\ owner[m] = identity[x]

TurnOK(m) ==
  /\ turn[m].pc # "idle" => turn[m].author \in Externals
  /\ turn[m].pc = "found" => Found(m)
  /\ IF turn[m].pc = "written" THEN Written(m) ELSE owner[m] = NoOne

SignOK(s) ==
  /\ sign[s].pc # "idle" => sign[s].wallet \in Wallets /\ sign[s].nonce \in Nonces
  /\ Entered(s) => nonce[sign[s].nonce] = "used"
  /\ sign[s].pc = "merging" => sign[s].lose \in People

Turns == \A m \in Memories : TurnOK(m)
Signs == (\A s \in SignIns : SignOK(s)) /\ NonceOpensOnce

CodesKnown ==
  \A r \in Redeems : /\ redeem[r].pc # "idle" => redeem[r].code \in Codes
                     /\ redeem[r].pc = "merging" => redeem[r].self \in People

IInv == TypeOK /\ NobodyUnreachable /\ MergesOK /\ CodesKnown /\ Turns /\ Signs

(* What every change of the tables leaves right for a turn under way.        *)
Keeps ==
  /\ born \subseteq born' /\ gone \subseteq gone'
  /\ \A x \in Identities \ gone' : identity[x] # NoOne => identity'[x] # NoOne
  /\ \A x \in Identities \ gone', q \in born :
       identity[x] # NoOne /\ (q \in people => q = identity[x])
         => (q \in people' => q = identity'[x])
  /\ \A x \in Identities \ gone', m \in Memories \ gone' :
       identity[x] # NoOne /\ owner[m] = identity[x] => owner'[m] = identity'[x]
  /\ \A m \in Memories : owner[m] = NoOne => owner'[m] = NoOne

-----------------------------------------------------------------------------
(* The operations on the tables.                                             *)
LEMMA CreateKeeps ==
  ASSUME TablesOK, NEW x \in Identities, NEW p, identity[x] = NoOne, Create(x, p)
  PROVE  TablesOK' /\ Keeps /\ p \in People /\ p \in born' /\ identity'[x] = p /\ p # NoOne
BY CreateOK DEF TablesOK, PersonsTypeOK, Keeps

LEMMA AttachKeeps ==
  ASSUME TablesOK, NEW w \in Wallets, NEW p, Attach(w, p)
  PROVE  TablesOK' /\ Keeps
BY AttachOK DEF Keeps

(* Of a merge, only the end is seen.                                         *)
LEMMA UnseenKeeps ==
  ASSUME UNCHANGED <<people, born, identity, owner, gone>>
  PROVE  Keeps
BY DEF Keeps

LEMMA BeginsKeeps ==
  ASSUME TablesOK, NEW w, NEW l, MergeBegins(w, l)
  PROVE  TablesOK' /\ Keeps
BY BeginsOK, UnseenKeeps DEF MergeBegins

LEMMA MovesKeeps ==
  ASSUME TablesOK, NEW l \in People, MergeMoves(l)
  PROVE  TablesOK' /\ Keeps
BY MovesOK, UnseenKeeps DEF MergeMoves

LEMMA RollsBackKeeps ==
  ASSUME TablesOK, NEW l, MergeRollsBack(l)
  PROVE  TablesOK' /\ Keeps
BY RollsBackOK, UnseenKeeps DEF MergeRollsBack

LEMMA EndsKeeps ==
  ASSUME TablesOK, NEW l \in People, MergeEnds(l)
  PROVE  TablesOK' /\ Keeps
<1>. DEFINE g == merge[l]
<1>1. EndsAs(l) /\ TablesOK'
  BY EndsDoes, EndsOK
<1>2. /\ g.into # NoOne /\ l # NoOne
      /\ \A x \in Identities : Whose(x) = identity[x] /\ Whose(x)' = identity'[x]
      /\ \A m \in Memories : Whose(m) = owner[m] /\ Whose(m)' = owner'[m]
  BY <1>1, WhoseTyped, PersonsAssumption DEF TablesOK, EndsAs, Whose, Owned
<1>3. ASSUME NEW r \in (Identities \cup Owned) \ gone'
      PROVE  Whose(r)' = IF Whose(r) = l THEN g.into ELSE Whose(r)
  BY <1>1 DEF EndsAs
<1>4. \A r \in Identities \cup Owned : Whose(r) = NoOne => Whose(r)' = NoOne
  BY <1>1, <1>2 DEF EndsAs
<1>5. \A x \in Identities \ gone' : identity'[x] = IF identity[x] = l THEN g.into ELSE identity[x]
  BY <1>2, <1>3
<1>6. \A m \in Memories \ gone' : owner'[m] = IF owner[m] = l THEN g.into ELSE owner[m]
  BY <1>2, <1>3 DEF Owned
<1>7. people' = people \ {l} /\ born' = born /\ gone \subseteq gone'
  BY <1>1 DEF EndsAs
<1>8. \A m \in Memories : owner[m] = NoOne => owner'[m] = NoOne
  BY <1>2, <1>4 DEF Owned
<1>. QED BY <1>1, <1>2, <1>5, <1>6, <1>7, <1>8 DEF Keeps

LEMMA IdleKeeps ==
  ASSUME TablesOK, UNCHANGED <<people, born, identity, owner, merge, gone>>,
         held' \in [Things -> people \cup {NoOne}]
  PROVE  TablesOK' /\ Keeps
BY SameOK, UnseenKeeps

(* A turn that does not move is right about the new tables.                  *)
LEMMA TurnStays ==
  ASSUME NEW m \in Memories, TurnOK(m), turn'[m] = turn[m], Keeps
  PROVE  TurnOK(m)'
BY DEF TurnOK, Found, Written, Keeps, Identities

LEMMA TurnsStay ==
  ASSUME Turns, turn' = turn, Keeps
  PROVE  Turns'
BY TurnStays DEF Turns

(* A sign-in that does not move, or moves on past its nonce.                 *)
LEMMA SignsStay ==
  ASSUME Signs, sign' = sign, nonce' = nonce
  PROVE  Signs'
BY DEF Signs, SignOK, NonceOpensOnce, Entered

LEMMA SignMoves ==
  ASSUME TypeOK, Signs, nonce' = nonce, NEW s \in SignIns, Entered(s),
         \A t \in SignIns \ {s} : sign'[t] = sign[t],
         sign'[s].nonce = sign[s].nonce, sign'[s].wallet = sign[s].wallet,
         sign'[s].pc = "merging" => sign'[s].lose \in People
  PROVE  Signs'
<1>1. ASSUME NEW t \in SignIns PROVE SignOK(t)'
  BY DEF Signs, SignOK, Entered
<1>2. NonceOpensOnce'
  BY DEF Signs, NonceOpensOnce, Entered
<1>. QED BY <1>1, <1>2 DEF Signs

(* What is not a table.                                                      *)
SignPcs   == {"idle", "verified", "burned", "refused", "looked", "weighed", "merging",
              "became", "attached", "open", "failed"}
RedeemPcs == {"idle", "read", "refused", "empty", "merging", "folded", "failed", "linked"}
SignSet   == [pc : SignPcs, nonce : Nonces \cup {NoOne}, wallet : Wallets \cup {NoOne},
              current : Anyone, win : Anyone, lose : Anyone]
RedeemSet == [pc : RedeemPcs, code : Codes \cup {NoOne}, issuer : Anyone, self : Anyone]

RequestsOK ==
  /\ nonce \in [Nonces -> {"none", "issued", "used"}]
  /\ used \in SUBSET Codes
  /\ turn \in [Memories -> [pc : {"idle", "missed", "found", "written", "failed"},
                            author : Externals \cup {NoOne}, person : Anyone]]
  /\ sign \in [SignIns -> SignSet]
  /\ redeem \in [Redeems -> RedeemSet]
  /\ CodesKnown

LEMMA Parts == IInv => TablesOK /\ RequestsOK /\ Turns /\ Signs
BY DEF IInv, TypeOK, TablesOK, RequestsOK, SignSet, SignPcs, RedeemSet, RedeemPcs

(* A sign-in or a redemption that moves on.                                  *)
LEMMA SignTyped ==
  ASSUME RequestsOK, NEW s \in SignIns, NEW g \in SignSet, sign' = [sign EXCEPT ![s] = g],
         nonce' \in [Nonces -> {"none", "issued", "used"}], UNCHANGED <<used, turn, redeem>>
  PROVE  RequestsOK'
BY DEF RequestsOK, CodesKnown

LEMMA SignAtTyped ==
  ASSUME RequestsOK, NEW s \in SignIns, NEW pc \in SignPcs,
         sign' = [sign EXCEPT ![s] = [sign[s] EXCEPT !.pc = pc]],
         nonce' \in [Nonces -> {"none", "issued", "used"}], UNCHANGED <<used, turn, redeem>>
  PROVE  RequestsOK'
<1>1. sign[s] \in SignSet
  BY DEF RequestsOK
<1>2. [sign[s] EXCEPT !.pc = pc] \in SignSet
  BY <1>1 DEF SignSet
<1>. QED BY <1>2, SignTyped

LEMMA RedeemAtTyped ==
  ASSUME RequestsOK, NEW r \in Redeems, NEW pc \in RedeemPcs \ {"idle"},
         redeem[r].pc # "idle", pc = "merging" => redeem[r].self \in People,
         redeem' = [redeem EXCEPT ![r] = [redeem[r] EXCEPT !.pc = pc]],
         nonce' = nonce, used' \in SUBSET Codes, UNCHANGED <<turn, sign>>
  PROVE  RequestsOK'
<1>1. redeem[r] \in RedeemSet
  BY DEF RequestsOK
<1>2. [redeem[r] EXCEPT !.pc = pc] \in RedeemSet
  BY <1>1 DEF RedeemSet
<1>3. redeem' \in [Redeems -> RedeemSet]
  BY <1>2 DEF RequestsOK
<1>4. CodesKnown'
  <2>1. ASSUME NEW q \in Redeems, q # r PROVE redeem'[q] = redeem[q]
    BY <2>1 DEF RequestsOK
  <2>2. redeem'[r] = [redeem[r] EXCEPT !.pc = pc]
    BY DEF RequestsOK
  <2>3. redeem'[r].pc = pc /\ redeem'[r].code = redeem[r].code /\ redeem'[r].self = redeem[r].self
    BY <1>1, <2>2 DEF RedeemSet
  <2>. QED BY <2>1, <2>3 DEF RequestsOK, CodesKnown
<1>. QED BY <1>3, <1>4 DEF RequestsOK

LEMMA Together ==
  ASSUME TablesOK', RequestsOK', Turns', Signs'
  PROVE  IInv'
BY DEF IInv, TypeOK, TablesOK, RequestsOK, SignSet, SignPcs, RedeemSet, RedeemPcs

LEMMA Initially == Init => IInv
<1>. SUFFICES ASSUME Init PROVE IInv
  OBVIOUS
<1>1. /\ people = {} /\ born = {} /\ gone = {}
      /\ identity = [x \in Identities |-> NoOne] /\ owner = [r \in Owned |-> NoOne]
      /\ held = [t \in Things |-> NoOne] /\ merge = [p \in People |-> NoMerge]
  BY DEF Init, PersonsInit
<1>2. NoMerge \in [into : Anyone, at : Statements \cup {"none"},
                   rows : SUBSET (Identities \cup Owned), late : SUBSET (Identities \cup Owned)]
  BY DEF NoMerge, Anyone
<1>3. PersonsTypeOK /\ NobodyUnreachable
  BY <1>1, <1>2 DEF PersonsTypeOK, NobodyUnreachable
<1>4. MergesOK
  BY <1>1 DEF MergesOK, MergeOK
<1>5. /\ nonce = [n \in Nonces |-> "none"] /\ used = {}
      /\ turn = [m \in Memories |-> NoTurn] /\ sign = [s \in SignIns |-> NoSignIn]
      /\ redeem = [r \in Redeems |-> NoRedeem]
  BY DEF Init
<1>6. RequestsOK
  BY <1>5 DEF RequestsOK, NoTurn, NoSignIn, NoRedeem, Anyone, CodesKnown,
              SignSet, SignPcs, RedeemSet, RedeemPcs
<1>7. Turns
  BY <1>1, <1>5 DEF Turns, TurnOK, NoTurn, Owned
<1>8. Signs
  BY <1>5 DEF Signs, SignOK, Entered, NonceOpensOnce, NoSignIn
<1>. QED BY <1>3, <1>4, <1>6, <1>7, <1>8
     DEF IInv, TypeOK, RequestsOK, SignSet, SignPcs, RedeemSet, RedeemPcs

-----------------------------------------------------------------------------
LEMMA TurnSteps ==
  ASSUME IInv, NEW m \in Memories,
         TurnCreates(m) \/ TurnWrites(m) \/ \E x \in Externals : TurnStarts(m, x)
  PROVE  IInv'
<1>. USE Parts
<1>1. Signs'
  BY SignsStay DEF TurnCreates, TurnWrites, TurnStarts, IInv
<1>2. ASSUME NEW x \in Externals, TurnStarts(m, x)
      PROVE  IInv'
  <2>1. UNCHANGED <<tables, nonce, used, sign, redeem>>
    BY <1>2 DEF TurnStarts
  <2>2. TablesOK' /\ Keeps
    BY <2>1, IdleKeeps DEF tables, TablesOK, PersonsTypeOK
  <2>3. turn' = [turn EXCEPT ![m] = [pc |-> IF identity[x] = NoOne THEN "missed" ELSE "found",
                                     author |-> x, person |-> identity[x]]]
    BY <1>2 DEF TurnStarts
  <2>4. identity[x] \in people \cup {NoOne} /\ people \subseteq born /\ born \subseteq People
    BY DEF TablesOK, PersonsTypeOK, Identities
  <2>5. RequestsOK'
    BY <2>1, <2>3, <2>4 DEF RequestsOK, Anyone, CodesKnown
  <2>6. TurnOK(m)'
    <3>1. turn[m].pc = "idle" /\ owner[m] = NoOne /\ UNCHANGED <<people, born, identity, owner, gone>>
      BY <1>2, <2>1 DEF TurnStarts, Turns, TurnOK, tables
    <3>2. turn'[m] = [pc |-> IF identity[x] = NoOne THEN "missed" ELSE "found",
                      author |-> x, person |-> identity[x]]
      BY <2>3 DEF RequestsOK
    <3>3. identity[x] # NoOne => Found(m)'
      BY <2>4, <3>1, <3>2 DEF Found
    <3>. QED BY <3>1, <3>2, <3>3 DEF TurnOK
  <2>7. \A n \in Memories \ {m} : TurnOK(n)'
    BY <2>2, <2>3, TurnStays DEF Turns, RequestsOK
  <2>. QED BY <1>1, <2>2, <2>5, <2>6, <2>7, Together DEF Turns
<1>3. CASE TurnCreates(m)
  <2>. DEFINE x == turn[m].author
  <2>1. /\ x \in Identities /\ x \in Externals /\ turn[m].pc = "missed"
        /\ turn[m] = [pc |-> turn[m].pc, author |-> x, person |-> turn[m].person]
    BY <1>3 DEF TurnCreates, Turns, TurnOK, Identities, RequestsOK
  <2>2. UNCHANGED <<nonce, used, sign, redeem>>
    BY <1>3 DEF TurnCreates
  <2>3. PICK p \in Anyone :
             /\ TablesOK' /\ Keeps /\ p \in born' /\ p \in People /\ identity'[x] = p /\ p # NoOne
             /\ turn' = [turn EXCEPT ![m].pc = "found", ![m].person = p]
    <3>1. CASE identity[x] = NoOne
      <4>1. PICK p \in People : Create(x, p) /\ turn' = [turn EXCEPT ![m].pc = "found", ![m].person = p]
        BY <1>3, <3>1 DEF TurnCreates
      <4>. QED BY <2>1, <3>1, <4>1, CreateKeeps DEF Anyone
    <3>2. CASE identity[x] # NoOne
      <4>1. UNCHANGED tables /\ turn' = [turn EXCEPT ![m].pc = "found", ![m].person = identity[x]]
        BY <1>3, <3>2 DEF TurnCreates
      <4>2. TablesOK' /\ Keeps
        BY <4>1, IdleKeeps DEF tables, TablesOK, PersonsTypeOK
      <4>3. identity[x] \in people /\ people \subseteq born /\ born \subseteq People
        BY <2>1, <3>2 DEF TablesOK, PersonsTypeOK
      <4>. QED BY <3>2, <4>1, <4>2, <4>3 DEF tables, Anyone
    <3>. QED BY <3>1, <3>2
  <2>. HIDE DEF x
  <2>4. turn'[m] = [pc |-> "found", author |-> x, person |-> p]
    BY <2>1, <2>3 DEF RequestsOK, x
  <2>5. TurnOK(m)'
    <3>1. owner'[m] = NoOne
      BY <2>1, <2>3 DEF Turns, TurnOK, Keeps
    <3>2. turn'[m].author = x /\ turn'[m].person = p
      BY <2>4
    <3>3. p \in born' /\ identity'[x] = p /\ identity'[x] # NoOne
      BY <2>3
    <3>4. Found(m)'
      BY <3>2, <3>3 DEF Found
    <3>. QED BY <2>1, <2>4, <3>1, <3>4 DEF TurnOK
  <2>6. \A n \in Memories \ {m} : TurnOK(n)'
    BY <2>3, TurnStays DEF Turns, RequestsOK
  <2>7. RequestsOK'
    BY <2>1, <2>2, <2>3 DEF RequestsOK, CodesKnown
  <2>. QED BY <1>1, <2>3, <2>5, <2>6, <2>7, Together DEF Turns
<1>4. CASE TurnWrites(m)
  <2>1. /\ turn[m].pc = "found" /\ Found(m)
        /\ turn[m].author \in Externals
        /\ UNCHANGED <<people, born, identity, held, gone, nonce, used, sign, redeem>>
        /\ owner[m] = NoOne /\ m \in Owned
    BY <1>4 DEF TurnWrites, Turns, TurnOK, Owned
  <2>2. CASE turn[m].person \in people
    <3>1. /\ Insert(m, turn[m].person)
          /\ turn' = [turn EXCEPT ![m].pc = "written"]
      BY <1>4, <2>2 DEF TurnWrites
    <3>2. TablesOK' /\ \A q \in Owned : owner'[q] = IF q = m THEN turn[m].person ELSE owner[q]
      <4>1. held' \in [Things -> people \cup {NoOne}]
        BY <2>1 DEF TablesOK, PersonsTypeOK
      <4>. QED BY <2>1, <3>1, <4>1, InsertOK
    <3>3. ASSUME NEW n \in Memories, n # m
          PROVE  TurnOK(n)'
      <4>1. turn'[n] = turn[n] /\ owner'[n] = owner[n]
        BY <3>1, <3>2, <3>3 DEF RequestsOK, Owned
      <4>. QED BY <2>1, <4>1 DEF Turns, TurnOK, Found, Written
    <3>4. TurnOK(m)'
      <4>1. turn'[m].pc = "written" /\ turn'[m].author = turn[m].author
        BY <3>1 DEF RequestsOK
      <4>2. turn[m].person # NoOne
        BY <2>2, WhoseTyped DEF TablesOK
      <4>. QED BY <2>1, <2>2, <3>2, <4>1, <4>2 DEF TurnOK, Found, Written
    <3>5. RequestsOK'
      BY <2>1, <3>1 DEF RequestsOK, CodesKnown
    <3>. QED BY <1>1, <3>2, <3>3, <3>4, <3>5, Together DEF Turns
  <2>3. CASE turn[m].person \notin people
    <3>1. UNCHANGED <<owner, merge>> /\ turn' = [turn EXCEPT ![m].pc = "failed"]
      BY <1>4, <2>3 DEF TurnWrites
    <3>2. TablesOK' /\ Keeps
      BY <2>1, <3>1, IdleKeeps DEF TablesOK, PersonsTypeOK
    <3>3. TurnOK(m)'
      BY <2>1, <3>1 DEF TurnOK, RequestsOK
    <3>4. \A n \in Memories \ {m} : TurnOK(n)'
      BY <3>1, <3>2, TurnStays DEF Turns, RequestsOK
    <3>5. RequestsOK'
      <4>1. turn' = [turn EXCEPT ![m] = [turn[m] EXCEPT !.pc = "failed"]]
        BY <3>1
      <4>. QED BY <2>1, <4>1 DEF RequestsOK, CodesKnown
    <3>. QED BY <1>1, <3>2, <3>3, <3>4, <3>5, Together DEF Turns
  <2>. QED BY <2>2, <2>3
<1>. QED BY <1>2, <1>3, <1>4

-----------------------------------------------------------------------------
LEMMA SignInSteps ==
  ASSUME IInv, NEW s \in SignIns,
         \/ \E n \in Nonces, w \in Wallets, p \in Anyone : Verify(s, n, w, p)
         \/ Burn(s) \/ Look(s) \/ Weigh(s) \/ FoldGuest(s) \/ GuestFolded(s) \/ Become(s)
         \/ AttachWallet(s) \/ Open(s) \/ SignOut(s)
  PROVE  IInv'
<1>. USE Parts
<1>. DEFINE g == sign[s]
<1>0. g \in SignSet /\ nonce \in [Nonces -> {"none", "issued", "used"}]
  BY DEF RequestsOK
<1>1. g = [pc |-> g.pc, nonce |-> g.nonce, wallet |-> g.wallet, current |-> g.current,
           win |-> g.win, lose |-> g.lose]
  BY DEF RequestsOK, SignSet, SignPcs
<1>2. g.pc # "idle" => g.wallet \in Wallets /\ g.wallet \in Identities /\ g.nonce \in Nonces
  BY DEF Signs, SignOK, Identities
<1>3. s \in Things /\ people \subseteq People /\ \A w \in Wallets : identity[w] \in Anyone
  BY IdentityAssumption DEF TablesOK, PersonsTypeOK, Identities, Anyone
<1>4. UNCHANGED <<used, turn, redeem>>
  BY DEF Verify, Burn, Look, Weigh, FoldGuest, GuestFolded, Become, AttachWallet, Open, SignOut, requests
<1>5. ASSUME UNCHANGED <<people, born, identity, owner, merge, gone>>, held' \in [Things -> people \cup {NoOne}]
      PROVE  TablesOK' /\ Turns'
  BY <1>4, <1>5, IdleKeeps, TurnsStay
<1>6. ASSUME UNCHANGED tables PROVE TablesOK' /\ Turns'
  BY <1>5, <1>6 DEF tables, TablesOK, PersonsTypeOK
<1>7. ASSUME NEW n \in Nonces, NEW w \in Wallets, NEW p \in Anyone, Verify(s, n, w, p)
      PROVE  IInv'
  <2>1. /\ sign' = [sign EXCEPT ![s] = [pc |-> "verified", nonce |-> n, wallet |-> w,
                                        current |-> p, win |-> NoOne, lose |-> NoOne]]
        /\ UNCHANGED <<tables, nonce>>
    BY <1>7 DEF Verify
  <2>2. RequestsOK'
    BY <1>4, <2>1 DEF RequestsOK, Anyone, CodesKnown, SignSet, SignPcs
  <2>3. Signs'
    BY <2>1 DEF Signs, SignOK, NonceOpensOnce, Entered, RequestsOK
  <2>. QED BY <1>6, <2>1, <2>2, <2>3, Together
<1>8. CASE Burn(s)
  <2>1. /\ g.pc = "verified"
        /\ sign' = [sign EXCEPT ![s].pc = IF nonce[g.nonce] = "issued" THEN "burned" ELSE "refused"]
        /\ nonce' = [nonce EXCEPT ![g.nonce] = "used"]
        /\ UNCHANGED tables
    BY <1>8 DEF Burn
  <2>2. RequestsOK'
    <3>1. nonce' \in [Nonces -> {"none", "issued", "used"}]
      BY <1>2, <2>1 DEF RequestsOK
    <3>2. \E pc \in SignPcs : sign' = [sign EXCEPT ![s] = [g EXCEPT !.pc = pc]]
      BY <2>1 DEF SignPcs
    <3>. QED BY <1>4, <3>1, <3>2, SignAtTyped
  <2>3. \A t \in SignIns : SignOK(t)'
    BY <1>2, <2>1 DEF Signs, SignOK, Entered, RequestsOK
  <2>4. NonceOpensOnce'
    BY <1>2, <2>1 DEF Signs, SignOK, NonceOpensOnce, Entered, RequestsOK
  <2>. QED BY <1>6, <2>1, <2>2, <2>3, <2>4, Together DEF Signs
<1>9. CASE Look(s)
  <2>1. /\ g.pc = "burned"
        /\ sign' = [sign EXCEPT ![s].pc = "looked", ![s].win = identity[g.wallet],
                                ![s].current = IF @ \in people THEN @ ELSE NoOne]
        /\ UNCHANGED <<tables, nonce>>
    BY <1>9 DEF Look
  <2>2. RequestsOK'
    <3>1. identity[g.wallet] \in Anyone
      BY <1>2, <1>3, <2>1
    <3>2. (IF g.current \in people THEN g.current ELSE NoOne) \in Anyone
      BY <1>3 DEF Anyone
    <3>3. sign' = [sign EXCEPT ![s] = [g EXCEPT !.pc = "looked", !.win = identity[g.wallet],
                                 !.current = IF g.current \in people THEN g.current ELSE NoOne]]
      BY <2>1
    <3>. DEFINE X == [g EXCEPT !.pc = "looked", !.win = identity[g.wallet],
                        !.current = IF g.current \in people THEN g.current ELSE NoOne]
    <3>4. X \in SignSet
      BY <1>0, <3>1, <3>2 DEF SignSet, SignPcs
    <3>5. sign' = [sign EXCEPT ![s] = X]
      BY <3>3
    <3>. HIDE DEF X
    <3>. QED BY <1>0, <1>4, <2>1, <3>4, <3>5, SignTyped
  <2>3. Signs'
    BY <1>1, <2>1, SignMoves DEF Entered, RequestsOK, IInv
  <2>. QED BY <1>6, <2>1, <2>2, <2>3, Together
<1>10. CASE Weigh(s)
  <2>. DEFINE t == Target(g.win, g.current)
  <2>1. /\ g.pc = "looked"
        /\ sign' = [sign EXCEPT ![s].pc = "weighed", ![s].win = t[1], ![s].lose = t[2]]
        /\ UNCHANGED <<tables, nonce>>
    BY <1>10 DEF Weigh
  <2>2. t[1] \in Anyone /\ t[2] \in Anyone
    BY DEF Target, RequestsOK, Anyone, SignSet, SignPcs
  <2>. HIDE DEF t
  <2>3. RequestsOK'
    <3>1. sign' = [sign EXCEPT ![s] = [g EXCEPT !.pc = "weighed", !.win = t[1], !.lose = t[2]]]
      BY <2>1
    <3>. DEFINE X == [g EXCEPT !.pc = "weighed", !.win = t[1], !.lose = t[2]]
    <3>2. X \in SignSet
      BY <1>0, <2>2 DEF SignSet, SignPcs
    <3>3. sign' = [sign EXCEPT ![s] = X]
      BY <3>1
    <3>. HIDE DEF X
    <3>. QED BY <1>0, <1>4, <2>1, <3>2, <3>3, SignTyped
  <2>4. Signs'
    BY <1>1, <2>1, SignMoves DEF Entered, RequestsOK, IInv
  <2>. QED BY <1>6, <2>1, <2>3, <2>4, Together
<1>11. CASE Become(s)
  <2>1. g.pc = "weighed" /\ nonce' = nonce
    BY <1>11 DEF Become
  <2>2. \E p \in Anyone : Becoming(s, p)
    BY <1>2, <1>3, <1>11, <2>1 DEF Become, Anyone, RequestsOK, SignSet, SignPcs
  <2>3. RequestsOK'
    <3>1. PICK p \in Anyone : sign' = [sign EXCEPT ![s] = [[g EXCEPT !.pc = "became"] EXCEPT !.win = p]]
      BY <2>2 DEF Becoming
    <3>. DEFINE X == [[g EXCEPT !.pc = "became"] EXCEPT !.win = p]
    <3>2. X \in SignSet
      BY <1>0, <3>1 DEF SignSet, SignPcs
    <3>3. sign' = [sign EXCEPT ![s] = X]
      BY <3>1
    <3>. HIDE DEF X
    <3>. QED BY <1>0, <1>4, <2>1, <3>2, <3>3, SignTyped
  <2>4. Signs'
    BY <1>1, <2>1, <2>2, SignMoves DEF Entered, RequestsOK, IInv, Becoming
  <2>5. \/ UNCHANGED tables
        \/ identity[g.wallet] = NoOne /\ \E p \in People : Create(g.wallet, p)
    BY <1>11 DEF Become
  <2>6. TablesOK' /\ Keeps
    BY <1>2, <2>1, <2>5, CreateKeeps, IdleKeeps DEF tables, TablesOK, PersonsTypeOK
  <2>. QED BY <1>4, <2>3, <2>4, <2>6, TurnsStay, Together
<1>12. CASE AttachWallet(s)
  <2>1. /\ g.pc = "became" /\ nonce' = nonce
        /\ \E pc \in {"attached", "failed"} : sign' = [sign EXCEPT ![s] = [g EXCEPT !.pc = pc]]
    BY <1>12 DEF AttachWallet
  <2>2. RequestsOK'
    BY <1>0, <1>4, <2>1, SignAtTyped DEF SignPcs
  <2>3. Signs'
    BY <1>1, <2>1, SignMoves DEF Entered, RequestsOK, IInv
  <2>4. TablesOK' /\ Keeps
    <3>1. Attach(g.wallet, g.win) \/ UNCHANGED tables
      BY <1>12 DEF AttachWallet
    <3>. QED BY <1>2, <2>1, <3>1, AttachKeeps, IdleKeeps DEF tables, TablesOK, PersonsTypeOK
  <2>. QED BY <1>4, <2>2, <2>3, <2>4, TurnsStay, Together
<1>13. CASE Open(s)
  <2>1. /\ g.pc = "attached"
        /\ UNCHANGED <<people, born, identity, owner, merge, gone, nonce>>
        /\ \E pc \in {"open", "failed"} : sign' = [sign EXCEPT ![s] = [g EXCEPT !.pc = pc]]
        /\ held' = held \/ (g.win \in people /\ held' = [held EXCEPT ![s] = g.win])
    BY <1>13 DEF Open
  <2>2. RequestsOK'
    BY <1>0, <1>4, <2>1, SignAtTyped DEF SignPcs
  <2>3. Signs'
    BY <1>1, <2>1, SignMoves DEF Entered, RequestsOK, IInv
  <2>4. held' \in [Things -> people \cup {NoOne}]
    BY <1>3, <2>1 DEF TablesOK, PersonsTypeOK
  <2>. QED BY <1>5, <2>1, <2>2, <2>3, <2>4, Together
<1>14. CASE SignOut(s)
  <2>1. /\ UNCHANGED <<people, born, identity, owner, merge, gone, requests>>
        /\ held' = [held EXCEPT ![s] = NoOne]
    BY <1>14 DEF SignOut
  <2>2. RequestsOK' /\ Signs'
    BY <2>1, SignsStay DEF RequestsOK, CodesKnown, requests
  <2>3. held' \in [Things -> people \cup {NoOne}]
    BY <1>3, <2>1 DEF TablesOK, PersonsTypeOK
  <2>. QED BY <1>5, <2>1, <2>2, <2>3, Together
<1>15. CASE FoldGuest(s) \/ GuestFolded(s)
  <2>1. /\ g.pc \in {"weighed", "merging"} /\ nonce' = nonce
        /\ g.pc = "merging" => g.lose \in People
    BY <1>15 DEF FoldGuest, GuestFolded, Signs, SignOK
  <2>2. PICK pc \in {"merging", "became", "failed"} :
               /\ sign' = [sign EXCEPT ![s] = [g EXCEPT !.pc = pc]]
               /\ pc = "merging" => g.lose \in People
    BY <1>15, BeginsOK DEF FoldGuest, GuestFolded, SignAt
  <2>3. RequestsOK'
    BY <1>0, <1>4, <2>1, <2>2, SignAtTyped DEF SignPcs
  <2>4. Signs'
    BY <1>1, <2>1, <2>2, SignMoves DEF Entered, RequestsOK, IInv
  <2>5. TablesOK' /\ Keeps
    <3>1. \/ UNCHANGED tables
          \/ MergeBegins(g.win, g.lose)
          \/ MergeEnds(g.lose) /\ g.lose \in People
          \/ MergeRollsBack(g.lose)
      BY <1>15, <2>1 DEF FoldGuest, GuestFolded
    <3>2. CASE UNCHANGED tables
      BY <3>2, IdleKeeps DEF tables, TablesOK, PersonsTypeOK
    <3>. QED BY <3>1, <3>2, BeginsKeeps, EndsKeeps, RollsBackKeeps
  <2>. QED BY <1>4, <2>3, <2>4, <2>5, TurnsStay, Together
<1>. QED BY <1>7, <1>8, <1>9, <1>10, <1>11, <1>12, <1>13, <1>14, <1>15

-----------------------------------------------------------------------------
(* Documents, challenges and link codes.                                     *)
LEMMA OtherSteps ==
  ASSUME IInv,
         \/ \E d \in Documents, s \in SignIns : AddDocument(d, s)
         \/ \E n \in Nonces : Challenge(n)
         \/ \E c \in Codes, x \in Externals : MakeCode(c, x)
         \/ \E r \in Redeems, c \in Codes, x \in Externals : ReadCode(r, c, x)
         \/ \E r \in Redeems : CheckEmpty(r) \/ FoldRedeemer(r) \/ RedeemerFolded(r) \/ BurnCode(r)
         \/ \E l \in People : Merges(l)
  PROVE  IInv'
<1>. USE Parts
<1>1. UNCHANGED <<turn, sign>>
  BY DEF AddDocument, Challenge, MakeCode, ReadCode, CheckEmpty, FoldRedeemer, RedeemerFolded, BurnCode, Merges, requests
<1>2. \A t \in Things : held[t] \in people \cup {NoOne}
  BY DEF TablesOK, PersonsTypeOK
<1>3. \A x \in Externals : identity[x] \in people \cup {NoOne}
  BY DEF TablesOK, PersonsTypeOK, Identities
<1>4. people \subseteq People /\ SignIns \cup Codes \cup Documents = Things
  BY IdentityAssumption DEF TablesOK, PersonsTypeOK
<1>5. Signs'
  <2>1. CASE nonce' = nonce
    BY <1>1, <2>1, SignsStay
  <2>2. ASSUME NEW n \in Nonces, Challenge(n) PROVE Signs'
    <3>1. \A s \in SignIns : nonce[sign[s].nonce] = "used" => nonce'[sign[s].nonce] = "used"
      BY <2>2 DEF Challenge, RequestsOK
    <3>. QED BY <1>1, <3>1 DEF Signs, SignOK, NonceOpensOnce, Entered
  <2>. QED BY <2>1, <2>2 DEF AddDocument, MakeCode, ReadCode, CheckEmpty, FoldRedeemer, RedeemerFolded, BurnCode, Merges, requests
<1>6. RequestsOK'
  <2>1. ASSUME NEW r \in Redeems, NEW c \in Codes, NEW x \in Externals, ReadCode(r, c, x)
        PROVE  RequestsOK'
    BY <2>1, <1>2, <1>3, <1>4 DEF ReadCode, RequestsOK, Anyone, CodesKnown, RedeemSet, RedeemPcs
  <2>2. ASSUME NEW r \in Redeems, CheckEmpty(r) \/ FoldRedeemer(r) \/ RedeemerFolded(r)
        PROVE  RequestsOK'
    <3>1. /\ redeem[r].pc # "idle"
          /\ \E pc \in {"refused", "empty", "merging", "folded", "failed"} :
               /\ redeem' = [redeem EXCEPT ![r] = [redeem[r] EXCEPT !.pc = pc]]
               /\ pc = "merging" => redeem[r].self \in People
          /\ UNCHANGED <<nonce, used, turn, sign>>
      BY <2>2, BeginsOK DEF CheckEmpty, FoldRedeemer, RedeemerFolded, RedeemAt
    <3>2. used \in SUBSET Codes
      BY DEF RequestsOK
    <3>. QED BY <3>1, <3>2, RedeemAtTyped DEF RedeemPcs
  <2>3. ASSUME NEW r \in Redeems, BurnCode(r)
        PROVE  RequestsOK'
    <3>1. redeem[r].code \in Codes
      BY <2>3 DEF BurnCode, RequestsOK, CodesKnown
    <3>. QED BY <2>3, <3>1 DEF BurnCode, RequestsOK, CodesKnown, RedeemSet, RedeemPcs
  <2>4. ASSUME NEW n \in Nonces, Challenge(n)
        PROVE  RequestsOK'
    BY <2>4 DEF Challenge, RequestsOK, CodesKnown
  <2>5. CASE UNCHANGED requests
    BY <2>5 DEF requests, RequestsOK, CodesKnown
  <2>. QED BY <2>1, <2>2, <2>3, <2>4, <2>5 DEF AddDocument, MakeCode, Merges
<1>7. TablesOK' /\ Keeps
  <2>1. ASSUME NEW d \in Documents, NEW s \in SignIns, AddDocument(d, s)
        PROVE  TablesOK' /\ Keeps
    <3>1. held' \in [Things -> people \cup {NoOne}]
      BY <2>1, <1>2, <1>4 DEF AddDocument, TablesOK, PersonsTypeOK
    <3>. QED BY <2>1, <3>1, IdleKeeps DEF AddDocument
  <2>2. ASSUME NEW c \in Codes, NEW x \in Externals, MakeCode(c, x)
        PROVE  TablesOK' /\ Keeps
    <3>1. held' \in [Things -> people \cup {NoOne}]
      BY <2>2, <1>3, <1>4 DEF MakeCode, TablesOK, PersonsTypeOK
    <3>. QED BY <2>2, <3>1, IdleKeeps DEF MakeCode
  <2>3. ASSUME NEW r \in Redeems, FoldRedeemer(r) \/ RedeemerFolded(r)
        PROVE  TablesOK' /\ Keeps
    <3>. DEFINE win == redeem[r].issuer
                lose == redeem[r].self
    <3>1. \/ UNCHANGED tables
          \/ MergeBegins(win, lose)
          \/ MergeEnds(lose) /\ lose \in People
          \/ MergeRollsBack(lose)
      BY <2>3 DEF FoldRedeemer, RedeemerFolded, RequestsOK, CodesKnown
    <3>2. CASE UNCHANGED tables
      BY <3>2, IdleKeeps DEF tables, TablesOK, PersonsTypeOK
    <3>. QED BY <3>1, <3>2, BeginsKeeps, EndsKeeps, RollsBackKeeps
  <2>4. CASE UNCHANGED tables
    BY <2>4, IdleKeeps DEF tables, TablesOK, PersonsTypeOK
  <2>5. ASSUME NEW l \in People, Merges(l)
        PROVE  TablesOK' /\ Keeps
    BY <2>5, MovesKeeps DEF Merges
  <2>. QED BY <2>1, <2>2, <2>3, <2>4, <2>5 DEF Challenge, ReadCode, CheckEmpty, BurnCode
<1>8. Turns'
  BY <1>1, <1>7, TurnsStay
<1>. QED BY <1>5, <1>6, <1>7, <1>8, Together

LEMMA Steps == IInv /\ [Next]_vars => IInv'
<1>. SUFFICES ASSUME IInv, [Next]_vars PROVE IInv'
  OBVIOUS
<1>1. CASE UNCHANGED vars
  BY <1>1 DEF vars, tables, requests, IInv, TypeOK, PersonsTypeOK, NobodyUnreachable, MergesOK, MergeOK,
              Whose, Passed, Turns, TurnOK,
              Found, Written, Signs, SignOK, Entered, NonceOpensOnce,
              CodesKnown
<1>2. CASE Next
  BY <1>2, TurnSteps, SignInSteps, OtherSteps DEF Next
<1>. QED BY <1>1, <1>2

LEMMA Invariant == Spec => []IInv
BY Initially, Steps, PTL DEF Spec

-----------------------------------------------------------------------------
(* identity/auth.ts: a signature opens at most one session.                  *)
THEOREM OneSessionPerSignature == Spec => []NonceOpensOnce
<1>1. IInv => NonceOpensOnce
  BY DEF IInv, Signs
<1>. QED BY <1>1, Invariant, PTL

(* identity/persons.ts: no race of arrivals, sign-ins and merges leaves a    *)
(* person whom no channel leads to.                                          *)
THEOREM NoOrphans == Spec => []NobodyUnreachable
<1>1. IInv => NobodyUnreachable
  BY DEF IInv
<1>. QED BY <1>1, Invariant, PTL

(* identity/persons.ts, mergePersons and indexWrites: a memory belongs to    *)
(* whoever its author's channel belongs to by now, but for what came late    *)
(* for a merge.                                                              *)
THEOREM MemoriesStay == Spec => []MemoriesFollowAuthor
<1>1. IInv => MemoriesFollowAuthor
  BY DEF IInv, Turns, TurnOK, Written, MemoriesFollowAuthor, TypeOK, PersonsTypeOK, Identities
<1>. QED BY <1>1, Invariant, PTL
=============================================================================
