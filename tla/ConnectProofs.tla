----------------------------- MODULE ConnectProofs -----------------------------
(***************************************************************************)
(* Connect proved for any people, wallets, keys, tokens and callbacks.     *)
(* That a callback opens nothing by itself rests on what it has verified:  *)
(* a grant is for good.  What it found out about the token and the wallet  *)
(* is for good only while nobody comes in between (inTurn).  That a key is *)
(* lost only with a row that came late rests on what is right of a merge   *)
(* at each of its statements (PersonsProofs).  The last part is of the     *)
(* page in front of it (ConnectPage).                                      *)
(***************************************************************************)
EXTENDS Connect, ConnectPage, PersonsProofs

Named(d)      == done[d].pc \notin {"idle", "over"}
Connecting(d) == done[d].pc \in {"split", "folding", "commit"}
Verified(d)   == Connecting(d) \/ (At(d, "verified") /\ Kind(d) = "connect")

(* A callback that folds somebody has the merge of them to itself.           *)
DoneOK(d) ==
  /\ Named(d) => /\ done[d].token \in Tokens /\ Kind(d) # "none" /\ Key(d) \in Keys
                 /\ done[d].account \in Wallets /\ done[d].person \in People
  /\ Connecting(d) => Kind(d) = "connect"
  /\ Verified(d) => <<Key(d), done[d].account>> \in granted /\ done[d].wallet = done[d].account
  /\ At(d, "split") \/ At(d, "folding") => done[d].into \in People /\ done[d].into # done[d].person
  /\ At(d, "folding") => merge[done[d].person].into = done[d].into
  /\ Committed(d) => token[done[d].token].used

FoldsApart == \A d, e \in Dones :
  At(d, "folding") /\ At(e, "folding") /\ done[d].person = done[e].person => d = e

DonesOK  == (\A d \in Dones : DoneOK(d)) /\ FoldsApart
TokensOK == \A t \in Tokens :
  /\ held[t] # NoOne => token[t].kind # "none"
  /\ token[t].kind # "none" => token[t].key \in Keys

GrantsOK ==
  /\ \A a \in Wallets : \A k \in chain[a] : <<k, a>> \in granted
  /\ \A p \in People : mode[p] = "owned" => p \in born /\ \E k \in Keys : <<k, account[p]>> \in granted

NewKeys == \A k \in Keys : status[k] = "none" => owner[k] = NoOne

(* What holds while callbacks are not disturbed.                             *)
OneAtATime ==
  /\ \A d, e \in Dones : InProgress(d) /\ InProgress(e) => d = e
  /\ \A d \in Dones : InProgress(d) => ~token[done[d].token].used
  /\ TokenCommitsOnce
Decided == \A d \in Dones :
  /\ At(d, "split") \/ At(d, "folding") => identity[done[d].wallet] = done[d].into
  /\ At(d, "commit") => identity[done[d].wallet] \in {NoOne, done[d].person}
OwnsWallet == \A p \in people : mode[p] = "owned" => account[p] \in Wallets /\ identity[account[p]] = p

IInv ==
  /\ TypeOK /\ TablesOK /\ DonesOK /\ TokensOK /\ GrantsOK /\ NewKeys /\ SecretHasOwner
  /\ inTurn => OneAtATime /\ Decided /\ OwnsWallet

(* Keys: whose they are, and what the tokens that name them say of them.     *)
TokenKey(t) ==
  LET k == token[t].key IN
  /\ token[t].kind # "none" => status[k] # "none"
  /\ token[t].kind # "none" /\ held[t] # NoOne => owner[k] = held[t]
  /\ token[t].kind = "connect" /\ ~token[t].used =>
       status[k] = "pending" /\ (owner[k] # NoOne => k \in secret)
  /\ token[t].kind = "disconnect" => status[k] \in {"active", "revoked"}

OneConnect == \A t, u \in Tokens :
  token[t].kind = "connect" /\ token[u].kind = "connect" /\ token[t].key = token[u].key => t = u

(* The merge that a callback waits for takes its key along.                  *)
Holds == \A d \in Dones :
  /\ InProgress(d) => owner[Key(d)] = done[d].person
  /\ At(d, "folding") => Key(d) \notin merge[done[d].person].late

KeyInv ==
  /\ \A t \in Tokens : TokenKey(t)
  /\ OneConnect
  /\ inTurn => Holds /\ OwnedHasKey

-----------------------------------------------------------------------------
(* The types.                                                                *)
TokenSet == [kind : {"none", "connect", "disconnect"}, key : Keys \cup {NoOne}, used : BOOLEAN]
DoneSet  == [pc : {"idle", "loaded", "verified", "split", "folding", "commit",
                   "connected", "disconnected", "over"},
             token : Tokens \cup {NoOne}, account : Wallets \cup {NoOne},
             person : Anyone, wallet : Wallets \cup {NoOne}, into : Anyone]
KeysOK  == status \in [Keys -> {"none", "pending", "active", "revoked"}] /\ secret \in SUBSET Keys
ModesOK == mode \in [People -> {"guest", "owned"}] /\ account \in [People -> Wallets \cup {NoOne}]
ChainOK == chain \in [Wallets -> SUBSET Keys] /\ granted \in SUBSET (Keys \X Wallets)

LEMMA Types ==
  TypeOK <=> /\ PersonsTypeOK /\ KeysOK /\ ModesOK /\ ChainOK
             /\ token \in [Tokens -> TokenSet] /\ done \in [Dones -> DoneSet] /\ inTurn \in BOOLEAN
BY DEF TypeOK, KeysOK, ModesOK, ChainOK, TokenSet, DoneSet

LEMMA TypesNext ==
  ASSUME TablesOK', KeysOK', ModesOK', ChainOK',
         token' \in [Tokens -> TokenSet], done' \in [Dones -> DoneSet], inTurn' \in BOOLEAN
  PROVE  TypeOK'
BY DEF TypeOK, TablesOK, KeysOK, ModesOK, ChainOK, TokenSet, DoneSet

LEMMA Known ==
  ASSUME IInv
  PROVE  /\ PersonsTypeOK /\ KeysOK /\ ModesOK /\ ChainOK
         /\ token \in [Tokens -> TokenSet] /\ done \in [Dones -> DoneSet] /\ inTurn \in BOOLEAN
         /\ people \subseteq born /\ people \subseteq People /\ NoOne \notin People
         /\ \A w \in Wallets : w \in Identities /\ identity[w] \in people \cup {NoOne}
         /\ \A k \in Keys : k \in Owned /\ owner[k] \in people \cup {NoOne}
         /\ \A t \in Tokens : t \in Things /\ held[t] \in people \cup {NoOne}
BY Types, PersonsAssumption, ConnectAssumption DEF IInv, PersonsTypeOK, Identities, Owned

LEMMA DoneTyped ==
  ASSUME IInv, NEW d \in Dones
  PROVE  done[d] \in DoneSet /\ DoneOK(d)
BY Known DEF IInv, DonesOK

(* What a callback that does not move has found out stays so.                *)
TokenSame == \A t \in Tokens : token[t].kind # "none" => token'[t] = token[t]

(* The merges that callbacks wait for are left to them.                      *)
MergesSame == \A l \in People : ByCallback(l) => merge'[l].into = merge[l].into

LEMMA DoneStays ==
  ASSUME NEW d \in Dones, DoneOK(d), done'[d] = done[d], granted \subseteq granted',
         \A t \in Tokens : token[t].kind # "none" =>
           /\ token'[t].kind = token[t].kind /\ token'[t].key = token[t].key
           /\ token[t].used => token'[t].used,
         At(d, "folding") => merge'[done[d].person].into = merge[done[d].person].into
  PROVE  DoneOK(d)'
<1>1. CASE done[d].pc \in {"idle", "over"}
  BY <1>1 DEF DoneOK, Named, Connecting, At, Verified, Committed
<1>2. CASE done[d].pc \notin {"idle", "over"}
  BY <1>2 DEF DoneOK, Named, Connecting, At, Verified, Committed, Kind, Key
<1>. QED BY <1>1, <1>2

LEMMA DonesStay ==
  ASSUME DonesOK, done' = done, TokenSame, granted \subseteq granted', MergesSame
  PROVE  DonesOK'
<1>1. ASSUME NEW d \in Dones PROVE DoneOK(d)'
  <2>1. DoneOK(d)
    BY DEF DonesOK
  <2>2. At(d, "folding") => merge'[done[d].person].into = merge[done[d].person].into
    BY <2>1 DEF MergesSame, ByCallback, DoneOK, Named, At
  <2>. QED BY <2>1, <2>2, DoneStays DEF TokenSame
<1>2. FoldsApart'
  BY DEF DonesOK, FoldsApart, At
<1>. QED BY <1>1, <1>2 DEF DonesOK

LEMMA InTurnStays ==
  ASSUME DonesOK, OneAtATime, TokenSame,
         \A d \in Dones :
           /\ InProgress(d)' => InProgress(d) /\ done'[d].token = done[d].token
           /\ Committed(d)' => Committed(d) /\ done'[d].token = done[d].token
  PROVE  OneAtATime'
<1>1. \A d \in Dones : InProgress(d) => token'[done[d].token] = token[done[d].token]
  BY DEF DonesOK, DoneOK, InProgress, Named, Kind, TokenSame
<1>2. TokenCommitsOnce'
  BY DEF OneAtATime, TokenCommitsOnce
<1>. QED BY <1>1, <1>2 DEF OneAtATime

LEMMA OwnersStay ==
  ASSUME OwnsWallet, mode' = mode, account' = account, people' \subseteq people,
         \A p \in people' : \A w \in Wallets : identity[w] = p => identity'[w] = p
  PROVE  OwnsWallet'
BY DEF OwnsWallet

LEMMA DecidedStays ==
  ASSUME IInv, Decided, done' = done, \A w \in Wallets : identity'[w] = identity[w]
  PROVE  Decided'
<1>1. ASSUME NEW d \in Dones, Connecting(d) PROVE done[d].wallet \in Wallets
  BY <1>1 DEF IInv, DonesOK, DoneOK, Verified, Named, Connecting
<1>. QED BY <1>1 DEF Decided, At, Connecting

LEMMA StaysDestroyed ==
  ASSUME IInv, \A d \in Dones : At(d, "disconnected") => done'[d] = done[d],
         \A t \in Tokens : token[t].kind # "none" => token'[t].key = token[t].key,
         NEW k, Destroyed(k)
  PROVE  Destroyed(k)'
<1>1. PICK d \in Dones : At(d, "disconnected") /\ Key(d) = k
  BY DEF Destroyed
<1>2. done'[d] = done[d] /\ done[d].token \in Tokens /\ token[done[d].token].kind # "none"
  BY <1>1, DoneTyped DEF DoneOK, Named, At, Kind
<1>3. At(d, "disconnected")' /\ Key(d)' = k
  BY <1>1, <1>2 DEF At, Key
<1>. QED BY <1>3 DEF Destroyed

LEMMA SecretsStay ==
  ASSUME IInv, UNCHANGED <<status, secret, gone>>, \A k \in Keys : owner'[k] = owner[k],
         people \subseteq people',
         \A d \in Dones : At(d, "disconnected") => done'[d] = done[d],
         \A t \in Tokens : token[t].kind # "none" => token'[t].key = token[t].key
  PROVE  SecretHasOwner' /\ NewKeys'
<1>1. ASSUME NEW k \in Keys \ gone', status'[k] # "none", ~Destroyed(k)'
      PROVE  k \in secret' /\ owner'[k] \in people'
  <2>1. ~Destroyed(k)
    BY <1>1, StaysDestroyed
  <2>. QED BY <1>1, <2>1 DEF IInv, SecretHasOwner
<1>2. SecretHasOwner'
  BY <1>1 DEF SecretHasOwner
<1>3. NewKeys'
  BY DEF IInv, NewKeys
<1>. QED BY <1>2, <1>3

(* Comes changes no merge but for what came late.                            *)
LEMMA ComesLate ==
  ASSUME PersonsTypeOK, NEW p \in People, NEW R \in SUBSET (Identities \cup Owned),
         merge' = Comes(merge, p, R)
  PROVE  \A l \in People : /\ merge'[l].into = merge[l].into
                           /\ \A q : q \in merge'[l].late => q \in merge[l].late \/ q \in R
<1>1. ComesAs(Comes(merge, p, R), merge, p, R)
  BY MergesTyped, ComesDoes
<1>. QED BY <1>1 DEF ComesAs

(* A row of somebody else comes to no key's person late.                     *)
LEMMA AttachLate ==
  ASSUME IInv, NEW w \in Wallets, NEW p, Attach(w, p)
  PROVE  \A l \in People : /\ merge'[l].into = merge[l].into
                           /\ \A k \in Keys : k \in merge'[l].late => k \in merge[l].late
<1>1. CASE merge' = merge
  BY <1>1
<1>2. CASE merge' # merge
  <2>1. p \in people /\ merge' = Comes(merge, p, {w})
    BY <1>2 DEF Attach, AttachFails
  <2>2. {w} \in SUBSET (Identities \cup Owned) /\ p \in People
    BY <2>1, Known
  <2>3. \A k \in Keys : k \notin {w}
    BY PersonsAssumption DEF Identities, Owned
  <2>. QED BY <2>1, <2>2, <2>3, ComesLate, Known
<1>. QED BY <1>1, <1>2

-----------------------------------------------------------------------------
(* People, their merges, and the wallet.                                     *)
LEMMA ArriveStep ==
  ASSUME IInv, NEW x \in Externals, NEW p \in People, Arrive(x, p)
  PROVE  IInv'
<1>1. /\ identity[x] = NoOne /\ Create(x, p) /\ x \in Identities
      /\ UNCHANGED <<status, secret, token, mode, account, chain, granted, done, inTurn>>
  BY DEF Arrive, keys, Identities
<1>2. TablesOK
  BY DEF IInv
<1>3. /\ TablesOK' /\ p \in People \ born /\ people' = people \cup {p} /\ born' = born \cup {p}
      /\ UNCHANGED <<owner, held, merge, gone>>
      /\ \A y \in Identities : identity'[y] = IF y = x THEN p ELSE identity[y]
  BY <1>1, <1>2, CreateOK
<1>4. \A w \in Wallets : identity'[w] = identity[w]
  BY <1>3, PersonsAssumption DEF Identities
<1>5. TypeOK'
  BY <1>1, <1>3, Known, TypesNext DEF KeysOK, ModesOK, ChainOK
<1>6. DonesOK'
  BY <1>1, <1>3, DonesStay DEF IInv, TokenSame, MergesSame
<1>7. TokensOK' /\ GrantsOK'
  BY <1>1, <1>3 DEF IInv, TokensOK, GrantsOK
<1>8. SecretHasOwner' /\ NewKeys'
  BY <1>1, <1>3, SecretsStay
<1>9. inTurn => OneAtATime' /\ Decided'
  BY <1>1, <1>4, InTurnStays, DecidedStays DEF IInv, TokenSame, InProgress, Committed
<1>10. inTurn => OwnsWallet'
  BY <1>1, <1>3, <1>4 DEF IInv, OwnsWallet, GrantsOK
<1>. QED BY <1>1, <1>3, <1>5, <1>6, <1>7, <1>8, <1>9, <1>10 DEF IInv

LEMMA NobodyInProgress ==
  ASSUME IInv, Disturbs, inTurn'
  PROVE  inTurn /\ \A d \in Dones : ~InProgress(d) /\ ~Connecting(d)
BY DEF Disturbs, InProgress, Connecting

LEMMA DisturbsType == ASSUME IInv, Disturbs PROVE inTurn' \in BOOLEAN
BY DEF Disturbs, IInv, TypeOK

LEMMA SignInStep ==
  ASSUME IInv, NEW p \in People, NEW w \in Wallets, SignIn(p, w)
  PROVE  IInv'
<1>1. /\ identity[w] = NoOne /\ Attach(w, p) /\ Disturbs
      /\ UNCHANGED <<status, secret, token, mode, account, chain, granted, done>>
  BY DEF SignIn, keys
<1>2. TablesOK
  BY DEF IInv
<1>3. /\ TablesOK' /\ UNCHANGED <<people, born, owner, held, gone>>
      /\ \A v \in Identities : identity'[v] = IF v = w /\ identity[v] = NoOne THEN p ELSE identity[v]
  BY <1>1, <1>2, AttachOK
<1>4. TypeOK'
  BY <1>1, <1>3, Known, TypesNext, DisturbsType DEF KeysOK, ModesOK, ChainOK
<1>5. DonesOK'
  BY <1>1, AttachLate, DonesStay DEF IInv, TokenSame, MergesSame
<1>6. TokensOK' /\ GrantsOK'
  BY <1>1, <1>3 DEF IInv, TokensOK, GrantsOK
<1>7. SecretHasOwner' /\ NewKeys'
  BY <1>1, <1>3, SecretsStay
<1>8. ASSUME inTurn' PROVE OneAtATime' /\ Decided' /\ OwnsWallet'
  <2>1. inTurn /\ \A d \in Dones : ~InProgress(d) /\ ~Connecting(d)
    BY <1>1, <1>8, NobodyInProgress
  <2>2. OneAtATime'
    BY <1>1, <2>1, InTurnStays DEF IInv, TokenSame, InProgress, Committed
  <2>3. Decided'
    BY <1>1, <2>1 DEF Decided, At, Connecting
  <2>4. OwnsWallet'
    BY <1>1, <1>3, <2>1, Known, OwnersStay DEF IInv
  <2>. QED BY <2>2, <2>3, <2>4
<1>. QED BY <1>3, <1>4, <1>5, <1>6, <1>7, <1>8 DEF IInv

(* The statements of a merge that nobody sees, and steps of nobody's.        *)
LEMMA UnseenStep ==
  ASSUME IInv, TablesOK', MergesSame, UNCHANGED <<people, born, identity, owner, held, gone>>,
         UNCHANGED <<status, secret, token, mode, account, chain, granted, done, inTurn>>
  PROVE  IInv'
<1>1. TypeOK'
  BY Known, TypesNext DEF KeysOK, ModesOK, ChainOK
<1>2. DonesOK' /\ TokensOK' /\ GrantsOK'
  BY DonesStay DEF IInv, TokenSame, TokensOK, GrantsOK
<1>3. SecretHasOwner' /\ NewKeys'
  BY SecretsStay
<1>4. inTurn => OneAtATime' /\ Decided' /\ OwnsWallet'
  BY InTurnStays, DecidedStays, OwnersStay DEF IInv, TokenSame, InProgress, Committed
<1>. QED BY <1>1, <1>2, <1>3, <1>4 DEF IInv

(* A callback's merge is in progress, and so is not begun again.             *)
LEMMA CallbackMerges ==
  ASSUME IInv, NEW l \in People, ByCallback(l)
  PROVE  Merging(l) /\ merge[l].into # NoOne
<1>1. PICK d \in Dones : At(d, "folding") /\ done[d].person = l
  BY DEF ByCallback, At
<1>2. merge[l].into = done[d].into /\ done[d].into \in People
  BY <1>1, DoneTyped DEF DoneOK
<1>. QED BY <1>2, Known DEF Merging, NoMerge

UnseenMerge(w, l) == LinkBegins(w, l) \/ LinkRollsBack(l) \/ Merges(l)

LEMMA UnseenIs ==
  ASSUME IInv, NEW w, NEW l \in People, UnseenMerge(w, l)
  PROVE  /\ TablesOK'
         /\ \A q \in People : ByCallback(q) =>
              merge'[q].into = merge[q].into /\ merge'[q].late = merge[q].late
         /\ UNCHANGED <<people, born, identity, owner, held, gone>>
         /\ UNCHANGED <<status, secret, token, mode, account, chain, granted, done, inTurn>>
<1>1. TablesOK
  BY DEF IInv
<1>2. /\ MergeBegins(w, l) \/ MergeRollsBack(l) \/ MergeMoves(l)
      /\ UNCHANGED <<status, secret, token, mode, account, chain, granted, done, inTurn>>
  BY DEF UnseenMerge, LinkBegins, LinkRollsBack, Merges, keys
<1>3. TablesOK'
  BY <1>1, <1>2, BeginsOK, MovesOK, RollsBackOK
<1>4. UNCHANGED <<people, born, identity, owner, held, gone>>
  BY <1>2 DEF MergeBegins, MergeRollsBack, MergeMoves
<1>5. ASSUME NEW q \in People, ByCallback(q)
      PROVE  merge'[q].into = merge[q].into /\ merge'[q].late = merge[q].late
  <2>1. merge \in AllMerges
    BY <1>1, MergesTyped DEF TablesOK
  <2>2. CASE LinkBegins(w, l) \/ LinkRollsBack(l)
    <3>1. q # l
      BY <1>5, <2>2, CallbackMerges DEF LinkBegins, LinkRollsBack, MergeBegins
    <3>. QED BY <2>1, <2>2, <3>1 DEF LinkBegins, LinkRollsBack, MergeBegins, MergeRollsBack, AllMerges
  <2>3. CASE Merges(l)
    BY <2>1, <2>3 DEF Merges, MergeMoves, AllMerges
  <2>. QED BY <2>2, <2>3 DEF UnseenMerge
<1>. QED BY <1>2, <1>3, <1>4, <1>5

LEMMA UnseenMergeStep ==
  ASSUME IInv, NEW w, NEW l \in People, UnseenMerge(w, l)
  PROVE  IInv'
BY UnseenIs, UnseenStep DEF MergesSame

(* The end of a merge: every key that did not come late is the winner's.     *)
LEMMA Ends ==
  ASSUME IInv, NEW l \in People, Folded(l)
  PROVE  /\ TablesOK' /\ KeysOK' /\ status' = status /\ NewKeys'
         /\ l \in people /\ merge[l].into \in people /\ merge[l].into # l
         /\ people' = people \ {l} /\ born' = born
         /\ \A x \in Identities \cup Keys : Whose(x) # l => Whose(x)' = Whose(x)
         /\ \A k \in Keys : /\ owner'[k] \in people' \cup {NoOne}
                            /\ owner[k] = NoOne => owner'[k] = NoOne
                            /\ owner[k] = l /\ k \notin merge[l].late => owner'[k] = merge[l].into
                            /\ owner[k] = l /\ owner'[k] # NoOne => owner'[k] = merge[l].into
                            /\ k \in secret' <=> k \in secret /\ owner'[k] # NoOne
                            /\ k \notin gone' => k \notin gone /\ (owner'[k] = NoOne => owner[k] = NoOne)
         /\ \A t \in Tokens : held'[t] \in {held[t], NoOne} \ {l}
         /\ \A q \in People : /\ q # l => merge'[q].into = merge[q].into
                              /\ \A k \in Keys : k \in merge'[q].late =>
                                   k \in merge[q].late \/ owner[k] = l
<1>. DEFINE g == merge[l]
<1>1. /\ TablesOK /\ MergeEnds(l) /\ status' = status
      /\ secret' = {k \in secret : owner'[k] # NoOne}
  BY DEF IInv, Folded
<1>2. TablesOK' /\ EndsAs(l)
  BY <1>1, EndsOK, EndsDoes
<1>3. /\ l \in people /\ g.into \in people /\ g.into # l /\ l # NoOne /\ g.into # NoOne
      /\ people' = people \ {l} /\ born' = born
      /\ g.rows \in SUBSET (Identities \cup Owned)
  BY <1>2, Known DEF EndsAs, PersonsTypeOK
<1>4. \A x \in Identities \cup Keys : Whose(x) # l => Whose(x)' = Whose(x)
  BY <1>2 DEF EndsAs, Owned
<1>5. ASSUME NEW k \in Keys
      PROVE  /\ owner'[k] \in people' \cup {NoOne}
             /\ owner[k] = NoOne => owner'[k] = NoOne
             /\ owner[k] = l /\ k \notin g.late => owner'[k] = g.into
             /\ owner[k] = l /\ owner'[k] # NoOne => owner'[k] = g.into
             /\ k \in secret' <=> k \in secret /\ owner'[k] # NoOne
             /\ k \notin gone' => k \notin gone /\ (owner'[k] = NoOne => owner[k] = NoOne)
  <2>1. k \in Owned /\ Whose(k) = owner[k] /\ Whose(k)' = owner'[k] /\ owner'[k] \in people' \cup {NoOne}
    BY <1>2, PersonsAssumption DEF Whose, Owned, TablesOK, PersonsTypeOK
  <2>2. /\ owner'[k] = CASE k \in g.rows -> g.into
                         [] k \notin g.rows /\ owner[k] = l -> NoOne
                         [] OTHER -> owner[k]
        /\ k \in g.rows => owner[k] = l
        /\ owner[k] = l => k \in g.rows \cup g.late
        /\ gone' = gone \cup g.late
    BY <1>2, <2>1 DEF EndsAs
  <2>3. k \in secret' <=> k \in secret /\ owner'[k] # NoOne
    BY <1>1
  <2>. QED BY <1>3, <2>1, <2>2, <2>3
<1>6. KeysOK' /\ NewKeys'
  <2>1. secret' \in SUBSET Keys
    BY <1>1, Known DEF KeysOK
  <2>. QED BY <1>1, <1>5, <2>1, Known DEF KeysOK, IInv, NewKeys
<1>7. \A t \in Tokens : held'[t] \in {held[t], NoOne} \ {l}
  <2>1. \A t \in Tokens : t \notin Identities \cup Owned /\ t \in Things
    BY PersonsAssumption, Known
  <2>2. held' = AfterMerge(held, l) /\ DOMAIN held = Things
    BY <1>1 DEF MergeEnds, TablesOK, PersonsTypeOK
  <2>. QED BY <1>3, <2>1, <2>2 DEF AfterMerge
<1>8. ASSUME NEW q \in People
      PROVE  /\ q # l => merge'[q].into = merge[q].into
             /\ \A k \in Keys : k \in merge'[q].late => k \in merge[q].late \/ owner[k] = l
  <2>1. PICK mg : mg = Comes(merge, g.into, g.rows) /\ merge' = [mg EXCEPT ![l] = NoMerge]
    BY <1>1 DEF MergeEnds
  <2>2. mg \in AllMerges /\ ComesAs(mg, merge, g.into, g.rows)
    BY <1>1, <1>3, <2>1, Known, MergesTyped, ComesDoes
  <2>3. merge'[q] = IF q = l THEN NoMerge ELSE mg[q]
    BY <2>1, <2>2 DEF AllMerges
  <2>4. \A k \in Keys : k \in g.rows => owner[k] = l
    BY <1>2, PersonsAssumption DEF EndsAs, Whose, Owned
  <2>. QED BY <2>2, <2>3, <2>4 DEF ComesAs, NoMerge
<1>. QED BY <1>1, <1>2, <1>3, <1>4, <1>5, <1>6, <1>7, <1>8

(* No merge loses a key but with a row that came late.                       *)
LEMMA EndsSecrets ==
  ASSUME IInv, NEW l \in People, Folded(l),
         \A d \in Dones : At(d, "disconnected") => done'[d] = done[d], token' = token
  PROVE  SecretHasOwner'
<1>1. ASSUME NEW k \in Keys \ gone', status'[k] # "none", ~Destroyed(k)'
      PROVE  k \in secret' /\ owner'[k] \in people'
  <2>1. k \in Keys /\ k \notin gone /\ status[k] # "none" /\ ~Destroyed(k)
    BY <1>1, Ends, StaysDestroyed
  <2>2. k \in secret /\ owner[k] \in people /\ owner[k] # NoOne
    BY <2>1, Known DEF IInv, SecretHasOwner
  <2>3. owner'[k] # NoOne
    BY <1>1, <2>1, <2>2, Ends
  <2>. QED BY <2>1, <2>2, <2>3, Ends
<1>. QED BY <1>1 DEF SecretHasOwner

LEMMA EndsOwners ==
  ASSUME IInv, inTurn, NEW l \in People, Folded(l), mode' = mode, account' = account
  PROVE  OwnsWallet'
<1>1. ASSUME NEW p \in people', NEW w \in Wallets, identity[w] = p PROVE identity'[w] = p
  <2>1. p # l /\ w \in Identities /\ Whose(w) = identity[w] /\ Whose(w)' = identity'[w]
    BY <1>1, Ends, Known DEF Whose
  <2>. QED BY <1>1, <2>1, Ends
<1>. QED BY <1>1, Ends, OwnersStay DEF IInv

LEMMA LinkEndsStep ==
  ASSUME IInv, NEW l \in People, LinkEnds(l)
  PROVE  IInv'
<1>1. /\ ~ByCallback(l) /\ Folded(l) /\ Disturbs
      /\ UNCHANGED <<token, mode, account, chain, granted, done>>
  BY DEF LinkEnds
<1>2. TypeOK' /\ TablesOK' /\ NewKeys'
  BY <1>1, Ends, Known, TypesNext, DisturbsType DEF ModesOK, ChainOK
<1>3. MergesSame
  BY <1>1, Ends DEF MergesSame
<1>4. DonesOK'
  BY <1>1, <1>3, DonesStay DEF IInv, TokenSame
<1>5. TokensOK' /\ GrantsOK'
  BY <1>1, Ends DEF IInv, TokensOK, GrantsOK
<1>6. SecretHasOwner'
  BY <1>1, EndsSecrets
<1>7. ASSUME inTurn' PROVE OneAtATime' /\ Decided' /\ OwnsWallet'
  <2>1. inTurn /\ \A d \in Dones : ~InProgress(d) /\ ~Connecting(d)
    BY <1>1, <1>7, NobodyInProgress
  <2>2. OneAtATime'
    BY <1>1, <2>1, InTurnStays DEF IInv, TokenSame, InProgress, Committed
  <2>3. Decided'
    BY <1>1, <2>1 DEF Decided, At, Connecting
  <2>4. OwnsWallet'
    BY <1>1, <2>1, EndsOwners
  <2>. QED BY <2>2, <2>3, <2>4
<1>. QED BY <1>2, <1>4, <1>5, <1>6, <1>7 DEF IInv

LEMMA WalletSteps ==
  ASSUME IInv, NEW k \in Keys, NEW a \in Wallets, Grant(k, a) \/ Revoke(k, a)
  PROVE  IInv'
<1>1. /\ UNCHANGED <<people, born, identity, owner, held, merge, gone, status, secret, token, mode,
                     account, done, inTurn>>
      /\ granted \subseteq granted' /\ granted' \subseteq granted \cup {<<k, a>>}
      /\ \/ chain' = [chain EXCEPT ![a] = @ \cup {k}] /\ <<k, a>> \in granted'
         \/ chain' = [chain EXCEPT ![a] = @ \ {k}]
  BY DEF Grant, Revoke, tables, keys
<1>2. TablesOK'
  BY <1>1, SameOK, Known DEF IInv, PersonsTypeOK
<1>3. ChainOK'
  BY <1>1, Known DEF ChainOK
<1>4. TypeOK'
  BY <1>1, <1>2, <1>3, Known, TypesNext DEF KeysOK, ModesOK
<1>5. GrantsOK'
  <2>1. \A b \in Wallets : \A j \in chain'[b] : j \in chain[b] \/ <<j, b>> \in granted'
    BY <1>1, Known DEF ChainOK
  <2>. QED BY <1>1, <2>1 DEF IInv, GrantsOK
<1>6. DonesOK' /\ TokensOK'
  BY <1>1, DonesStay DEF IInv, TokenSame, MergesSame, TokensOK
<1>7. SecretHasOwner' /\ NewKeys'
  BY <1>1, SecretsStay
<1>8. inTurn => OneAtATime' /\ Decided' /\ OwnsWallet'
  BY <1>1, InTurnStays, OwnersStay, DecidedStays DEF IInv, TokenSame, InProgress, Committed
<1>. QED BY <1>1, <1>2, <1>4, <1>5, <1>6, <1>7, <1>8 DEF IInv

-----------------------------------------------------------------------------
(* Tokens.                                                                   *)
LEMMA StartConnectStep ==
  ASSUME IInv, NEW t \in Tokens, NEW k \in Keys, NEW p \in People, StartConnect(t, k, p)
  PROVE  IInv'
<1>. DEFINE new == [kind |-> "connect", key |-> k, used |-> FALSE]
<1>1. /\ token[t].kind = "none" /\ status[k] = "none" /\ Insert(k, p)
      /\ token' = [token EXCEPT ![t] = new] /\ held' = [held EXCEPT ![t] = p]
      /\ status' = [status EXCEPT ![k] = "pending"] /\ secret' = secret \cup {k}
      /\ UNCHANGED <<people, born, identity, gone, mode, account, chain, granted, done, inTurn>>
  BY DEF StartConnect
<1>2. TablesOK /\ p \in people /\ k \in Owned /\ owner[k] = NoOne
  BY <1>1, Known DEF IInv, NewKeys, Insert
<1>3. new \in TokenSet /\ new.kind # "none" /\ new.key \in Keys
  BY DEF TokenSet
<1>. HIDE DEF new
<1>4. held' \in [Things -> people \cup {NoOne}] /\ \A u \in Tokens : u # t => held'[u] = held[u]
  BY <1>1, <1>2, Known DEF PersonsTypeOK
<1>5. TablesOK' /\ \A q \in Owned : owner'[q] = IF q = k THEN p ELSE owner[q]
  BY <1>1, <1>2, <1>4, InsertOK
<1>6. token' \in [Tokens -> TokenSet] /\ token'[t] = new /\ \A u \in Tokens : u # t => token'[u] = token[u]
  BY <1>1, <1>3, Known
<1>7. KeysOK' /\ status'[k] = "pending" /\ \A j \in Keys : j # k => status'[j] = status[j]
  BY <1>1, Known DEF KeysOK
<1>8. TypeOK'
  BY <1>1, <1>5, <1>6, <1>7, Known, TypesNext DEF ModesOK, ChainOK
<1>9. TokensOK' /\ TokenSame
  BY <1>1, <1>3, <1>4, <1>6 DEF IInv, TokensOK, TokenSame
<1>10. DonesOK' /\ GrantsOK'
  <2>1. MergesSame
    <3>1. {k} \in SUBSET (Identities \cup Owned) /\ merge' = Comes(merge, p, {k})
      BY <1>1, <1>2 DEF Insert
    <3>. QED BY <3>1, Known, ComesLate DEF MergesSame
  <2>. QED BY <1>1, <1>9, <2>1, DonesStay DEF IInv, GrantsOK
<1>11. NewKeys'
  BY <1>5, <1>7, Known DEF IInv, NewKeys
<1>12. SecretHasOwner'
  <2>1. ASSUME NEW j \in Keys \ gone', status'[j] # "none", ~Destroyed(j)'
        PROVE  j \in secret' /\ owner'[j] \in people'
    <3>1. CASE j = k
      BY <1>1, <1>2, <1>5, <3>1
    <3>2. CASE j # k
      <4>1. ~Destroyed(j)
        BY <1>1, <1>9, <2>1, StaysDestroyed DEF TokenSame
      <4>2. j \in secret /\ owner[j] \in people
        BY <1>1, <1>7, <2>1, <3>2, <4>1 DEF IInv, SecretHasOwner
      <4>. QED BY <1>1, <1>5, <3>2, <4>2, Known
    <3>. QED BY <3>1, <3>2
  <2>. QED BY <2>1 DEF SecretHasOwner
<1>13. inTurn => OneAtATime' /\ Decided' /\ OwnsWallet'
  BY <1>1, <1>9, InTurnStays, OwnersStay, DecidedStays DEF IInv, InProgress, Committed
<1>. QED BY <1>1, <1>5, <1>8, <1>9, <1>10, <1>11, <1>12, <1>13 DEF IInv

LEMMA StartDisconnectStep ==
  ASSUME IInv, NEW t \in Tokens, NEW k \in Keys, NEW p \in People, StartDisconnect(t, k, p)
  PROVE  IInv'
<1>. DEFINE new == [kind |-> "disconnect", key |-> k, used |-> FALSE]
<1>1. /\ p \in people /\ token[t].kind = "none" /\ token' = [token EXCEPT ![t] = new]
      /\ held' = [held EXCEPT ![t] = p]
      /\ UNCHANGED <<people, born, identity, owner, merge, gone, status, secret, mode, account, chain,
                     granted, done, inTurn>>
  BY DEF StartDisconnect, keys
<1>2. new \in TokenSet /\ new.kind # "none" /\ new.key \in Keys
  BY DEF TokenSet
<1>. HIDE DEF new
<1>3. held' \in [Things -> people \cup {NoOne}] /\ \A u \in Tokens : u # t => held'[u] = held[u]
  BY <1>1, Known DEF PersonsTypeOK
<1>4. TablesOK'
  BY <1>1, <1>3, SameOK DEF IInv
<1>5. token' \in [Tokens -> TokenSet] /\ token'[t] = new /\ \A u \in Tokens : u # t => token'[u] = token[u]
  BY <1>1, <1>2, Known
<1>6. TypeOK'
  BY <1>1, <1>4, <1>5, Known, TypesNext DEF KeysOK, ModesOK, ChainOK
<1>7. TokensOK' /\ TokenSame
  BY <1>1, <1>2, <1>3, <1>5 DEF IInv, TokensOK, TokenSame
<1>8. DonesOK' /\ GrantsOK'
  BY <1>1, <1>7, DonesStay DEF IInv, GrantsOK, MergesSame
<1>9. SecretHasOwner' /\ NewKeys'
  BY <1>1, <1>7, SecretsStay DEF TokenSame
<1>10. inTurn => OneAtATime' /\ Decided' /\ OwnsWallet'
  BY <1>1, <1>7, InTurnStays, OwnersStay, DecidedStays DEF IInv, InProgress, Committed
<1>. QED BY <1>1, <1>4, <1>6, <1>7, <1>8, <1>9, <1>10 DEF IInv

-----------------------------------------------------------------------------
(* Callbacks.  One that moves without committing, and leaves the rest alone. *)
LEMMA DoneMoves ==
  ASSUME IInv, NEW d \in Dones, NEW r \in DoneSet, done' = [done EXCEPT ![d] = r],
         InProgress(d), r.token = done[d].token \/ r.pc = "over",
         r.pc \notin {"idle", "connected", "disconnected"},
         UNCHANGED <<token, mode, account, chain, granted, inTurn>>,
         TablesOK', KeysOK', SecretHasOwner', NewKeys', born \subseteq born',
         \A t \in Tokens : held'[t] # NoOne => held[t] # NoOne,
         \A l \in People : l # done[d].person => merge'[l].into = merge[l].into,
         At(d, "folding") \/ merge' = merge \/ ~Merging(done[d].person),
         r.pc = "folding" => ~Merging(done[d].person) /\ r.person = done[d].person,
         DoneOK(d)',
         inTurn => Decided' /\ OwnsWallet'
  PROVE  IInv'
<1>1. /\ done' \in [Dones -> DoneSet] /\ done'[d] = r
      /\ \A e \in Dones : e # d => done'[e] = done[e]
  BY Known
<1>2. TypeOK'
  BY <1>1, Known, TypesNext DEF ModesOK, ChainOK
<1>3. ASSUME NEW e \in Dones, e # d, At(e, "folding")
      PROVE  /\ merge'[done[e].person].into = merge[done[e].person].into
             /\ Merging(done[e].person)
             /\ At(d, "folding") => done[e].person # done[d].person
  <2>1. done[e].person \in People /\ ByCallback(done[e].person)
    BY <1>3, DoneTyped DEF DoneOK, Named, At, ByCallback
  <2>2. Merging(done[e].person)
    BY <2>1, CallbackMerges
  <2>3. At(d, "folding") => done[e].person # done[d].person
    BY <1>3 DEF IInv, DonesOK, FoldsApart
  <2>. QED BY <2>1, <2>2, <2>3
<1>4. ASSUME NEW e \in Dones, e # d PROVE DoneOK(e)'
  <2>1. DoneOK(e) /\ done'[e] = done[e]
    BY <1>1, <1>4 DEF IInv, DonesOK
  <2>. QED BY <1>3, <1>4, <2>1, DoneStays
<1>5. FoldsApart'
  <2>1. ASSUME NEW e \in Dones, NEW f \in Dones, At(e, "folding")', At(f, "folding")',
               done'[e].person = done'[f].person, e # f
        PROVE  FALSE
    <3>1. CASE e = d
      BY <1>1, <1>3, <2>1, <3>1 DEF At
    <3>2. CASE f = d
      BY <1>1, <1>3, <2>1, <3>2 DEF At
    <3>3. CASE e # d /\ f # d
      BY <1>1, <2>1, <3>3 DEF At, IInv, DonesOK, FoldsApart
    <3>. QED BY <3>1, <3>2, <3>3
  <2>. QED BY <2>1 DEF FoldsApart
<1>6. DonesOK'
  BY <1>4, <1>5 DEF DonesOK
<1>7. TokensOK' /\ GrantsOK'
  BY DEF IInv, TokensOK, GrantsOK
<1>8. \A e \in Dones : /\ InProgress(e)' => InProgress(e) /\ done'[e].token = done[e].token
                       /\ Committed(e)' => Committed(e) /\ done'[e].token = done[e].token
  BY <1>1 DEF InProgress, Committed
<1>9. inTurn => OneAtATime'
  BY <1>8, InTurnStays DEF IInv, TokenSame
<1>. QED BY <1>2, <1>6, <1>7, <1>9 DEF IInv

(* Nothing of the tables changes, or only what nobody sees of a merge.       *)
LEMMA MovesQuietly ==
  ASSUME IInv, NEW d \in Dones, NEW r \in DoneSet, done' = [done EXCEPT ![d] = r],
         InProgress(d), r.token = done[d].token \/ r.pc = "over",
         r.pc \notin {"idle", "connected", "disconnected"}, TablesOK',
         UNCHANGED <<people, born, identity, owner, held, gone, status, secret, token, mode,
                     account, chain, granted, inTurn>>,
         \A l \in People : l # done[d].person => merge'[l].into = merge[l].into,
         At(d, "folding") \/ merge' = merge \/ ~Merging(done[d].person),
         r.pc = "folding" => ~Merging(done[d].person) /\ r.person = done[d].person,
         DoneOK(d)',
         inTurn /\ r.pc = "commit" => identity[r.wallet] \in {NoOne, r.person},
         inTurn /\ r.pc \in {"split", "folding"} => identity[r.wallet] = r.into
  PROVE  IInv'
<1>1. done'[d] = r /\ \A e \in Dones : e # d => done'[e] = done[e]
  BY Known
<1>2. KeysOK' /\ \A e \in Dones : At(e, "disconnected") => done'[e] = done[e]
  BY <1>1, Known DEF KeysOK, At, InProgress
<1>3. SecretHasOwner' /\ NewKeys'
  BY <1>2, SecretsStay
<1>4. inTurn => Decided'
  BY <1>1 DEF IInv, Decided, At
<1>5. inTurn => OwnsWallet'
  BY OwnersStay DEF IInv
<1>. QED BY <1>2, <1>3, <1>4, <1>5, DoneMoves

(* A callback that is over.                                                  *)
LEMMA OverIs ==
  ASSUME IInv, NEW d \in Dones, Over(d)
  PROVE  \E r \in DoneSet : done' = [done EXCEPT ![d] = r] /\ r.pc = "over" /\ DoneOK(d)'
<1>. DEFINE r == [NoDone EXCEPT !.pc = "over"]
<1>1. done' = [done EXCEPT ![d] = r]
  BY DEF Over
<1>2. r \in DoneSet /\ r.pc = "over"
  BY DEF NoDone, DoneSet, Anyone
<1>. HIDE DEF r
<1>3. done'[d] = r
  BY <1>1, <1>2, Known
<1>4. DoneOK(d)'
  BY <1>2, <1>3 DEF DoneOK, Named, Connecting, Verified, At, Committed
<1>. QED BY <1>1, <1>2, <1>4

LEMMA OverStep ==
  ASSUME IInv, NEW d \in Dones, Over(d), InProgress(d), TablesOK',
         UNCHANGED <<people, born, identity, owner, held, gone, status, secret, token, mode,
                     account, chain, granted, inTurn>>,
         \A l \in People : l # done[d].person => merge'[l].into = merge[l].into,
         At(d, "folding") \/ merge' = merge
  PROVE  IInv'
<1>1. PICK r \in DoneSet : done' = [done EXCEPT ![d] = r] /\ r.pc = "over" /\ DoneOK(d)'
  BY OverIs
<1>. QED BY <1>1, MovesQuietly

LEMMA LoadStep ==
  ASSUME IInv, NEW d \in Dones, NEW t \in Tokens, NEW a \in Wallets, Load(d, t, a)
  PROVE  IInv'
<1>. DEFINE r == [pc |-> "loaded", token |-> t, account |-> a, person |-> held[t], wallet |-> NoOne,
                  into |-> NoOne]
<1>1. /\ At(d, "idle") /\ held[t] # NoOne /\ ~token[t].used /\ done' = [done EXCEPT ![d] = r]
      /\ Disturbs
      /\ UNCHANGED <<people, born, identity, owner, held, merge, gone, status, secret, token, mode,
                     account, chain, granted>>
  BY DEF Load, tables, keys
<1>2. held[t] \in People
  BY <1>1, Known
<1>3. r \in DoneSet /\ r.pc = "loaded" /\ r.token = t /\ r.account = a /\ r.person = held[t]
  BY <1>2 DEF DoneSet, Anyone
<1>. HIDE DEF r
<1>4. /\ done' \in [Dones -> DoneSet] /\ done'[d] = r
      /\ \A e \in Dones : e # d => done'[e] = done[e]
  BY <1>1, <1>3, Known
<1>5. TablesOK'
  BY <1>1, SameOK, Known DEF IInv, PersonsTypeOK
<1>6. TypeOK'
  BY <1>1, <1>4, <1>5, Known, TypesNext, DisturbsType DEF KeysOK, ModesOK, ChainOK
<1>7. DonesOK'
  <2>1. DoneOK(d)'
    BY <1>1, <1>2, <1>3, <1>4 DEF IInv, TokensOK, DoneOK, Named, Connecting, At, Verified, Committed, Kind, Key
  <2>2. ASSUME NEW e \in Dones, e # d PROVE DoneOK(e)'
    <3>1. DoneOK(e) /\ done'[e] = done[e]
      BY <1>4, <2>2 DEF IInv, DonesOK
    <3>. QED BY <1>1, <3>1, DoneStays
  <2>3. FoldsApart'
    BY <1>3, <1>4 DEF IInv, DonesOK, FoldsApart, At
  <2>. QED BY <2>1, <2>2, <2>3 DEF DonesOK
<1>8. TokensOK' /\ GrantsOK'
  BY <1>1 DEF IInv, TokensOK, GrantsOK
<1>9. SecretHasOwner' /\ NewKeys'
  <2>1. \A e \in Dones : At(e, "disconnected") => done'[e] = done[e]
    BY <1>1, <1>4 DEF At
  <2>. QED BY <1>1, <2>1, SecretsStay
<1>10. ASSUME inTurn' PROVE OneAtATime' /\ Decided' /\ OwnsWallet'
  <2>1. inTurn /\ \A e \in Dones : ~InProgress(e) /\ ~Connecting(e)
    BY <1>1, <1>10, NobodyInProgress
  <2>2. \A e \in Dones : e # d => ~InProgress(e)'
    BY <1>4, <2>1 DEF InProgress
  <2>3. \A e \in Dones : Committed(e)' => Committed(e) /\ done'[e] = done[e]
    BY <1>3, <1>4 DEF Committed
  <2>4. TokenCommitsOnce'
    BY <2>1, <2>3 DEF IInv, OneAtATime, TokenCommitsOnce
  <2>5. OneAtATime'
    BY <1>1, <1>3, <1>4, <2>2, <2>4 DEF OneAtATime
  <2>6. Decided'
    BY <1>3, <1>4, <2>1 DEF Decided, At, Connecting
  <2>7. OwnsWallet'
    BY <1>1, <2>1, OwnersStay DEF IInv
  <2>. QED BY <2>5, <2>6, <2>7
<1>. QED BY <1>5, <1>6, <1>7, <1>8, <1>9, <1>10 DEF IInv

LEMMA ReadStep ==
  ASSUME IInv, NEW d \in Dones, NEW seen \in BOOLEAN, Read(d, seen)
  PROVE  IInv'
<1>. DEFINE a == done[d].account
            registered == seen /\ Key(d) \in chain[a]
<1>1. /\ At(d, "loaded") /\ InProgress(d)
      /\ UNCHANGED <<people, born, identity, owner, held, merge, gone, status, secret, token, mode,
                     account, chain, granted, inTurn>>
  BY DEF Read, At, InProgress, tables, keys
<1>2. TablesOK'
  BY <1>1, SameOK, Known DEF IInv, PersonsTypeOK
<1>3. CASE registered # (Kind(d) = "connect")
  <2>1. Over(d)
    BY <1>3 DEF Read
  <2>. QED BY <1>1, <1>2, <2>1, OverStep
<1>4. CASE registered = (Kind(d) = "connect")
  <2>1. PICK w : w = IF seen THEN a ELSE NoOne
    OBVIOUS
  <2>. DEFINE r == [[done[d] EXCEPT !.pc = "verified"] EXCEPT !.wallet = w]
  <2>2. done' = [done EXCEPT ![d] = r]
    BY <1>4, <2>1 DEF Read
  <2>3. /\ done[d] \in DoneSet /\ done[d].token \in Tokens /\ Kind(d) # "none" /\ Key(d) \in Keys
        /\ a \in Wallets /\ done[d].person \in People
    BY <1>1, DoneTyped DEF DoneOK, Named, At
  <2>4. /\ r \in DoneSet /\ r.pc = "verified" /\ r.wallet = w /\ r.token = done[d].token
        /\ r.account = done[d].account /\ r.person = done[d].person
    BY <2>1, <2>3 DEF DoneSet
  <2>5. Kind(d) = "connect" => <<Key(d), a>> \in granted /\ w = a
    BY <1>4, <2>1, <2>3 DEF IInv, GrantsOK
  <2>. HIDE DEF r
  <2>6. done'[d] = r
    BY <2>2, Known
  <2>7. DoneOK(d)'
    BY <1>1, <2>3, <2>4, <2>5, <2>6 DEF DoneOK, Named, Connecting, At, Verified, Committed, Kind, Key
  <2>. QED BY <1>1, <1>2, <2>2, <2>4, <2>7, MovesQuietly
<1>. QED BY <1>3, <1>4

LEMMA AbandonStep ==
  ASSUME IInv, NEW d \in Dones, Abandon(d)
  PROVE  IInv'
<1>1. /\ InProgress(d) /\ Over(d)
      /\ IF At(d, "folding") THEN MergeRollsBack(done[d].person) ELSE UNCHANGED tables
      /\ UNCHANGED <<status, secret, token, mode, account, chain, granted, inTurn>>
  BY DEF Abandon, keys
<1>2. UNCHANGED <<people, born, identity, owner, held, gone>>
  BY <1>1 DEF MergeRollsBack, tables
<1>3. TablesOK'
  <2>1. CASE At(d, "folding")
    BY <1>1, <2>1, RollsBackOK DEF IInv
  <2>2. CASE ~At(d, "folding")
    BY <1>1, <1>2, <2>2, SameOK, Known DEF IInv, PersonsTypeOK, tables
  <2>. QED BY <2>1, <2>2
<1>4. At(d, "folding") \/ merge' = merge
  BY <1>1 DEF tables
<1>5. \A l \in People : l # done[d].person => merge'[l].into = merge[l].into
  <2>1. merge \in AllMerges
    BY Known, MergesTyped
  <2>. QED BY <1>1, <1>4, <2>1 DEF MergeRollsBack, AllMerges
<1>. QED BY <1>1, <1>2, <1>3, <1>4, <1>5, OverStep

(* What is so of a callback between the look at the wallet and the commit.   *)
LEMMA ConnectTyped ==
  ASSUME IInv, NEW d \in Dones, Verified(d)
  PROVE  /\ done[d] \in DoneSet /\ done[d].token \in Tokens /\ Kind(d) = "connect" /\ Key(d) \in Keys
         /\ done[d].person \in People /\ done[d].account \in Wallets
         /\ <<Key(d), done[d].account>> \in granted /\ done[d].wallet = done[d].account
BY DoneTyped DEF DoneOK, Named, Connecting, At, Verified

LEMMA LookUpStep ==
  ASSUME IInv, NEW d \in Dones, LookUp(d)
  PROVE  IInv'
<1>. DEFINE q == identity[done[d].wallet]
<1>1. /\ At(d, "verified") /\ Kind(d) = "connect" /\ InProgress(d) /\ Verified(d)
      /\ UNCHANGED <<people, born, identity, owner, held, merge, gone, status, secret, token, mode,
                     account, chain, granted, inTurn>>
  BY DEF LookUp, InProgress, At, Verified, tables, keys
<1>2. TablesOK'
  BY <1>1, SameOK, Known DEF IInv, PersonsTypeOK
<1>3. CASE q \in {NoOne, done[d].person}
  <2>. DEFINE r == [done[d] EXCEPT !.pc = "commit"]
  <2>1. done' = [done EXCEPT ![d] = r]
    BY <1>3 DEF LookUp, Go
  <2>2. /\ r \in DoneSet /\ r.pc = "commit" /\ r.token = done[d].token /\ r.wallet = done[d].wallet
        /\ r.account = done[d].account /\ r.person = done[d].person
    BY DoneTyped DEF DoneSet
  <2>. HIDE DEF r
  <2>3. done'[d] = r
    BY <2>1, <2>2, Known
  <2>4. DoneOK(d)'
    BY <1>1, <2>2, <2>3, ConnectTyped DEF DoneOK, Named, Connecting, At, Verified, Committed, Kind, Key
  <2>. QED BY <1>1, <1>2, <1>3, <2>1, <2>2, <2>4, MovesQuietly
<1>4. CASE q \notin {NoOne, done[d].person}
  <2>. DEFINE r == [[done[d] EXCEPT !.pc = "split"] EXCEPT !.into = q]
  <2>1. done' = [done EXCEPT ![d] = r]
    BY <1>4 DEF LookUp
  <2>2. q \in People
    BY <1>1, <1>4, ConnectTyped, Known
  <2>3. /\ r \in DoneSet /\ r.pc = "split" /\ r.token = done[d].token /\ r.wallet = done[d].wallet
        /\ r.account = done[d].account /\ r.person = done[d].person /\ r.into = q
    BY <2>2, DoneTyped DEF DoneSet, Anyone
  <2>. HIDE DEF r
  <2>4. done'[d] = r
    BY <2>1, <2>3, Known
  <2>5. DoneOK(d)'
    BY <1>1, <1>4, <2>2, <2>3, <2>4, ConnectTyped DEF DoneOK, Named, Connecting, At, Verified, Committed, Kind, Key
  <2>. QED BY <1>1, <1>2, <2>1, <2>3, <2>5, MovesQuietly
<1>. QED BY <1>3, <1>4

(* On as the wallet's owner.                                                 *)
LEMMA GoOnIs ==
  ASSUME IInv, NEW d \in Dones, GoOn(d), At(d, "split") \/ At(d, "folding"),
         UNCHANGED <<token, granted>>
  PROVE  \E r \in DoneSet : /\ done' = [done EXCEPT ![d] = r] /\ r.pc = "commit"
                            /\ r.token = done[d].token /\ r.wallet = done[d].wallet
                            /\ r.person = done[d].into /\ DoneOK(d)'
<1>. DEFINE r == [[[done[d] EXCEPT !.pc = "commit"] EXCEPT !.person = done[d].into] EXCEPT !.into = NoOne]
<1>1. done' = [done EXCEPT ![d] = r]
  BY DEF GoOn
<1>2. Verified(d) /\ done[d].into \in People
  BY DoneTyped DEF Verified, Connecting, At, DoneOK
<1>3. /\ r \in DoneSet /\ r.pc = "commit" /\ r.token = done[d].token /\ r.wallet = done[d].wallet
      /\ r.account = done[d].account /\ r.person = done[d].into
  BY <1>2, DoneTyped DEF DoneSet, Anyone
<1>. HIDE DEF r
<1>4. done'[d] = r
  BY <1>1, <1>3, Known
<1>5. DoneOK(d)'
  BY <1>2, <1>3, <1>4, ConnectTyped DEF DoneOK, Named, Connecting, At, Verified, Committed, Kind, Key
<1>. QED BY <1>1, <1>3, <1>5

LEMMA FoldBeginsStep ==
  ASSUME IInv, NEW d \in Dones, FoldBegins(d)
  PROVE  IInv'
<1>. DEFINE q == done[d].into  p == done[d].person
<1>1. /\ At(d, "split") /\ InProgress(d) /\ Verified(d)
      /\ UNCHANGED <<status, secret, token, mode, account, chain, granted, inTurn>>
  BY DEF FoldBegins, At, InProgress, Verified, Connecting, keys
<1>2. q \in People /\ q # p /\ p \in People /\ (inTurn => identity[done[d].wallet] = q)
  BY <1>1, DoneTyped, ConnectTyped DEF DoneOK, IInv, Decided
<1>3. CASE MergeBegins(q, p) /\ Go(d, "folding")
  <2>. DEFINE r == [done[d] EXCEPT !.pc = "folding"]
  <2>1. done' = [done EXCEPT ![d] = r]
    BY <1>3 DEF Go
  <2>2. /\ r \in DoneSet /\ r.pc = "folding" /\ r.token = done[d].token /\ r.wallet = done[d].wallet
        /\ r.account = done[d].account /\ r.person = p /\ r.into = q
    BY DoneTyped DEF DoneSet
  <2>. HIDE DEF r
  <2>3. done'[d] = r
    BY <2>1, <2>2, Known
  <2>4. /\ TablesOK' /\ UNCHANGED <<people, born, identity, owner, held, gone>> /\ ~Merging(p)
        /\ merge'[p].into = q /\ \A l \in People : l # p => merge'[l].into = merge[l].into
    <3>1. merge \in AllMerges
      BY Known, MergesTyped
    <3>2. TablesOK'
      BY <1>3, BeginsOK DEF IInv
    <3>. QED BY <1>2, <1>3, <3>1, <3>2 DEF MergeBegins, AllMerges
  <2>5. DoneOK(d)'
    BY <1>1, <1>2, <2>2, <2>3, <2>4, ConnectTyped DEF DoneOK, Named, Connecting, At, Verified, Committed, Kind, Key
  <2>. HIDE DEF p, q
  <2>. QED BY <1>1, <1>2, <2>1, <2>2, <2>4, <2>5, MovesQuietly DEF p, q
<1>4. CASE UNCHANGED tables /\ GoOn(d)
  <2>1. TablesOK' /\ UNCHANGED <<people, born, identity, owner, held, merge, gone>>
    BY <1>4, SameOK, Known DEF IInv, PersonsTypeOK, tables
  <2>2. PICK r \in DoneSet : /\ done' = [done EXCEPT ![d] = r] /\ r.pc = "commit"
                             /\ r.token = done[d].token /\ r.wallet = done[d].wallet
                             /\ r.person = q /\ DoneOK(d)'
    BY <1>1, <1>4, GoOnIs
  <2>. QED BY <1>1, <1>2, <2>1, <2>2, MovesQuietly
<1>5. CASE UNCHANGED tables /\ Over(d)
  <2>1. TablesOK' /\ UNCHANGED <<people, born, identity, owner, held, merge, gone>>
    BY <1>5, SameOK, Known DEF IInv, PersonsTypeOK, tables
  <2>. QED BY <1>1, <1>5, <2>1, OverStep
<1>. QED BY <1>3, <1>4, <1>5 DEF FoldBegins

LEMMA FoldEndsStep ==
  ASSUME IInv, NEW d \in Dones, FoldEnds(d)
  PROVE  IInv'
<1>. DEFINE q == done[d].into  p == done[d].person
<1>1. /\ At(d, "folding") /\ InProgress(d) /\ Verified(d) /\ Folded(p) /\ GoOn(d)
      /\ UNCHANGED <<token, mode, account, chain, granted, inTurn>>
  BY DEF FoldEnds, At, InProgress, Verified, Connecting
<1>2. /\ q \in People /\ q # p /\ p \in People /\ done[d].wallet \in Wallets
      /\ inTurn => identity[done[d].wallet] = q
  BY <1>1, DoneTyped, ConnectTyped DEF DoneOK, IInv, Decided
<1>3. PICK r \in DoneSet : /\ done' = [done EXCEPT ![d] = r] /\ r.pc = "commit"
                           /\ r.token = done[d].token /\ r.wallet = done[d].wallet
                           /\ r.person = q /\ DoneOK(d)'
  BY <1>1, GoOnIs
<1>4. done'[d] = r /\ \A e \in Dones : e # d => done'[e] = done[e]
  BY <1>3, Known
<1>5. /\ TablesOK' /\ KeysOK' /\ NewKeys' /\ born \subseteq born'
      /\ \A t \in Tokens : held'[t] # NoOne => held[t] # NoOne
      /\ \A l \in People : l # p => merge'[l].into = merge[l].into
  BY <1>1, <1>2, Ends
<1>6. SecretHasOwner'
  <2>1. \A e \in Dones : At(e, "disconnected") => done'[e] = done[e]
    BY <1>1, <1>4 DEF At
  <2>. QED BY <1>1, <1>2, <2>1, EndsSecrets
<1>7. inTurn => OwnsWallet'
  BY <1>1, <1>2, EndsOwners
<1>8. ASSUME inTurn PROVE Decided'
  <2>1. \A e \in Dones : Connecting(e)' => e = d
    BY <1>1, <1>4, <1>8 DEF IInv, OneAtATime, Connecting, InProgress
  <2>2. PICK w \in Wallets : w = done[d].wallet
    BY <1>2
  <2>3. w \in Identities /\ Whose(w) = q /\ identity'[w] = Whose(w)'
    BY <1>2, <1>8, <2>2, Known DEF Whose
  <2>4. identity'[done[d].wallet] = q
    BY <1>1, <1>2, <2>2, <2>3, Ends
  <2>. QED BY <1>3, <1>4, <2>1, <2>4 DEF Decided, At, Connecting
<1>. HIDE DEF p, q
<1>. QED BY <1>1, <1>3, <1>5, <1>6, <1>7, <1>8, DoneMoves, Known, ConnectAssumption DEF p, q

-----------------------------------------------------------------------------
(* A commit: the token is used, and used for the first time when no other    *)
(* callback was under way.                                                   *)
LEMMA TokenUsed ==
  ASSUME IInv, NEW d \in Dones, InProgress(d), MarkUsed(d)
  PROVE  /\ done[d].token \in Tokens /\ Kind(d) # "none" /\ Key(d) \in Keys
         /\ token'[done[d].token].used /\ token' \in [Tokens -> TokenSet]
         /\ \A u \in Tokens : /\ token'[u].kind = token[u].kind /\ token'[u].key = token[u].key
                              /\ token[u].used => token'[u].used
<1>1. done[d].token \in Tokens /\ Kind(d) # "none" /\ Key(d) \in Keys
  BY DoneTyped DEF DoneOK, Named, InProgress
<1>2. token \in [Tokens -> TokenSet] /\ token' = [token EXCEPT ![done[d].token].used = TRUE]
  BY Known DEF MarkUsed
<1>3. \A u \in Tokens : token[u] \in TokenSet
  BY <1>2
<1>. QED BY <1>1, <1>2, <1>3 DEF TokenSet

LEMMA Commits ==
  ASSUME IInv, NEW d \in Dones, NEW pc \in {"connected", "disconnected"},
         InProgress(d), ~At(d, "folding"), MarkUsed(d), Go(d, pc), UNCHANGED <<granted, inTurn>>,
         held' = held, \A l \in People : merge'[l].into = merge[l].into
  PROVE  /\ token' \in [Tokens -> TokenSet] /\ done' \in [Dones -> DoneSet]
         /\ DonesOK' /\ TokensOK' /\ (inTurn => OneAtATime')
         /\ done'[d].pc = pc /\ done'[d].token = done[d].token
         /\ \A e \in Dones : e # d => done'[e] = done[e]
<1>. DEFINE t == done[d].token
            r == [done[d] EXCEPT !.pc = pc]
<1>1. done' = [done EXCEPT ![d] = r]
  BY DEF Go
<1>2. /\ done[d] \in DoneSet /\ t \in Tokens /\ Kind(d) # "none" /\ Key(d) \in Keys
      /\ done[d].account \in Wallets /\ done[d].person \in People
  BY DoneTyped DEF DoneOK, Named, InProgress
<1>3. /\ r \in DoneSet /\ r.pc = pc /\ r.token = t /\ r.account = done[d].account
      /\ r.person = done[d].person
  BY <1>2 DEF DoneSet
<1>4. /\ token'[t].used /\ token' \in [Tokens -> TokenSet]
      /\ \A u \in Tokens : /\ token'[u].kind = token[u].kind /\ token'[u].key = token[u].key
                           /\ token[u].used => token'[u].used
  BY TokenUsed
<1>. HIDE DEF r
<1>5. /\ done' \in [Dones -> DoneSet] /\ done'[d] = r
      /\ \A e \in Dones : e # d => done'[e] = done[e]
  BY <1>1, <1>3, Known
<1>6. DoneOK(d)'
  BY <1>2, <1>3, <1>4, <1>5 DEF DoneOK, Named, Connecting, At, Verified, Committed, Kind, Key
<1>7. ASSUME NEW e \in Dones, e # d PROVE DoneOK(e)'
  <2>1. DoneOK(e) /\ done'[e] = done[e]
    BY <1>5, <1>7 DEF IInv, DonesOK
  <2>2. At(e, "folding") => merge'[done[e].person].into = merge[done[e].person].into
    BY <2>1 DEF DoneOK, Named, At
  <2>. QED BY <1>4, <2>1, <2>2, DoneStays
<1>8. DonesOK'
  <2>1. FoldsApart'
    BY <1>3, <1>5 DEF IInv, DonesOK, FoldsApart, At
  <2>. QED BY <1>6, <1>7, <2>1 DEF DonesOK
<1>9. TokensOK'
  BY <1>4 DEF IInv, TokensOK
<1>10. \A e \in Dones : e # d =>
         /\ InProgress(e)' => InProgress(e)
         /\ Committed(e)' => Committed(e) /\ token[done[e].token].used /\ done'[e] = done[e]
  BY <1>5 DEF IInv, DonesOK, DoneOK, InProgress, Committed
<1>11. ASSUME inTurn PROVE OneAtATime'
  <2>1. OneAtATime /\ ~token[t].used
    BY <1>11 DEF IInv, OneAtATime
  <2>2. \A e \in Dones : ~InProgress(e)'
    <3>1. ~InProgress(d)'
      BY <1>3, <1>5 DEF InProgress
    <3>. QED BY <1>10, <2>1, <3>1 DEF OneAtATime
  <2>3. \A e \in Dones : e # d /\ Committed(e)' => done'[e].token # done'[d].token
    BY <1>3, <1>5, <1>10, <2>1
  <2>4. \A e, f \in Dones : e # d /\ f # d /\ Committed(e)' /\ Committed(f)'
          /\ done'[e].token = done'[f].token => e = f
    BY <1>10, <2>1 DEF OneAtATime, TokenCommitsOnce
  <2>5. TokenCommitsOnce'
    BY <2>3, <2>4 DEF TokenCommitsOnce
  <2>. QED BY <2>2, <2>5 DEF OneAtATime
<1>. QED BY <1>3, <1>4, <1>5, <1>8, <1>9, <1>11

(* Whoever was disconnected stays so, and nobody is about to connect.        *)
LEMMA CommitsAlone ==
  ASSUME IInv, inTurn, NEW d \in Dones, InProgress(d), done'[d].pc \in {"connected", "disconnected"},
         \A e \in Dones : e # d => done'[e] = done[e]
  PROVE  \A e \in Dones : ~InProgress(e)' /\ ~Connecting(e)'
BY DEF IInv, OneAtATime, InProgress, Connecting

LEMMA CommitDisconnectStep ==
  ASSUME IInv, NEW d \in Dones, CommitDisconnect(d)
  PROVE  IInv'
<1>1. /\ At(d, "verified") /\ Kind(d) = "disconnect" /\ MarkUsed(d) /\ Go(d, "disconnected")
      /\ status' = [status EXCEPT ![Key(d)] = IF owner[Key(d)] # NoOne THEN "revoked" ELSE @]
      /\ secret' = secret \ {Key(d)}
      /\ mode' = [mode EXCEPT ![done[d].person] = IF @ = "owned" THEN "guest" ELSE @]
      /\ UNCHANGED <<people, born, identity, owner, held, merge, gone, account, chain, granted, inTurn>>
  BY DEF CommitDisconnect, tables
<1>2. InProgress(d) /\ ~At(d, "folding")
  BY <1>1 DEF InProgress, At
<1>3. /\ token' \in [Tokens -> TokenSet] /\ done' \in [Dones -> DoneSet]
      /\ DonesOK' /\ TokensOK' /\ (inTurn => OneAtATime')
      /\ done'[d].pc = "disconnected" /\ done'[d].token = done[d].token
      /\ \A e \in Dones : e # d => done'[e] = done[e]
  BY <1>1, <1>2, Commits
<1>4. /\ Key(d) \in Keys
      /\ \A u \in Tokens : token'[u].key = token[u].key
      /\ done[d].token \in Tokens
  BY <1>1, <1>2, TokenUsed
<1>5. TablesOK'
  BY <1>1, SameOK, Known DEF IInv, PersonsTypeOK
<1>6. /\ KeysOK' /\ ModesOK'
      /\ \A k \in Keys : k # Key(d) => status'[k] = status[k]
      /\ status'[Key(d)] = IF owner[Key(d)] # NoOne THEN "revoked" ELSE status[Key(d)]
  BY <1>1, <1>4, Known DEF KeysOK, ModesOK
<1>7. \A p \in People : mode'[p] = "owned" => mode[p] = "owned"
  BY <1>1, Known DEF ModesOK
<1>8. TypeOK'
  BY <1>1, <1>3, <1>5, <1>6, Known, TypesNext DEF ChainOK
<1>9. GrantsOK' /\ NewKeys'
  BY <1>1, <1>6, <1>7 DEF IInv, GrantsOK, NewKeys
<1>10. SecretHasOwner'
  <2>1. ASSUME NEW k \in Keys \ gone', status'[k] # "none", ~Destroyed(k)'
        PROVE  k \in secret' /\ owner'[k] \in people'
    <3>1. k # Key(d)
      <4>1. ASSUME k = Key(d) PROVE FALSE
        <5>1. At(d, "disconnected")' /\ Key(d)' = k
          BY <1>3, <1>4, <4>1 DEF At, Key
        <5>. QED BY <2>1, <5>1 DEF Destroyed
      <4>. QED BY <4>1
    <3>2. ~Destroyed(k)
      <4>1. \A e \in Dones : At(e, "disconnected") => done'[e] = done[e]
        BY <1>1, <1>3 DEF At
      <4>. QED BY <1>4, <2>1, <4>1, StaysDestroyed
    <3>3. k \in secret /\ owner[k] \in people
      BY <1>1, <1>6, <2>1, <3>1, <3>2 DEF IInv, SecretHasOwner
    <3>. QED BY <1>1, <3>1, <3>3
  <2>. QED BY <2>1 DEF SecretHasOwner
<1>11. ASSUME inTurn PROVE Decided' /\ OwnsWallet'
  <2>1. Decided'
    BY <1>2, <1>3, <1>11, CommitsAlone DEF Decided, At, Connecting
  <2>2. OwnsWallet'
    BY <1>1, <1>7, <1>11, Known DEF IInv, OwnsWallet
  <2>. QED BY <2>1, <2>2
<1>. QED BY <1>1, <1>3, <1>5, <1>8, <1>9, <1>10, <1>11 DEF IInv

LEMMA CommitConnectStep ==
  ASSUME IInv, NEW d \in Dones, CommitConnect(d)
  PROVE  IInv'
<1>. DEFINE p == done[d].person  w == done[d].wallet
<1>1. At(d, "commit") /\ InProgress(d) /\ Verified(d) /\ ~At(d, "folding") /\ UNCHANGED <<secret, chain, granted, inTurn>>
  BY DEF CommitConnect, InProgress, At, Verified, Connecting
<1>2. /\ done[d].token \in Tokens /\ Kind(d) = "connect" /\ Key(d) \in Keys
      /\ w \in Wallets /\ p \in People
      /\ <<Key(d), w>> \in granted /\ done[d].wallet = done[d].account
  BY <1>1, ConnectTyped
<1>3. CASE AttachFails(w, p)
  <2>1. Over(d) /\ UNCHANGED <<people, born, identity, owner, held, merge, gone, status, token, mode, account>>
    BY <1>3 DEF CommitConnect, tables
  <2>2. TablesOK'
    BY <2>1, SameOK, Known DEF IInv, PersonsTypeOK
  <2>. QED BY <1>1, <2>1, <2>2, OverStep
<1>4. CASE ~AttachFails(w, p)
  <2>1. /\ status' = [status EXCEPT ![Key(d)] = IF owner[Key(d)] # NoOne THEN "active" ELSE @]
        /\ mode' = [mode EXCEPT ![p] = IF p \in people THEN "owned" ELSE @]
        /\ account' = [account EXCEPT ![p] = IF p \in people THEN done[d].account ELSE @]
        /\ Attach(w, p) /\ MarkUsed(d) /\ Go(d, "connected")
    BY <1>4 DEF CommitConnect
  <2>2. /\ TablesOK' /\ UNCHANGED <<people, born, owner, held, gone>>
        /\ \A v \in Identities : identity'[v] = IF v = w /\ identity[v] = NoOne THEN p ELSE identity[v]
    BY <1>2, <2>1, AttachOK DEF IInv
  <2>3. \A l \in People : merge'[l].into = merge[l].into
    BY <1>2, <2>1, AttachLate
  <2>4. /\ token' \in [Tokens -> TokenSet] /\ done' \in [Dones -> DoneSet]
        /\ DonesOK' /\ TokensOK' /\ (inTurn => OneAtATime')
        /\ done'[d].pc = "connected" /\ done'[d].token = done[d].token
        /\ \A e \in Dones : e # d => done'[e] = done[e]
    BY <1>1, <2>1, <2>2, <2>3, Commits
  <2>5. \A u \in Tokens : token'[u].key = token[u].key
    BY <1>1, <2>1, TokenUsed
  <2>6. /\ mode' \in [People -> {"guest", "owned"}] /\ account' \in [People -> Wallets \cup {NoOne}]
        /\ \A q \in People : q # p \/ q \notin people => mode'[q] = mode[q] /\ account'[q] = account[q]
        /\ p \in people => mode'[p] = "owned" /\ account'[p] = w
    BY <1>2, <2>1, Known DEF ModesOK
  <2>7. /\ KeysOK' /\ \A k \in Keys : k # Key(d) => status'[k] = status[k]
        /\ status'[Key(d)] = IF owner[Key(d)] # NoOne THEN "active" ELSE status[Key(d)]
    BY <1>1, <1>2, <2>1, Known DEF KeysOK
  <2>. HIDE DEF p, w
  <2>8. TypeOK'
    BY <1>1, <2>2, <2>4, <2>6, <2>7, Known, TypesNext DEF ModesOK, ChainOK
  <2>9. GrantsOK'
    <3>1. ASSUME NEW q \in People, mode'[q] = "owned"
          PROVE  q \in born' /\ \E k \in Keys : <<k, account'[q]>> \in granted'
      <4>1. CASE q = p /\ q \in people
        BY <1>1, <1>2, <2>2, <2>6, <4>1, Known
      <4>2. CASE q # p \/ q \notin people
        BY <1>1, <2>2, <2>6, <3>1, <4>2 DEF IInv, GrantsOK
      <4>. QED BY <4>1, <4>2
    <3>. QED BY <1>1, <3>1 DEF IInv, GrantsOK
  <2>10. NewKeys'
    BY <2>2, <2>7 DEF IInv, NewKeys
  <2>11. SecretHasOwner'
    <3>1. ASSUME NEW k \in Keys \ gone', status'[k] # "none", ~Destroyed(k)'
          PROVE  k \in secret' /\ owner'[k] \in people'
      <4>1. \A e \in Dones : At(e, "disconnected") => done'[e] = done[e]
        BY <1>1, <2>4 DEF At
      <4>2. ~Destroyed(k)
        BY <2>5, <3>1, <4>1, StaysDestroyed
      <4>3. status[k] # "none"
        BY <2>7, <3>1 DEF IInv, NewKeys
      <4>. QED BY <1>1, <2>2, <3>1, <4>2, <4>3 DEF IInv, SecretHasOwner
    <3>. QED BY <3>1 DEF SecretHasOwner
  <2>12. ASSUME inTurn PROVE Decided'
    BY <1>1, <2>4, <2>12, CommitsAlone DEF Decided, At, Connecting
  <2>13. ASSUME inTurn PROVE OwnsWallet'
    <3>1. identity[w] \in {NoOne, p}
      BY <1>1, <2>13 DEF IInv, Decided, p, w
    <3>2. identity'[w] = p
      BY <1>2, <2>2, <3>1, Known
    <3>3. ASSUME NEW q \in people', mode'[q] = "owned"
          PROVE  account'[q] \in Wallets /\ identity'[account'[q]] = q
      <4>1. CASE q = p
        BY <1>2, <2>2, <2>6, <3>2, <3>3, <4>1
      <4>2. CASE q # p
        BY <2>2, <2>6, <2>13, <3>3, <4>2, Known DEF IInv, OwnsWallet
      <4>. QED BY <4>1, <4>2
    <3>. QED BY <3>3 DEF OwnsWallet
  <2>. QED BY <1>1, <2>2, <2>4, <2>8, <2>9, <2>10, <2>11, <2>12, <2>13 DEF IInv
<1>. QED BY <1>3, <1>4

-----------------------------------------------------------------------------
LEMMA Initially == Init => IInv
<1>. SUFFICES ASSUME Init PROVE IInv
  OBVIOUS
<1>1. /\ people = {} /\ born = {} /\ gone = {}
      /\ identity = [x \in Identities |-> NoOne] /\ owner = [r \in Owned |-> NoOne]
      /\ held = [t \in Things |-> NoOne] /\ merge = [p \in People |-> NoMerge]
  BY DEF Init, PersonsInit
<1>2. NoMerge \in [into : Anyone, at : Statements \cup {"none"},
                   rows : SUBSET (Identities \cup Owned), late : SUBSET (Identities \cup Owned)]
  BY DEF NoMerge, Anyone
<1>3. TablesOK
  BY <1>1, <1>2 DEF TablesOK, PersonsTypeOK, NobodyUnreachable, MergesOK, MergeOK
<1>4. KeysOK /\ ModesOK /\ ChainOK
  BY DEF Init, KeysOK, ModesOK, ChainOK, Anyone
<1>5. token \in [Tokens -> TokenSet] /\ done \in [Dones -> DoneSet] /\ inTurn \in BOOLEAN
  BY DEF Init, NoToken, NoDone, TokenSet, DoneSet, Anyone
<1>6. TypeOK
  BY <1>3, <1>4, <1>5, Types DEF TablesOK
<1>7. \A d \in Dones : done[d].pc = "idle"
  BY DEF Init, NoDone
<1>8. DonesOK /\ OneAtATime /\ Decided
  BY <1>7 DEF DonesOK, DoneOK, FoldsApart, OneAtATime, Decided, TokenCommitsOnce, Committed, InProgress,
     Named, Connecting, Verified, At
<1>9. TokensOK
  BY <1>1, ConnectAssumption DEF Init, TokensOK, NoToken
<1>10. GrantsOK /\ SecretHasOwner /\ NewKeys /\ OwnsWallet
  BY <1>1 DEF Init, GrantsOK, SecretHasOwner, NewKeys, Owned, OwnsWallet
<1>. QED BY <1>3, <1>6, <1>8, <1>9, <1>10 DEF IInv

LEMMA Steps == IInv /\ [Next]_vars => IInv'
<1>. SUFFICES ASSUME IInv, [Next]_vars PROVE IInv'
  OBVIOUS
<1>1. CASE UNCHANGED vars
  <2>1. UNCHANGED <<people, born, identity, owner, held, merge, gone, status, secret, token, mode, account,
                    chain, granted, done, inTurn>>
    BY <1>1 DEF vars, tables, keys
  <2>2. TablesOK'
    BY <2>1, SameOK, Known DEF IInv, PersonsTypeOK
  <2>. QED BY <2>1, <2>2, UnseenStep DEF MergesSame
<1>2. ASSUME NEW l \in People, NEW w, LinkBegins(w, l) \/ LinkRollsBack(l) \/ Merges(l) PROVE IInv'
  BY <1>2, UnseenMergeStep DEF UnseenMerge
<1>3. CASE Next
  BY <1>2, <1>3, ArriveStep, SignInStep, LinkEndsStep, StartConnectStep, StartDisconnectStep, WalletSteps,
     LoadStep, ReadStep, LookUpStep, FoldBeginsStep, FoldEndsStep, CommitConnectStep, CommitDisconnectStep,
     AbandonStep DEF Next
<1>. QED BY <1>1, <1>3

LEMMA Invariant == Spec => []IInv
BY Initially, Steps, PTL DEF Spec

-----------------------------------------------------------------------------
(* Keys.  A step that leaves them and their tokens alone, and puts nobody in *)
(* owned mode.                                                               *)
LEMMA KeysStay ==
  ASSUME IInv, KeyInv, UNCHANGED <<owner, status, secret, token>>, granted \subseteq granted',
         inTurn' => inTurn,
         \A t \in Tokens : held'[t] \in {held[t], NoOne},
         \A q \in people' : mode'[q] = "owned" => q \in people /\ mode[q] = "owned" /\ account'[q] = account[q],
         inTurn' => \A d \in Dones : InProgress(d)' =>
           /\ InProgress(d) /\ done'[d].token = done[d].token /\ done'[d].person = done[d].person
           /\ done'[d].pc = "folding" => Key(d) \notin merge'[done[d].person].late
  PROVE  KeyInv'
<1>1. ASSUME NEW t \in Tokens PROVE TokenKey(t)'
  BY DEF KeyInv, TokenKey
<1>2. OneConnect'
  BY DEF KeyInv, OneConnect
<1>3. inTurn' => Holds'
  BY DEF KeyInv, Holds, Key, At, InProgress
<1>4. inTurn' => OwnedHasKey'
  BY DEF KeyInv, OwnedHasKey
<1>. QED BY <1>1, <1>2, <1>3, <1>4 DEF KeyInv

(* No callback moves, or none is under way.                                  *)
LEMMA KeysQuiet ==
  ASSUME IInv, KeyInv,
         \/ \E x \in Externals, p \in People : Arrive(x, p)
         \/ \E p \in People, w \in Wallets : SignIn(p, w)
         \/ \E l \in People : LinkRollsBack(l) \/ Merges(l) \/ \E w \in People : LinkBegins(w, l)
         \/ \E k \in Keys, a \in Wallets : Grant(k, a) \/ Revoke(k, a)
         \/ UNCHANGED vars
  PROVE  KeyInv'
<1>1. UNCHANGED <<owner, status, secret, token, held, mode, account, done>> /\ granted \subseteq granted'
  BY DEF Arrive, Create, SignIn, Attach, LinkBegins, MergeBegins, LinkRollsBack, MergeRollsBack, Merges,
         MergeMoves, Grant, Revoke, vars, keys, tables
<1>2. inTurn' => inTurn
  BY DEF Arrive, SignIn, Disturbs, LinkBegins, LinkRollsBack, Merges, Grant, Revoke, vars
<1>3. \A q \in people' : mode[q] = "owned" => q \in people
  <2>1. ASSUME NEW x \in Externals, NEW p \in People, Arrive(x, p)
        PROVE  \A q \in people' : mode[q] = "owned" => q \in people
    <3>1. people' = people \cup {p} /\ p \notin born
      BY <2>1 DEF Arrive, Create
    <3>. QED BY <3>1 DEF IInv, GrantsOK
  <2>. QED BY <2>1 DEF SignIn, Attach, LinkBegins, MergeBegins, LinkRollsBack, MergeRollsBack, Merges,
                       MergeMoves, Grant, Revoke, vars, tables
<1>4. ASSUME inTurn', NEW d \in Dones, InProgress(d)'
      PROVE  /\ InProgress(d)
             /\ done'[d].pc = "folding" => Key(d) \notin merge'[done[d].person].late
  <2>1. InProgress(d)
    BY <1>1, <1>4 DEF InProgress
  <2>2. ASSUME At(d, "folding") PROVE Key(d) \notin merge'[done[d].person].late
    <3>1. /\ Key(d) \notin merge[done[d].person].late /\ Key(d) \in Keys
          /\ done[d].person \in People /\ ByCallback(done[d].person)
      BY <1>2, <1>4, <2>2, DoneTyped DEF KeyInv, Holds, DoneOK, Named, At, ByCallback
    <3>2. CASE merge' = merge
      BY <3>1, <3>2
    <3>3. ASSUME NEW p \in People, NEW w \in Wallets, SignIn(p, w) PROVE FALSE
      BY <1>4, <2>1, <3>3, NobodyInProgress DEF SignIn
    <3>4. ASSUME NEW l \in People, NEW w, UnseenMerge(w, l)
          PROVE  Key(d) \notin merge'[done[d].person].late
      BY <3>1, <3>4, UnseenIs
    <3>. QED BY <3>2, <3>3, <3>4 DEF UnseenMerge, Arrive, Create, Grant, Revoke, vars, tables
  <2>. QED BY <1>1, <2>1, <2>2 DEF At
<1>. QED BY <1>1, <1>2, <1>3, <1>4, KeysStay

(* A callback that is over, or has read.                                     *)
LEMMA KeysMoves ==
  ASSUME IInv, KeyInv, NEW d \in Dones, Abandon(d) \/ (\E seen \in BOOLEAN : Read(d, seen)) \/ LookUp(d)
  PROVE  KeyInv'
<1>1. /\ InProgress(d)
      /\ UNCHANGED <<owner, status, secret, token, held, mode, account, people, granted, inTurn>>
  BY DEF Abandon, MergeRollsBack, Read, LookUp, InProgress, At, keys, tables
<1>2. PICK r : /\ done' = [done EXCEPT ![d] = r]
               /\ \/ r.pc = "over"
                  \/ /\ r.pc \in {"verified", "commit", "split"}
                     /\ r.token = done[d].token /\ r.person = done[d].person
               /\ merge' # merge => r.pc = "over" /\ merge' = [merge EXCEPT ![done[d].person] = NoMerge]
  <2>1. CASE Over(d)
    <3>1. PICK r \in DoneSet : done' = [done EXCEPT ![d] = r] /\ r.pc = "over"
      BY <2>1, OverIs
    <3>2. merge' # merge => merge' = [merge EXCEPT ![done[d].person] = NoMerge]
      BY <2>1 DEF Abandon, MergeRollsBack, Read, LookUp, tables
    <3>. QED BY <3>1, <3>2
  <2>2. CASE ~Over(d)
    <3>1. done[d] \in DoneSet /\ merge' = merge
      BY <2>2, DoneTyped DEF Abandon, Read, LookUp, tables
    <3>2. CASE \E seen \in BOOLEAN : Read(d, seen)
      <4>1. PICK w : done' = [done EXCEPT ![d] = [[done[d] EXCEPT !.pc = "verified"] EXCEPT !.wallet = w]]
        BY <2>2, <3>2 DEF Read
      <4>. DEFINE r == [[done[d] EXCEPT !.pc = "verified"] EXCEPT !.wallet = w]
      <4>2. r.pc = "verified" /\ r.token = done[d].token /\ r.person = done[d].person
        BY <3>1 DEF DoneSet
      <4>. HIDE DEF r
      <4>. QED BY <3>1, <4>1, <4>2 DEF r
    <3>3. CASE LookUp(d) /\ Go(d, "commit")
      <4>. DEFINE r == [done[d] EXCEPT !.pc = "commit"]
      <4>1. done' = [done EXCEPT ![d] = r] /\ r.pc = "commit" /\ r.token = done[d].token /\ r.person = done[d].person
        BY <3>1, <3>3 DEF DoneSet, Go
      <4>. HIDE DEF r
      <4>. QED BY <3>1, <4>1
    <3>4. CASE LookUp(d) /\ ~Go(d, "commit")
      <4>1. PICK q : done' = [done EXCEPT ![d] = [[done[d] EXCEPT !.pc = "split"] EXCEPT !.into = q]]
        BY <3>4 DEF LookUp
      <4>. DEFINE r == [[done[d] EXCEPT !.pc = "split"] EXCEPT !.into = q]
      <4>2. r.pc = "split" /\ r.token = done[d].token /\ r.person = done[d].person
        BY <3>1 DEF DoneSet
      <4>. HIDE DEF r
      <4>. QED BY <3>1, <4>1, <4>2 DEF r
    <3>. QED BY <2>2, <3>2, <3>3, <3>4 DEF Abandon
  <2>. QED BY <2>1, <2>2
<1>3. done'[d] = r /\ \A e \in Dones : e # d => done'[e] = done[e]
  BY <1>2, Known
<1>4. ASSUME inTurn', NEW e \in Dones, InProgress(e)'
      PROVE  /\ InProgress(e) /\ done'[e].token = done[e].token /\ done'[e].person = done[e].person
             /\ done'[e].pc = "folding" => Key(e) \notin merge'[done[e].person].late
  <2>1. CASE e = d
    BY <1>1, <1>2, <1>3, <1>4, <2>1 DEF InProgress
  <2>2. CASE e # d
    <3>1. InProgress(e) /\ InProgress(d)
      BY <1>1, <1>3, <1>4, <2>2 DEF InProgress
    <3>. QED BY <1>1, <1>4, <2>2, <3>1 DEF IInv, OneAtATime
  <2>. QED BY <2>1, <2>2
<1>. QED BY <1>1, <1>4, KeysStay

(* A merge takes the keys along.                                             *)
LEMMA KeysFold ==
  ASSUME IInv, KeyInv, NEW l \in People, Folded(l), UNCHANGED <<token, mode, account, granted>>
  PROVE  (\A t \in Tokens : TokenKey(t)') /\ OneConnect' /\ (inTurn => OwnedHasKey')
<1>1. ASSUME NEW t \in Tokens PROVE TokenKey(t)'
  <2>1. TokenKey(t) /\ (token[t].kind # "none" => token[t].key \in Keys)
    BY DEF KeyInv, IInv, TokensOK
  <2>2. CASE token[t].kind = "none"
    BY <2>1, <2>2 DEF TokenKey
  <2>3. CASE token[t].kind # "none"
    <3>. DEFINE k == token[t].key
    <3>1. /\ k \in Keys /\ k \in Owned /\ status' = status /\ held'[t] \in {held[t], NoOne} \ {l}
          /\ owner[k] = NoOne => owner'[k] = NoOne
          /\ k \in secret' <=> k \in secret /\ owner'[k] # NoOne
      BY <2>1, <2>3, Ends, Known
    <3>2. owner[k] # l => owner'[k] = owner[k]
      <4>1. Whose(k) = owner[k] /\ Whose(k)' = owner'[k]
        BY <3>1, PersonsAssumption DEF Whose
      <4>. QED BY <3>1, <4>1, Ends
    <3>. HIDE DEF k
    <3>. QED BY <2>1, <2>3, <3>1, <3>2 DEF TokenKey, k
  <2>. QED BY <2>2, <2>3
<1>2. OneConnect'
  BY DEF KeyInv, OneConnect
<1>3. ASSUME inTurn PROVE OwnedHasKey'
  <2>1. ASSUME NEW p \in people', mode'[p] = "owned"
        PROVE  \E k \in secret' : owner'[k] = p /\ status'[k] = "active" /\ <<k, account'[p]>> \in granted'
    <3>1. p \in people /\ p # l /\ mode[p] = "owned" /\ p # NoOne
      BY <2>1, Ends, Known
    <3>2. PICK k \in secret : owner[k] = p /\ status[k] = "active" /\ <<k, account[p]>> \in granted
      BY <1>3, <3>1 DEF KeyInv, OwnedHasKey
    <3>3. k \in Keys /\ k \in Owned
      BY Known DEF KeysOK
    <3>4. owner'[k] = owner[k]
      <4>1. Whose(k) = owner[k] /\ Whose(k)' = owner'[k]
        BY <3>3, PersonsAssumption DEF Whose
      <4>. QED BY <3>1, <3>2, <3>3, <4>1, Ends
    <3>. QED BY <3>1, <3>2, <3>3, <3>4, Ends
  <2>. QED BY <2>1 DEF OwnedHasKey
<1>. QED BY <1>1, <1>2, <1>3

LEMMA KeysLink ==
  ASSUME IInv, KeyInv, NEW l \in People, LinkEnds(l)
  PROVE  KeyInv'
<1>1. Folded(l) /\ Disturbs /\ UNCHANGED <<token, mode, account, granted, done>>
  BY DEF LinkEnds
<1>2. (\A t \in Tokens : TokenKey(t)') /\ OneConnect' /\ (inTurn => OwnedHasKey')
  BY <1>1, KeysFold
<1>3. ASSUME inTurn' PROVE inTurn /\ Holds'
  <2>1. inTurn /\ \A d \in Dones : ~InProgress(d) /\ ~At(d, "folding")
    BY <1>1, <1>3, NobodyInProgress DEF InProgress, At
  <2>. QED BY <1>1, <2>1 DEF Holds, InProgress, At
<1>. QED BY <1>2, <1>3 DEF KeyInv

LEMMA KeysFoldBegins ==
  ASSUME IInv, KeyInv, NEW d \in Dones, FoldBegins(d)
  PROVE  KeyInv'
<1>. DEFINE q == done[d].into  p == done[d].person
<1>1. /\ At(d, "split") /\ InProgress(d)
      /\ UNCHANGED <<owner, held, status, secret, token, mode, account, people, granted, inTurn>>
  BY DEF FoldBegins, MergeBegins, At, InProgress, keys, tables
<1>2. /\ q \in People /\ q # p /\ p \in People /\ Key(d) \in Keys /\ done[d].wallet \in Wallets
      /\ inTurn => identity[done[d].wallet] = q
      /\ inTurn => owner[Key(d)] = p
  BY <1>1, DoneTyped DEF DoneOK, Named, Connecting, Verified, At, IInv, Decided, KeyInv, Holds
<1>3. PICK r : /\ done' = [done EXCEPT ![d] = r]
               /\ \/ r.pc = "over"
                  \/ inTurn => /\ r.pc = "folding" /\ r.token = done[d].token /\ r.person = p
                               /\ merge'[p].late = {}
  <2>1. CASE UNCHANGED tables /\ Over(d)
    <3>1. PICK r \in DoneSet : done' = [done EXCEPT ![d] = r] /\ r.pc = "over"
      BY <2>1, OverIs
    <3>. QED BY <3>1
  <2>2. CASE MergeBegins(q, p) /\ Go(d, "folding")
    <3>. DEFINE r == [done[d] EXCEPT !.pc = "folding"]
    <3>1. /\ done' = [done EXCEPT ![d] = r] /\ r.pc = "folding" /\ r.token = done[d].token /\ r.person = p
      BY <2>2, DoneTyped DEF DoneSet, Go
    <3>2. merge'[p].late = {}
      <4>1. merge \in AllMerges
        BY Known, MergesTyped
      <4>. QED BY <1>2, <2>2, <4>1 DEF MergeBegins, AllMerges
    <3>. HIDE DEF r
    <3>. QED BY <3>1, <3>2
  <2>3. CASE MergeSkips(q, p) /\ GoOn(d)
    <3>1. ~inTurn
      <4>1. inTurn => p \in people
        BY <1>2, Known
      <4>. QED BY <1>2, <2>3, <4>1 DEF MergeSkips
    <3>2. \E r : done' = [done EXCEPT ![d] = r]
      BY <2>3 DEF GoOn
    <3>. QED BY <3>1, <3>2
  <2>. QED BY <2>1, <2>2, <2>3 DEF FoldBegins
<1>4. done'[d] = r /\ \A e \in Dones : e # d => done'[e] = done[e]
  BY <1>3, Known
<1>5. ASSUME inTurn', NEW e \in Dones, InProgress(e)'
      PROVE  /\ InProgress(e) /\ done'[e].token = done[e].token /\ done'[e].person = done[e].person
             /\ done'[e].pc = "folding" => Key(e) \notin merge'[done[e].person].late
  <2>1. InProgress(e)
    BY <1>1, <1>4, <1>5 DEF InProgress
  <2>2. e = d
    BY <1>1, <1>5, <2>1 DEF IInv, OneAtATime
  <2>. QED BY <1>1, <1>3, <1>4, <1>5, <2>1, <2>2 DEF InProgress
<1>. QED BY <1>1, <1>5, KeysStay

LEMMA KeysFoldEnds ==
  ASSUME IInv, KeyInv, NEW d \in Dones, FoldEnds(d)
  PROVE  KeyInv'
<1>. DEFINE q == done[d].into  p == done[d].person
<1>1. /\ At(d, "folding") /\ InProgress(d) /\ Folded(p) /\ GoOn(d)
      /\ UNCHANGED <<token, mode, account, granted, inTurn>>
  BY DEF FoldEnds, At, InProgress
<1>2. p \in People /\ Key(d) \in Keys /\ merge[p].into = q
  BY <1>1, DoneTyped DEF DoneOK, Named, At
<1>3. PICK r \in DoneSet : /\ done' = [done EXCEPT ![d] = r] /\ r.pc = "commit"
                           /\ r.token = done[d].token /\ r.person = q
  BY <1>1, GoOnIs
<1>4. done'[d] = r /\ \A e \in Dones : e # d => done'[e] = done[e]
  BY <1>3, Known
<1>5. (\A t \in Tokens : TokenKey(t)') /\ OneConnect' /\ (inTurn => OwnedHasKey')
  BY <1>1, <1>2, KeysFold
<1>6. ASSUME inTurn PROVE Holds'
  <2>1. PICK k \in Keys : k = Key(d)
    BY <1>2
  <2>2. owner[k] = p /\ k \notin merge[p].late
    BY <1>1, <1>6, <2>1 DEF KeyInv, Holds
  <2>3. owner'[k] = q
    BY <1>1, <1>2, <2>2, Ends
  <2>4. Key(d)' = k /\ done'[d].person = q /\ ~At(d, "folding")'
    BY <1>1, <1>3, <1>4, <2>1 DEF Key, At
  <2>5. ASSUME NEW e \in Dones, InProgress(e)' PROVE e = d
    <3>1. e # d => InProgress(e)
      BY <1>4, <2>5 DEF InProgress
    <3>. QED BY <1>1, <1>6, <3>1 DEF IInv, OneAtATime
  <2>6. ASSUME NEW e \in Dones, At(e, "folding")' PROVE FALSE
    <3>1. InProgress(e)'
      BY <2>6 DEF At, InProgress
    <3>. QED BY <2>4, <2>5, <2>6, <3>1
  <2>. QED BY <2>3, <2>4, <2>5, <2>6 DEF Holds
<1>. QED BY <1>1, <1>5, <1>6 DEF KeyInv

(* Tokens name keys that are new, or in use.                                 *)
LEMMA KeysStartConnect ==
  ASSUME IInv, KeyInv, NEW t \in Tokens, NEW k \in Keys, NEW p \in People, StartConnect(t, k, p)
  PROVE  KeyInv'
<1>. DEFINE new == [kind |-> "connect", key |-> k, used |-> FALSE]
<1>1. /\ token[t].kind = "none" /\ status[k] = "none" /\ token' = [token EXCEPT ![t] = new]
      /\ held' = [held EXCEPT ![t] = p] /\ owner' = [owner EXCEPT ![k] = p]
      /\ merge' = Comes(merge, p, {k})
      /\ status' = [status EXCEPT ![k] = "pending"] /\ secret' = secret \cup {k}
      /\ UNCHANGED <<people, mode, account, granted, done, inTurn>>
  BY DEF StartConnect, Insert
<1>2. new.kind = "connect" /\ new.key = k /\ ~new.used
  OBVIOUS
<1>. HIDE DEF new
<1>3. /\ token'[t] = new /\ held'[t] = p /\ owner'[k] = p /\ status'[k] = "pending"
      /\ \A u \in Tokens : u # t => token'[u] = token[u] /\ held'[u] = held[u]
      /\ \A j \in Keys : j # k => owner'[j] = owner[j] /\ status'[j] = status[j]
  BY <1>1, Known DEF KeysOK, PersonsTypeOK
<1>4. \A u \in Tokens : token[u].kind # "none" => token[u].key \in Keys /\ token[u].key # k
  BY <1>1 DEF KeyInv, TokenKey, IInv, TokensOK
<1>5. ASSUME NEW u \in Tokens PROVE TokenKey(u)'
  <2>1. CASE u = t
    BY <1>1, <1>2, <1>3, <2>1 DEF TokenKey
  <2>2. CASE u # t
    <3>1. TokenKey(u) /\ token'[u] = token[u] /\ held'[u] = held[u]
      BY <1>3, <2>2 DEF KeyInv
    <3>. QED BY <1>1, <1>3, <1>4, <3>1 DEF TokenKey
  <2>. QED BY <2>1, <2>2
<1>6. OneConnect'
  BY <1>2, <1>3, <1>4 DEF KeyInv, OneConnect
<1>7. ASSUME inTurn PROVE Holds'
  <2>1. ASSUME NEW d \in Dones, Named(d)
        PROVE  Key(d)' = Key(d) /\ owner'[Key(d)] = owner[Key(d)] /\ Key(d) # k
    <3>1. done[d].token \in Tokens /\ token[done[d].token].kind # "none" /\ Key(d) \in Keys
      BY <2>1, DoneTyped DEF DoneOK, Kind
    <3>. QED BY <1>1, <1>3, <1>4, <3>1 DEF Key
  <2>2. ASSUME NEW d \in Dones, InProgress(d)' PROVE owner'[Key(d)'] = done'[d].person
    <3>1. InProgress(d) /\ Named(d)
      BY <1>1, <2>2 DEF InProgress, Named
    <3>. QED BY <1>1, <1>7, <2>1, <3>1 DEF KeyInv, Holds
  <2>3. ASSUME NEW d \in Dones, At(d, "folding")' PROVE Key(d)' \notin merge'[done'[d].person].late
    <3>1. At(d, "folding") /\ Named(d)
      BY <1>1, <2>3 DEF At, Named
    <3>2. Key(d) \notin merge[done[d].person].late /\ done[d].person \in People
      BY <1>7, <3>1, DoneTyped DEF KeyInv, Holds, DoneOK
    <3>3. {k} \in SUBSET (Identities \cup Owned)
      BY Known
    <3>4. \A l \in People : \A j : j \in merge'[l].late => j \in merge[l].late \/ j \in {k}
      BY <1>1, <3>3, ComesLate, Known
    <3>5. Key(d) \notin merge'[done[d].person].late
      <4>1. PICK j : j = Key(d)
        OBVIOUS
      <4>2. j # k /\ j \notin merge[done[d].person].late
        BY <2>1, <3>1, <3>2, <4>1
      <4>. QED BY <3>2, <3>4, <4>1, <4>2
    <3>. QED BY <1>1, <2>1, <3>1, <3>5
  <2>. QED BY <2>2, <2>3 DEF Holds
<1>8. inTurn => OwnedHasKey'
  <2>1. secret \subseteq Keys
    BY Known DEF KeysOK
  <2>2. ASSUME inTurn, NEW q \in people', mode'[q] = "owned"
        PROVE  \E j \in secret' : /\ owner'[j] = q /\ status'[j] = "active"
                                  /\ <<j, account'[q]>> \in granted'
    <3>1. q \in people /\ mode[q] = "owned" /\ account' = account /\ granted' = granted
      BY <1>1, <2>2
    <3>2. PICK j \in secret : owner[j] = q /\ status[j] = "active" /\ <<j, account[q]>> \in granted
      BY <2>2, <3>1 DEF KeyInv, OwnedHasKey
    <3>3. j \in Keys /\ j # k
      BY <1>1, <2>1, <3>2
    <3>4. owner'[j] = q /\ status'[j] = "active" /\ j \in secret'
      BY <1>1, <1>3, <3>2, <3>3
    <3>. QED BY <3>1, <3>2, <3>4
  <2>. QED BY <2>2 DEF OwnedHasKey
<1>. QED BY <1>1, <1>5, <1>6, <1>7, <1>8 DEF KeyInv

LEMMA KeysStartDisconnect ==
  ASSUME IInv, KeyInv, NEW t \in Tokens, NEW k \in Keys, NEW p \in People, StartDisconnect(t, k, p)
  PROVE  KeyInv'
<1>. DEFINE new == [kind |-> "disconnect", key |-> k, used |-> FALSE]
<1>1. /\ token[t].kind = "none" /\ owner[k] = p /\ status[k] = "active"
      /\ token' = [token EXCEPT ![t] = new] /\ held' = [held EXCEPT ![t] = p]
      /\ UNCHANGED <<people, owner, merge, status, secret, mode, account, granted, done, inTurn>>
  BY DEF StartDisconnect, keys
<1>2. new.kind = "disconnect" /\ new.key = k
  OBVIOUS
<1>. HIDE DEF new
<1>3. /\ token'[t] = new /\ held'[t] = p
      /\ \A u \in Tokens : u # t => token'[u] = token[u] /\ held'[u] = held[u]
  BY <1>1, Known DEF PersonsTypeOK
<1>4. ASSUME NEW u \in Tokens PROVE TokenKey(u)'
  <2>1. CASE u = t
    BY <1>1, <1>2, <1>3, <2>1 DEF TokenKey
  <2>2. CASE u # t
    BY <1>1, <1>3, <2>2 DEF KeyInv, TokenKey
  <2>. QED BY <2>1, <2>2
<1>5. OneConnect'
  BY <1>2, <1>3 DEF KeyInv, OneConnect
<1>6. inTurn => Holds'
  <2>1. \A d \in Dones : Named(d) => done[d].token \in Tokens /\ token[done[d].token].kind # "none"
    BY DEF IInv, DonesOK, DoneOK, Kind
  <2>2. \A d \in Dones : InProgress(d) \/ At(d, "folding") => Key(d)' = Key(d)
    BY <1>1, <1>3, <2>1 DEF Key, InProgress, Named, At
  <2>. QED BY <1>1, <2>2 DEF KeyInv, Holds, InProgress, At
<1>7. inTurn => OwnedHasKey'
  BY <1>1 DEF KeyInv, OwnedHasKey
<1>. QED BY <1>1, <1>4, <1>5, <1>6, <1>7 DEF KeyInv

LEMMA KeysLoad ==
  ASSUME IInv, KeyInv, NEW d \in Dones, NEW t \in Tokens, NEW a \in Wallets, Load(d, t, a)
  PROVE  KeyInv'
<1>. DEFINE r == [pc |-> "loaded", token |-> t, account |-> a, person |-> held[t], wallet |-> NoOne,
                  into |-> NoOne]
<1>1. /\ held[t] # NoOne /\ done' = [done EXCEPT ![d] = r] /\ Disturbs
      /\ UNCHANGED <<people, held, owner, status, secret, token, mode, account, granted>>
  BY DEF Load, tables, keys
<1>2. done'[d] = r /\ \A e \in Dones : e # d => done'[e] = done[e]
  BY <1>1, Known
<1>3. r.token = t /\ r.person = held[t] /\ r.pc = "loaded"
  OBVIOUS
<1>. HIDE DEF r
<1>4. ASSUME NEW u \in Tokens PROVE TokenKey(u)'
  BY <1>1 DEF KeyInv, TokenKey
<1>5. OneConnect'
  BY <1>1 DEF KeyInv, OneConnect
<1>6. ASSUME inTurn' PROVE Holds' /\ OwnedHasKey'
  <2>1. inTurn /\ \A e \in Dones : ~InProgress(e)
    BY <1>1, <1>6, NobodyInProgress
  <2>2. \A e \in Dones : InProgress(e)' => e = d
    BY <1>2, <2>1 DEF InProgress
  <2>3. owner[token[t].key] = held[t]
    BY <1>1 DEF KeyInv, TokenKey, IInv, TokensOK
  <2>4. ASSUME NEW e \in Dones, InProgress(e)' PROVE owner'[Key(e)'] = done'[e].person
    BY <1>1, <1>2, <1>3, <2>2, <2>3, <2>4 DEF Key
  <2>5. ASSUME NEW e \in Dones, At(e, "folding")' PROVE FALSE
    BY <1>2, <1>3, <2>1, <2>5 DEF At, InProgress
  <2>6. OwnedHasKey'
    BY <1>1, <2>1 DEF KeyInv, OwnedHasKey
  <2>. QED BY <2>4, <2>5, <2>6 DEF Holds
<1>. QED BY <1>4, <1>5, <1>6 DEF KeyInv


(* After a commit in turn no callback is left.                              *)
LEMMA NobodyLeft ==
  ASSUME IInv, inTurn, NEW d \in Dones, InProgress(d), NEW pc \in {"connected", "disconnected"},
         Go(d, pc)
  PROVE  Holds'
<1>1. done'[d].pc = pc /\ \A e \in Dones : e # d => done'[e] = done[e]
  BY Known DEF Go, DoneSet
<1>2. \A e \in Dones : ~InProgress(e)' /\ ~Connecting(e)'
  BY <1>1, CommitsAlone
<1>3. \A e \in Dones : ~At(e, "folding")'
  BY <1>2 DEF Connecting, At
<1>. QED BY <1>2, <1>3 DEF Holds

LEMMA KeysCommitConnect ==
  ASSUME IInv, KeyInv, NEW d \in Dones, CommitConnect(d)
  PROVE  KeyInv'
<1>. DEFINE p == done[d].person  w == done[d].wallet
<1>1. At(d, "commit") /\ InProgress(d) /\ UNCHANGED <<secret, granted, inTurn>>
  BY DEF CommitConnect, InProgress, At
<1>2. /\ done[d] \in DoneSet /\ Kind(d) = "connect" /\ Key(d) \in Keys /\ p \in People
      /\ <<Key(d), done[d].account>> \in granted /\ done[d].account \in Wallets /\ w = done[d].account
  BY <1>1, ConnectTyped DEF Verified, Connecting, At
<1>3. CASE AttachFails(w, p)
  <2>1. Over(d) /\ UNCHANGED <<people, held, owner, status, token, mode, account>>
    BY <1>3 DEF CommitConnect, tables
  <2>2. PICK r : done' = [done EXCEPT ![d] = r] /\ r.pc = "over"
    BY <2>1, OverIs
  <2>3. done'[d] = r /\ \A e \in Dones : e # d => done'[e] = done[e]
    BY <2>2, Known
  <2>4. ASSUME inTurn', NEW e \in Dones, InProgress(e)' PROVE FALSE
    <3>1. e # d /\ InProgress(e)
      BY <2>2, <2>3, <2>4 DEF InProgress
    <3>. QED BY <1>1, <2>4, <3>1 DEF IInv, OneAtATime
  <2>. QED BY <1>1, <2>1, <2>4, KeysStay
<1>4. CASE ~AttachFails(w, p)
  <2>1. /\ status' = [status EXCEPT ![Key(d)] = IF owner[Key(d)] # NoOne THEN "active" ELSE @]
        /\ mode' = [mode EXCEPT ![p] = IF p \in people THEN "owned" ELSE @]
        /\ account' = [account EXCEPT ![p] = IF p \in people THEN done[d].account ELSE @]
        /\ MarkUsed(d) /\ Go(d, "connected") /\ UNCHANGED <<people, held, owner>>
    BY <1>4 DEF CommitConnect, Attach
  <2>2. /\ done[d].token \in Tokens /\ token'[done[d].token].used
        /\ \A u \in Tokens : /\ token'[u].kind = token[u].kind /\ token'[u].key = token[u].key
                             /\ token[u].used => token'[u].used
    BY <1>1, <2>1, TokenUsed
  <2>3. /\ status'[Key(d)] = IF owner[Key(d)] # NoOne THEN "active" ELSE status[Key(d)]
        /\ \A k \in Keys : k # Key(d) => status'[k] = status[k]
    BY <1>2, <2>1, Known DEF KeysOK
  <2>4. ASSUME NEW u \in Tokens PROVE TokenKey(u)'
    <3>1. TokenKey(u) /\ (token[u].kind # "none" => token[u].key \in Keys)
      BY DEF KeyInv, IInv, TokensOK
    <3>2. token[u].kind = "connect" /\ ~token'[u].used => token[u].key # Key(d)
      BY <1>2, <2>2 DEF KeyInv, OneConnect, Kind, Key
    <3>3. token[u].kind = "disconnect" => status'[token[u].key] \in {"active", "revoked"}
      BY <2>3, <3>1 DEF TokenKey
    <3>4. token[u].kind # "none" => status'[token[u].key] # "none"
      BY <2>3, <3>1 DEF TokenKey
    <3>. QED BY <1>1, <2>1, <2>2, <2>3, <3>1, <3>2, <3>3, <3>4 DEF TokenKey
  <2>5. OneConnect'
    BY <2>2 DEF KeyInv, OneConnect
  <2>6. inTurn => Holds'
    BY <1>1, <2>1, NobodyLeft
  <2>7. ASSUME inTurn PROVE OwnedHasKey'
    <3>1. owner[Key(d)] = p /\ (p \in people => Key(d) \in secret)
      <4>1. ~token[done[d].token].used
        BY <1>1, <2>7 DEF IInv, OneAtATime
      <4>2. owner[Key(d)] = p
        BY <1>1, <2>7 DEF KeyInv, Holds
      <4>. QED BY <1>2, <2>2, <4>1, <4>2, Known DEF KeyInv, TokenKey, Kind, Key
    <3>2. \A q \in People : q # p => mode'[q] = mode[q] /\ account'[q] = account[q]
      BY <2>1, Known DEF ModesOK
    <3>3. p \in people => account'[p] = done[d].account
      BY <1>2, <2>1, Known DEF ModesOK
    <3>4. people \subseteq People /\ secret \subseteq Keys /\ NoOne \notin people
      BY Known DEF KeysOK
    <3>5. ASSUME NEW q \in people', mode'[q] = "owned"
          PROVE  \E k \in secret' : /\ owner'[k] = q /\ status'[k] = "active"
                                    /\ <<k, account'[q]>> \in granted'
      <4>1. CASE q = p
        <5>1. p \in people
          BY <2>1, <3>5, <4>1
        <5>2. Key(d) \in secret' /\ owner'[Key(d)] = q /\ status'[Key(d)] = "active"
          BY <1>1, <2>1, <2>3, <3>1, <3>4, <4>1, <5>1
        <5>3. <<Key(d), account'[q]>> \in granted'
          BY <1>1, <1>2, <3>3, <4>1, <5>1
        <5>. QED BY <5>2, <5>3
      <4>2. CASE q # p
        <5>1. q \in people /\ mode[q] = "owned" /\ account'[q] = account[q]
          BY <2>1, <3>2, <3>4, <3>5, <4>2
        <5>2. PICK k \in secret : owner[k] = q /\ status[k] = "active" /\ <<k, account[q]>> \in granted
          BY <2>7, <5>1 DEF KeyInv, OwnedHasKey
        <5>3. k \in Keys /\ k \in secret' /\ owner'[k] = q
          BY <1>1, <2>1, <3>4, <5>2
        <5>4. status'[k] = "active"
          BY <2>3, <5>2, <5>3
        <5>5. <<k, account'[q]>> \in granted'
          BY <1>1, <5>1, <5>2
        <5>. QED BY <5>3, <5>4, <5>5
      <4>. QED BY <4>1, <4>2
    <3>. QED BY <3>5 DEF OwnedHasKey
  <2>. QED BY <1>1, <2>4, <2>5, <2>6, <2>7 DEF KeyInv
<1>. QED BY <1>3, <1>4

LEMMA KeysCommitDisconnect ==
  ASSUME IInv, KeyInv, NEW d \in Dones, CommitDisconnect(d)
  PROVE  KeyInv'
<1>. DEFINE p == done[d].person
<1>1. /\ Kind(d) = "disconnect" /\ InProgress(d) /\ MarkUsed(d) /\ Go(d, "disconnected")
      /\ status' = [status EXCEPT ![Key(d)] = IF owner[Key(d)] # NoOne THEN "revoked" ELSE @]
      /\ secret' = secret \ {Key(d)}
      /\ mode' = [mode EXCEPT ![p] = IF @ = "owned" THEN "guest" ELSE @]
      /\ UNCHANGED <<people, held, owner, account, granted, inTurn>>
  BY DEF CommitDisconnect, InProgress, At, tables
<1>2. /\ done[d].token \in Tokens /\ Key(d) \in Keys /\ token'[done[d].token].used
      /\ \A u \in Tokens : /\ token'[u].kind = token[u].kind /\ token'[u].key = token[u].key
                           /\ token[u].used => token'[u].used
  BY <1>1, TokenUsed
<1>3. /\ status'[Key(d)] = IF owner[Key(d)] # NoOne THEN "revoked" ELSE status[Key(d)]
      /\ \A k \in Keys : k # Key(d) => status'[k] = status[k]
  BY <1>1, <1>2, Known DEF KeysOK
<1>4. status[Key(d)] \in {"active", "revoked"}
  BY <1>1, <1>2 DEF KeyInv, TokenKey, Kind, Key
<1>5. ASSUME NEW u \in Tokens PROVE TokenKey(u)'
  <2>1. TokenKey(u) /\ (token[u].kind # "none" => token[u].key \in Keys)
    BY DEF KeyInv, IInv, TokensOK
  <2>2. token[u].kind = "connect" /\ ~token[u].used => token[u].key # Key(d)
    BY <1>4, <2>1 DEF TokenKey
  <2>3. token[u].kind # "none" => \/ token[u].key # Key(d) /\ status'[token[u].key] = status[token[u].key]
                                  \/ token[u].key = Key(d) /\ status'[token[u].key] \in {"active", "revoked"}
    BY <1>3, <1>4, <2>1
  <2>4. token[u].kind = "connect" /\ ~token'[u].used =>
          status'[token[u].key] = "pending" /\ (owner[token[u].key] # NoOne => token[u].key \in secret')
    BY <1>1, <1>2, <2>1, <2>2, <2>3 DEF TokenKey
  <2>. QED BY <1>1, <1>2, <2>1, <2>3, <2>4 DEF TokenKey
<1>6. OneConnect'
  BY <1>2 DEF KeyInv, OneConnect
<1>7. inTurn => Holds'
  BY <1>1, NobodyLeft
<1>8. ASSUME inTurn PROVE OwnedHasKey'
  <2>1. owner[Key(d)] = p
    BY <1>1, <1>8 DEF KeyInv, Holds
  <2>2. people \subseteq People /\ secret \subseteq Keys
    BY Known DEF KeysOK
  <2>3. ASSUME NEW q \in people', mode'[q] = "owned"
        PROVE  \E k \in secret' : /\ owner'[k] = q /\ status'[k] = "active"
                                  /\ <<k, account'[q]>> \in granted'
    <3>1. q # p /\ mode[q] = "owned" /\ q \in people
      BY <1>1, <2>2, <2>3, Known DEF ModesOK
    <3>2. PICK k \in secret : owner[k] = q /\ status[k] = "active" /\ <<k, account[q]>> \in granted
      BY <1>8, <3>1 DEF KeyInv, OwnedHasKey
    <3>3. k \in Keys /\ k # Key(d)
      BY <2>1, <2>2, <3>1, <3>2
    <3>. QED BY <1>1, <1>3, <3>2, <3>3
  <2>. QED BY <2>3 DEF OwnedHasKey
<1>. QED BY <1>1, <1>5, <1>6, <1>7, <1>8 DEF KeyInv

LEMMA KeysInitially == Init => KeyInv
BY DEF Init, PersonsInit, NoToken, NoDone, KeyInv, TokenKey, OneConnect, Holds, InProgress, At, OwnedHasKey

LEMMA KeySteps == IInv /\ KeyInv /\ [Next]_vars => KeyInv'
<1>. SUFFICES ASSUME IInv, KeyInv, [Next]_vars PROVE KeyInv'
  OBVIOUS
<1>. QED BY KeysQuiet, KeysMoves, KeysLink, KeysFoldBegins, KeysFoldEnds, KeysStartConnect,
     KeysStartDisconnect, KeysLoad, KeysCommitConnect, KeysCommitDisconnect DEF Next

LEMMA KeyInvariant == Spec => []KeyInv
BY KeysInitially, KeySteps, Invariant, PTL DEF Spec

-----------------------------------------------------------------------------
(* routes/connect.ts, /done: nobody is in owned mode whose wallet did not    *)
(* sign hippo's key onto that account.                                       *)
THEOREM OwnershipIsGranted == Spec => []OwnedWasGranted
<1>1. IInv => OwnedWasGranted
  BY Known DEF IInv, GrantsOK, OwnedWasGranted
<1>. QED BY <1>1, Invariant, PTL

(* connect/tokens.ts and mergePersons, statement by statement: a key hippo   *)
(* has minted is one it holds, for somebody, until a disconnect destroys it, *)
(* whatever merges overlap; but for a row that came to a person after the    *)
(* statement of their merge that would have moved it.                        *)
THEOREM SecretsAreOwned == Spec => []SecretHasOwner
<1>1. IInv => SecretHasOwner
  BY DEF IInv
<1>. QED BY <1>1, Invariant, PTL

(* routes/connect.ts, /done, and portFor: a callback nobody comes into       *)
(* commits its token once and leaves one owner of the account, and whoever   *)
(* is in owned mode has a key that their wallet granted.                     *)
THEOREM CallbacksInTurn == Spec => []CallbackInTurn
<1>1. IInv /\ KeyInv => CallbackInTurn
  BY DEF IInv, KeyInv, OneAtATime, OwnsWallet, CallbackInTurn, OneOwnerPerAccount
<1>. QED BY <1>1, Invariant, KeyInvariant, PTL

-----------------------------------------------------------------------------
(***************************************************************************)
(* The page behind the link (ConnectPage), for any wallets, limits and     *)
(* faults.  PageInv is the inductive invariant.                            *)
(***************************************************************************)

(* The fields of the tab.                                                   *)
PageShape ==
  page = [at |-> page.at, wallet |-> page.wallet, tx |-> page.tx, attempt |-> page.attempt,
          polls |-> page.polls, selfPaid |-> page.selfPaid, paid |-> page.paid]

(* What the page says of the link and of who paid.  Between Balance, which   *)
(* sends the wallet in, and its answer, and after an error, it may say more  *)
(* than was paid; an error is left by the button only, and that clears both. *)
PageSays ==
  /\ page.at \notin {"wallet", "error"} => page.selfPaid = page.paid
  /\ page.at = "wallet" => page.selfPaid = TRUE
  /\ page.at = "done" => link = "used"

PageInv == PageShape /\ PageSays

LEMMA PageInitially == PageInit => PageInv
BY DEF PageInit, Fresh, PageInv, PageShape, PageSays

LEMMA PageLoads == PageInv /\ (LoadLink \/ Find \/ Sponsor \/ Poll) => PageInv'
BY DEF LoadLink, Find, Sponsor, Poll, Shows, GoTo, Submit, TryAgain,
       Repeat, world, PageInv, PageShape, PageSays

LEMMA PageStarts == PageInv /\ (Reload \/ Run) => PageInv'
<1>1. ASSUME PageInv, Reload PROVE PageInv'
  <2>1. PICK w \in PageWallets: page' = Fresh(w)
    BY <1>1 DEF Reload
  <2>. QED BY <2>1 DEF Fresh, PageInv, PageShape, PageSays
<1>2. ASSUME PageInv, Run PROVE PageInv'
  <2>1. page' = [page EXCEPT !.at = "find", !.selfPaid = FALSE, !.paid = FALSE]
    BY <1>2 DEF Run
  <2>2. PageShape' /\ page'.at = "find" /\ page'.selfPaid = page'.paid
    BY <1>2, <2>1 DEF PageInv, PageShape
  <2>. QED BY <2>2 DEF PageInv, PageSays
<1>. QED BY <1>1, <1>2

LEMMA PagePays == PageInv /\ (Execute \/ Balance \/ PayYourself) => PageInv'
BY DEF Execute, Balance, PayYourself, Digest, TryAgain, Shows, GoTo, world,
       PageInv, PageShape, PageSays

LEMMA PageFinishes == PageInv /\ Finish => PageInv'
<1>. SUFFICES ASSUME PageInv, Finish PROVE PageInv'
  OBVIOUS
<1>1. page.at = "finish"
  BY DEF Finish, Shows
<1>2. PICK read, heard \in BOOLEAN:
        LET agreed == link = "open" /\ Registered(read) = (kind = "connect")
        IN /\ link' = IF agreed THEN "used" ELSE link
           /\ CASE ~heard -> GoTo("error")
                [] heard /\ agreed -> GoTo("done")
                [] heard /\ ~agreed /\ link = "open" -> Repeat(Confirms)
                [] heard /\ link # "open" -> GoTo("error")
  BY DEF Finish
<1>. DEFINE agreed == link = "open" /\ Registered(read) = (kind = "connect")
<1>3. CASE heard /\ agreed
  <2>1. link' = "used" /\ GoTo("done")
    BY <1>2, <1>3
  <2>. QED BY <1>1, <2>1 DEF GoTo, PageInv, PageShape, PageSays
<1>4. CASE ~(heard /\ agreed)
  <2>. HIDE DEF agreed
  <2>1. GoTo("error") \/ Repeat(Confirms)
    BY <1>2, <1>4 DEF agreed
  <2>. QED BY <1>1, <2>1 DEF GoTo, Repeat, PageInv, PageShape, PageSays
<1>. QED BY <1>3, <1>4

LEMMA PageStep == PageInv /\ [PageNext]_pageVars => PageInv'
<1>. SUFFICES ASSUME PageInv, [PageNext]_pageVars PROVE PageInv'
  OBVIOUS
<1>1. CASE Expire \/ LandsLate \/ (\E n \in {"page", "hippo"}: CatchUp(n)) \/ UNCHANGED pageVars
  <2>1. page' = page /\ (link' = link \/ link = "open")
    BY <1>1 DEF Expire, LandsLate, CatchUp, pageVars
  <2>. QED BY <2>1 DEF PageInv, PageShape, PageSays
<1>. QED BY <1>1, PageLoads, PageStarts, PagePays, PageFinishes DEF PageNext

(* The last screen never says that a link is used when it is not, nor that   *)
(* the wallet paid when the sponsor did, nor the other way round, over any   *)
(* tries, retries, reloads and lost answers (useConnectFlow, finish,         *)
(* sponsorAndExecute).                                                       *)
THEOREM PageAlwaysTrue == PageSpec => []PageIsTrue
<1>1. PageInv => PageIsTrue
  BY DEF PageInv, PageSays, PageIsTrue, Shows
<1>. QED BY <1>1, PageInitially, PageStep, PTL DEF PageSpec
=============================================================================
