------------------------------- MODULE Identity -------------------------------
(***************************************************************************)
(* One human on several channels: turns that find or create a person       *)
(* (resolvePerson), wallet sign-ins (identity/auth.ts) and link codes      *)
(* (identity/link.ts), all at once.  Every await between two statements is *)
(* a point where another request may run, and so is every statement of a   *)
(* merge; a request may also stop there for good (the server restarts), so *)
(* no fairness is assumed.  Nonces and codes that expire are those nobody  *)
(* uses in time.                                                           *)
(***************************************************************************)
EXTENDS Persons

CONSTANTS
  Browsers,   (* the externals that are guest cookies of a browser           *)
  SignIns,    (* calls of signInWithWallet, and the sessions they open       *)
  Nonces,     (* challenges                                                  *)
  Redeems,    (* calls of redeemLinkCode                                     *)
  Codes,      (* link codes                                                  *)
  Documents   (* rows of the documents table                                 *)

ASSUME IdentityAssumption ==
  /\ Browsers \subseteq Externals
  /\ Things = SignIns \cup Codes \cup Documents

VARIABLES
  nonce,      (* connect_tokens rows "challenge:<nonce>"                     *)
  used,       (* link codes with usedAt set                                  *)
  turn,       (* the turn that will write each memory                        *)
  sign,       (* the state of each sign-in                                   *)
  redeem      (* the state of each redemption                                *)

requests == <<nonce, used, turn, sign, redeem>>
vars     == <<tables, requests>>

-----------------------------------------------------------------------------
(* A turn on channel identity x: resolvePerson selects the person ...        *)
TurnStarts(m, x) ==
  /\ turn[m].pc = "idle"
  /\ turn' = [turn EXCEPT ![m] = [pc |-> IF identity[x] = NoOne THEN "missed" ELSE "found",
                                  author |-> x, person |-> identity[x]]]
  /\ UNCHANGED <<tables, nonce, used, sign, redeem>>

(* ... or inserts one.  channel_identity_unique decides between two that     *)
(* both missed: the loser's transaction rolls back and it takes the winner's.*)
TurnCreates(m) ==
  /\ turn[m].pc = "missed"
  /\ \/ /\ identity[turn[m].author] = NoOne
        /\ \E p \in People : /\ Create(turn[m].author, p)
                             /\ turn' = [turn EXCEPT ![m].pc = "found", ![m].person = p]
     \/ /\ identity[turn[m].author] # NoOne
        /\ turn' = [turn EXCEPT ![m].pc = "found", ![m].person = identity[turn[m].author]]
        /\ UNCHANGED tables
  /\ UNCHANGED <<nonce, used, sign, redeem>>

(* indexWrites inserts the memory's row, unless the person is gone by now.   *)
TurnWrites(m) ==
  /\ turn[m].pc = "found"
  /\ IF turn[m].person \in people
       THEN /\ Insert(m, turn[m].person)
            /\ turn' = [turn EXCEPT ![m].pc = "written"]
       ELSE /\ turn' = [turn EXCEPT ![m].pc = "failed"]
            /\ UNCHANGED <<owner, merge>>
  /\ UNCHANGED <<people, born, identity, held, gone, nonce, used, sign, redeem>>

(* recordDocument, by a signed-in person.                                    *)
AddDocument(d, s) ==
  /\ held[d] = NoOne /\ held[s] # NoOne
  /\ held' = [held EXCEPT ![d] = held[s]]
  /\ UNCHANGED <<people, born, identity, owner, merge, gone, requests>>

-----------------------------------------------------------------------------
Challenge(n) ==
  /\ nonce[n] = "none"
  /\ nonce' = [nonce EXCEPT ![n] = "issued"]
  /\ UNCHANGED <<tables, used, turn, sign, redeem>>

(* /api/auth/verify: who this browser is (guest cookie first, else session), *)
(* the nonce is unused, and the signature names the wallet.                  *)
Currents == {identity[x] : x \in Browsers} \cup {held[s] : s \in SignIns} \cup {NoOne}

Verify(s, n, w, p) ==
  /\ sign[s].pc = "idle"
  /\ nonce[n] = "issued"
  /\ p \in Currents
  /\ sign' = [sign EXCEPT ![s] = [pc |-> "verified", nonce |-> n, wallet |-> w, current |-> p,
                                  win |-> NoOne, lose |-> NoOne]]
  /\ UNCHANGED <<tables, nonce, used, turn, redeem>>

(* The update ... where used_at is null returning decides the race.          *)
(* Mutant: what it returned is not looked at.                                *)
Burn_Anyway(s) ==
  /\ sign[s].pc = "verified"
  /\ sign' = [sign EXCEPT ![s].pc = "burned"]
  /\ nonce' = [nonce EXCEPT ![sign[s].nonce] = "used"]
  /\ UNCHANGED <<tables, used, turn, redeem>>

Burn(s) ==
  /\ sign[s].pc = "verified"
  /\ sign' = [sign EXCEPT ![s].pc = IF nonce[sign[s].nonce] = "issued" THEN "burned" ELSE "refused"]
  /\ nonce' = [nonce EXCEPT ![sign[s].nonce] = "used"]
  /\ UNCHANGED <<tables, used, turn, redeem>>

(* personByWallet, then reloadPerson of the browser's person.                *)
Look(s) ==
  /\ sign[s].pc = "burned"
  /\ sign' = [sign EXCEPT ![s].pc = "looked",
                          ![s].win = identity[sign[s].wallet],
                          ![s].current = IF @ \in people THEN @ ELSE NoOne]
  /\ UNCHANGED <<tables, nonce, used, turn, redeem>>

(* chooseSignInTarget: the person to become, and the one to fold into it.    *)
Target(w, p) ==
  CASE w = p \/ p = NoOne     -> <<w, NoOne>>
    [] w = NoOne              -> <<p, NoOne>>
    [] ~HasMemories(p)        -> <<w, p>>
    [] ~HasMemories(w)        -> <<p, w>>
    [] OTHER                  -> <<w, NoOne>>

Weigh(s) ==
  /\ sign[s].pc = "looked"
  /\ LET t == Target(sign[s].win, sign[s].current)
     IN  sign' = [sign EXCEPT ![s].pc = "weighed", ![s].win = t[1], ![s].lose = t[2]]
  /\ UNCHANGED <<tables, nonce, used, turn, redeem>>

(* personIdFor: a merge, which takes several statements, ...                 *)
Becoming(s, p) == sign' = [sign EXCEPT ![s].pc = "became", ![s].win = p]
SignAt(s, pc)  == sign' = [sign EXCEPT ![s].pc = pc]

FoldGuest(s) ==
  /\ sign[s].pc = "weighed" /\ sign[s].lose # NoOne
  /\ LET win == sign[s].win  lose == sign[s].lose
     IN  \/ MergeBegins(win, lose) /\ SignAt(s, "merging")
         \/ MergeSkips(win, lose) /\ UNCHANGED tables /\ SignAt(s, "became")
         \/ MergeFails(win, lose) /\ UNCHANGED tables /\ SignAt(s, "failed")
  /\ UNCHANGED <<nonce, used, turn, redeem>>

GuestFolded(s) ==
  /\ sign[s].pc = "merging"
  /\ \/ MergeEnds(sign[s].lose) /\ SignAt(s, "became")
     \/ MergeRollsBack(sign[s].lose) /\ SignAt(s, "failed")
  /\ UNCHANGED <<nonce, used, turn, redeem>>

(* ... or somebody new, or nothing.                                          *)
Become(s) ==
  /\ sign[s].pc = "weighed" /\ sign[s].lose = NoOne
  /\ LET win == sign[s].win  w == sign[s].wallet
     IN  \/ win # NoOne /\ UNCHANGED tables /\ Becoming(s, win)
         \/ win = NoOne /\ identity[w] = NoOne /\ \E p \in People : Create(w, p) /\ Becoming(s, p)
         \/ win = NoOne /\ identity[w] # NoOne /\ UNCHANGED tables /\ Becoming(s, identity[w])
  /\ UNCHANGED <<nonce, used, turn, redeem>>

AttachWallet(s) ==
  /\ sign[s].pc = "became"
  /\ LET win == sign[s].win  w == sign[s].wallet
     IN  \/ Attach(w, win) /\ sign' = [sign EXCEPT ![s].pc = "attached"]
         \/ AttachFails(w, win) /\ UNCHANGED tables /\ sign' = [sign EXCEPT ![s].pc = "failed"]
  /\ UNCHANGED <<nonce, used, turn, redeem>>

(* reloadPerson, and the web_sessions row.                                   *)
Open(s) ==
  /\ sign[s].pc = "attached"
  /\ IF sign[s].win \in people
       THEN /\ held' = [held EXCEPT ![s] = sign[s].win]
            /\ sign' = [sign EXCEPT ![s].pc = "open"]
       ELSE /\ sign' = [sign EXCEPT ![s].pc = "failed"]
            /\ UNCHANGED held
  /\ UNCHANGED <<people, born, identity, owner, merge, gone, nonce, used, turn, redeem>>

SignOut(s) ==
  /\ held[s] # NoOne
  /\ held' = [held EXCEPT ![s] = NoOne]
  /\ UNCHANGED <<people, born, identity, owner, merge, gone, requests>>

-----------------------------------------------------------------------------
(* createLinkCode, on any channel.                                           *)
MakeCode(c, x) ==
  /\ held[c] = NoOne /\ c \notin used
  /\ identity[x] # NoOne
  /\ held' = [held EXCEPT ![c] = identity[x]]
  /\ UNCHANGED <<people, born, identity, owner, merge, gone, requests>>

(* redeemLinkCode on channel x: the code is read, unused, and not its own ...*)
ReadCode(r, c, x) ==
  /\ redeem[r].pc = "idle"
  /\ held[c] # NoOne /\ c \notin used
  /\ identity[x] \notin {NoOne, held[c]}
  /\ redeem' = [redeem EXCEPT ![r] = [pc |-> "read", code |-> c, issuer |-> held[c],
                                      self |-> identity[x]]]
  /\ UNCHANGED <<tables, nonce, used, turn, sign>>

(* ... the redeemer has no memories ...                                      *)
CheckEmpty(r) ==
  /\ redeem[r].pc = "read"
  /\ redeem' = [redeem EXCEPT ![r].pc = IF HasMemories(redeem[r].self) THEN "refused" ELSE "empty"]
  /\ UNCHANGED <<tables, nonce, used, turn, sign>>

(* ... it is folded into the issuer ...                                      *)
RedeemAt(r, pc) == redeem' = [redeem EXCEPT ![r].pc = pc]

FoldRedeemer(r) ==
  /\ redeem[r].pc = "empty"
  /\ LET win == redeem[r].issuer  lose == redeem[r].self
     IN  \/ MergeBegins(win, lose) /\ RedeemAt(r, "merging")
         \/ MergeSkips(win, lose) /\ UNCHANGED tables /\ RedeemAt(r, "folded")
         \/ MergeFails(win, lose) /\ UNCHANGED tables /\ RedeemAt(r, "failed")
  /\ UNCHANGED <<nonce, used, turn, sign>>

RedeemerFolded(r) ==
  /\ redeem[r].pc = "merging"
  /\ \/ MergeEnds(redeem[r].self) /\ RedeemAt(r, "folded")
     \/ MergeRollsBack(redeem[r].self) /\ RedeemAt(r, "failed")
  /\ UNCHANGED <<nonce, used, turn, sign>>

(* ... and only then is the code marked used, whatever it was before.        *)
BurnCode(r) ==
  /\ redeem[r].pc = "folded"
  /\ redeem' = [redeem EXCEPT ![r].pc = "linked"]
  /\ used' = used \cup {redeem[r].code}
  /\ UNCHANGED <<tables, nonce, turn, sign>>

(* The middle statements of whatever merge is in progress.                   *)
Merges(l) == MergeMoves(l) /\ UNCHANGED requests

-----------------------------------------------------------------------------
NoTurn   == [pc |-> "idle", author |-> NoOne, person |-> NoOne]
NoSignIn == [pc |-> "idle", nonce |-> NoOne, wallet |-> NoOne, current |-> NoOne,
             win |-> NoOne, lose |-> NoOne]
NoRedeem == [pc |-> "idle", code |-> NoOne, issuer |-> NoOne, self |-> NoOne]

Init ==
  /\ PersonsInit
  /\ nonce = [n \in Nonces |-> "none"] /\ used = {}
  /\ turn = [m \in Memories |-> NoTurn]
  /\ sign = [s \in SignIns |-> NoSignIn]
  /\ redeem = [r \in Redeems |-> NoRedeem]

Next ==
  \/ \E m \in Memories : TurnCreates(m) \/ TurnWrites(m)
                         \/ \E x \in Externals : TurnStarts(m, x)
  \/ \E d \in Documents, s \in SignIns : AddDocument(d, s)
  \/ \E n \in Nonces : Challenge(n)
  \/ \E s \in SignIns, n \in Nonces, w \in Wallets, p \in Anyone : Verify(s, n, w, p)
  \/ \E s \in SignIns : Burn(s) \/ Look(s) \/ Weigh(s) \/ FoldGuest(s) \/ GuestFolded(s)
                        \/ Become(s) \/ AttachWallet(s) \/ Open(s) \/ SignOut(s)
  \/ \E c \in Codes, x \in Externals : MakeCode(c, x)
  \/ \E r \in Redeems, c \in Codes, x \in Externals : ReadCode(r, c, x)
  \/ \E r \in Redeems : CheckEmpty(r) \/ FoldRedeemer(r) \/ RedeemerFolded(r) \/ BurnCode(r)
  \/ \E l \in People : Merges(l)

Spec == Init /\ [][Next]_vars

-----------------------------------------------------------------------------
TypeOK ==
  /\ PersonsTypeOK
  /\ nonce \in [Nonces -> {"none", "issued", "used"}]
  /\ used \in SUBSET Codes
  /\ turn \in [Memories -> [pc : {"idle", "missed", "found", "written", "failed"},
                            author : Externals \cup {NoOne}, person : Anyone]]
  /\ sign \in [SignIns -> [pc : {"idle", "verified", "burned", "refused", "looked", "weighed",
                                 "merging", "became", "attached", "open", "failed"},
                           nonce : Nonces \cup {NoOne}, wallet : Wallets \cup {NoOne},
                           current : Anyone, win : Anyone, lose : Anyone]]
  /\ redeem \in [Redeems -> [pc : {"idle", "read", "refused", "empty", "merging", "folded",
                                   "failed", "linked"},
                             code : Codes \cup {NoOne}, issuer : Anyone, self : Anyone]]

(***************************************************************************)
(* One signature opens at most one session, however often it is replayed   *)
(* and however the replays interleave.                                     *)
(***************************************************************************)
Entered(s) == sign[s].pc \notin {"idle", "verified", "refused"}

NonceOpensOnce ==
  \A s, t \in SignIns :
    Entered(s) /\ Entered(t) /\ sign[s].nonce = sign[t].nonce => s = t

(***************************************************************************)
(* However people are folded into one another while turns are running, a   *)
(* memory belongs to whoever the channel it was said on now belongs to: no *)
(* merge strands, loses or misfiles one, or the channel, unless it came to *)
(* a person once a merge of them, still in progress, had been through its  *)
(* table.                                                                  *)
(***************************************************************************)
MemoriesFollowAuthor ==
  \A m \in Memories :
    turn[m].pc = "written" /\ m \notin gone /\ turn[m].author \notin gone
      => owner[m] \in people /\ owner[m] = identity[turn[m].author]

(***************************************************************************)
(* What the program says of itself and does not hold.                      *)
(***************************************************************************)
(* link.ts: "The code is single use".  It links two different people.        *)
Linked(r) == redeem[r].pc \in {"folded", "linked"}

CodeLinksOnePerson ==
  \A r, q \in Redeems :
    Linked(r) /\ Linked(q) /\ redeem[r].code = redeem[q].code
      => redeem[r].self = redeem[q].self

(* link.ts: "Requiring the redeeming side to be empty removes the damage."   *)
RedeemMovesNoMemory == [][\A r \in Redeems :
       redeem[r].pc = "merging" /\ redeem'[r].pc = "folded" => owner' = owner]_vars

(* ARCHITECTURE.md: "If the browser's anonymous person ... has memories,     *)
(* nothing is merged".                                                       *)
GuestWithMemoriesNotMerged ==
  [][\A s \in SignIns :
       sign[s].pc = "merging" /\ sign'[s].pc = "became"
         => ~HasMemories(sign[s].current)]_vars

(* persons.ts: "identities, delegate keys, memory index rows and turn        *)
(* history all move across, ...                                              *)
NothingLeftBehind == gone = {}

(* ... then the empty person is deleted."                                    *)
DeletedPersonIsEmpty ==
  [][\A p \in people \ people' : \A t \in Things : held[t] # p]_vars
=============================================================================
