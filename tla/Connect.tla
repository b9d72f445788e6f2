------------------------------- MODULE Connect -------------------------------
(***************************************************************************)
(* Taking ownership and giving it up: connect/tokens.ts mints a delegate   *)
(* key and a token, the browser's wallet registers or removes the key on   *)
(* its MemWalAccount, and /api/connect/:token/done (routes/connect.ts)     *)
(* reads the account and commits.  Every await in the handler, or in a     *)
(* merge, is a point where another request, a wallet or another merge may  *)
(* step in.  A row whose person goes is gone with its secret.  The chain is*)
(* external: each wallet owns one account, named here by its wallet, with  *)
(* a set of delegate keys; a read of it may fail, which readAccount turns  *)
(* into null.                                                              *)
(***************************************************************************)
EXTENDS Persons

CONSTANTS
  Tokens,     (* rows of connect_tokens                                      *)
  Dones       (* calls of /done                                              *)

ASSUME ConnectAssumption == Things = Tokens

VARIABLES
  status,     (* delegate_keys.status, the last one when the row is gone     *)
  secret,     (* keys whose private key hippo still holds                    *)
  token,      (* each token's kind, key and used_at                          *)
  mode,       (* people.mode                                                 *)
  account,    (* people.account_id                                           *)
  chain,      (* the delegate keys registered on each account                *)
  granted,    (* history: the grants a wallet ever signed                    *)
  done,       (* the state of each call of /done                             *)
  inTurn      (* history: no other callback, sign-in or merge ever came in   *)
              (* between two statements of a callback                        *)

keys == <<status, secret>>
vars == <<tables, keys, token, mode, account, chain, granted, done, inTurn>>

InProgress(d) == done[d].pc \in {"loaded", "verified", "split", "folding", "commit"}

Disturbs == inTurn' = (inTurn /\ ~\E d \in Dones : InProgress(d))

-----------------------------------------------------------------------------
(* A first message on a channel.                                             *)
Arrive(x, p) ==
  /\ identity[x] = NoOne
  /\ Create(x, p)
  /\ UNCHANGED <<keys, token, mode, account, chain, granted, done, inTurn>>

(* A wallet sign-in that attaches the address to whoever the browser is.     *)
SignIn(p, w) ==
  /\ p \in people
  /\ identity[w] = NoOne
  /\ Attach(w, p)
  /\ Disturbs
  /\ UNCHANGED <<keys, token, mode, account, chain, granted, done>>

(* A merge ends; the winner keeps its mode and account, and what went with   *)
(* the loser is nobody's any more.                                           *)
Folded(l) ==
  /\ MergeEnds(l)
  /\ secret' = {k \in secret : owner'[k] # NoOne}
  /\ UNCHANGED status

(* A link code redeemed elsewhere, or a sign-in, folds l into w.  A merge is *)
(* seen when it ends.                                                        *)
LinkBegins(w, l) ==
  /\ MergeBegins(w, l)
  /\ UNCHANGED <<keys, token, mode, account, chain, granted, done, inTurn>>

ByCallback(l) == \E d \in Dones : done[d].pc = "folding" /\ done[d].person = l

LinkEnds(l) ==
  /\ ~ByCallback(l)
  /\ Folded(l)
  /\ Disturbs
  /\ UNCHANGED <<token, mode, account, chain, granted, done>>

LinkRollsBack(l) ==
  /\ ~ByCallback(l)
  /\ MergeRollsBack(l)
  /\ UNCHANGED <<keys, token, mode, account, chain, granted, done, inTurn>>

(* The middle statements of whatever merge is in progress.                   *)
Merges(l) ==
  /\ MergeMoves(l)
  /\ UNCHANGED <<keys, token, mode, account, chain, granted, done, inTurn>>

(* startConnect: a pending key and its token, in one transaction.            *)
StartConnect(t, k, p) ==
  /\ token[t].kind = "none" /\ status[k] = "none"
  /\ Insert(k, p)
  /\ status' = [status EXCEPT ![k] = "pending"]
  /\ secret' = secret \cup {k}
  /\ held' = [held EXCEPT ![t] = p]
  /\ token' = [token EXCEPT ![t] = [kind |-> "connect", key |-> k, used |-> FALSE]]
  /\ UNCHANGED <<people, born, identity, gone, mode, account, chain, granted, done, inTurn>>

(* startDisconnect: a token for one of the person's active keys, whichever   *)
(* the query returns.                                                        *)
StartDisconnect(t, k, p) ==
  /\ p \in people
  /\ token[t].kind = "none"
  /\ owner[k] = p /\ status[k] = "active"
  /\ held' = [held EXCEPT ![t] = p]
  /\ token' = [token EXCEPT ![t] = [kind |-> "disconnect", key |-> k, used |-> FALSE]]
  /\ UNCHANGED <<people, born, identity, owner, merge, gone, keys, mode, account, chain, granted,
                 done, inTurn>>

(* External: the wallet signs add_delegate_key for a key it was shown, or    *)
(* remove_delegate_key.                                                      *)
Grant(k, a) ==
  /\ status[k] = "pending" /\ <<k, a>> \notin granted
  /\ chain' = [chain EXCEPT ![a] = @ \cup {k}]
  /\ granted' = granted \cup {<<k, a>>}
  /\ UNCHANGED <<tables, keys, token, mode, account, done, inTurn>>

Revoke(k, a) ==
  /\ k \in chain[a]
  /\ chain' = [chain EXCEPT ![a] = @ \ {k}]
  /\ UNCHANGED <<tables, keys, token, mode, account, granted, done, inTurn>>

-----------------------------------------------------------------------------
At(d, pc) == done[d].pc = pc
Go(d, pc) == done' = [done EXCEPT ![d].pc = pc]

NoDone == [pc |-> "idle", token |-> NoOne, account |-> NoOne, person |-> NoOne,
           wallet |-> NoOne, into |-> NoOne]
Over(d) == done' = [done EXCEPT ![d] = [NoDone EXCEPT !.pc = "over"]]

Kind(d) == token[done[d].token].kind
Key(d)  == token[done[d].token].key

(* loadToken and the key it names; the account id comes from the request.    *)
Load(d, t, a) ==
  /\ At(d, "idle")
  /\ held[t] # NoOne /\ ~token[t].used
  /\ done' = [done EXCEPT ![d] = [pc |-> "loaded", token |-> t, account |-> a,
                                  person |-> held[t], wallet |-> NoOne, into |-> NoOne]]
  /\ Disturbs
  /\ UNCHANGED <<tables, keys, token, mode, account, chain, granted>>

(* readAccount: `seen` is FALSE when the read fails.  A key that is not      *)
(* there refuses a connect, a key that is there refuses a disconnect (409).  *)
(* Mutant: the callback is believed.                                         *)
Read_Trusting(d, seen) ==
  /\ At(d, "loaded")
  /\ done' = [done EXCEPT ![d].pc = "verified", ![d].wallet = done[d].account]
  /\ UNCHANGED <<tables, keys, token, mode, account, chain, granted, inTurn>>

Read(d, seen) ==
  /\ At(d, "loaded")
  /\ LET a == done[d].account
         registered == seen /\ Key(d) \in chain[a]
     IN  IF registered = (Kind(d) = "connect")
           THEN done' = [done EXCEPT ![d].pc = "verified", ![d].wallet = IF seen THEN a ELSE NoOne]
           ELSE Over(d)
  /\ UNCHANGED <<tables, keys, token, mode, account, chain, granted, inTurn>>

(* personByWallet: does the wallet belong to somebody else?                  *)
(* Mutant: nobody is folded into anybody.                                    *)
LookUp_Split(d) ==
  /\ At(d, "verified") /\ Kind(d) = "connect"
  /\ Go(d, "commit")
  /\ UNCHANGED <<tables, keys, token, mode, account, chain, granted, inTurn>>

LookUp(d) ==
  /\ At(d, "verified") /\ Kind(d) = "connect"
  /\ LET q == identity[done[d].wallet]
     IN  IF q \in {NoOne, done[d].person}
           THEN Go(d, "commit")
           ELSE done' = [done EXCEPT ![d].pc = "split", ![d].into = q]
  /\ UNCHANGED <<tables, keys, token, mode, account, chain, granted, inTurn>>

(* mergePersons, and on with them.                                           *)
GoOn(d) == done' = [done EXCEPT ![d].pc = "commit", ![d].person = done[d].into,
                                 ![d].into = NoOne]

FoldBegins(d) ==
  /\ At(d, "split")
  /\ LET q == done[d].into  p == done[d].person
     IN  \/ MergeBegins(q, p) /\ Go(d, "folding")
         \/ MergeSkips(q, p) /\ UNCHANGED tables /\ GoOn(d)
         \/ MergeFails(q, p) /\ UNCHANGED tables /\ Over(d)
  /\ UNCHANGED <<keys, token, mode, account, chain, granted, inTurn>>

FoldEnds(d) ==
  /\ At(d, "folding")
  /\ Folded(done[d].person) /\ GoOn(d)
  /\ UNCHANGED <<token, mode, account, chain, granted, inTurn>>

MarkUsed(d) == token' = [token EXCEPT ![done[d].token].used = TRUE]

(* The connect transaction, which waits for a merge that has moved the key.  *)
(* An update of a key or a person who is gone matches nothing; the insert of *)
(* their wallet identity fails the transaction.                              *)
CommitConnect(d) ==
  /\ At(d, "commit") /\ ~Locked(Key(d))
  /\ LET p == done[d].person  w == done[d].wallet  k == Key(d)
     IN  IF AttachFails(w, p)
           THEN Over(d) /\ UNCHANGED <<tables, status, token, mode, account>>
           ELSE /\ status' = [status EXCEPT ![k] = IF owner[k] # NoOne THEN "active" ELSE @]
                /\ mode' = [mode EXCEPT ![p] = IF p \in people THEN "owned" ELSE @]
                /\ account' = [account EXCEPT ![p] = IF p \in people THEN done[d].account ELSE @]
                /\ Attach(w, p)
                /\ MarkUsed(d) /\ Go(d, "connected")
  /\ UNCHANGED <<secret, chain, granted, inTurn>>

(* The disconnect transaction: the key is destroyed, the person stands down. *)
CommitDisconnect(d) ==
  /\ At(d, "verified") /\ Kind(d) = "disconnect" /\ ~Locked(Key(d))
  /\ status' = [status EXCEPT ![Key(d)] = IF owner[Key(d)] # NoOne THEN "revoked" ELSE @]
  /\ secret' = secret \ {Key(d)}
  /\ mode' = [mode EXCEPT ![done[d].person] = IF @ = "owned" THEN "guest" ELSE @]
  /\ MarkUsed(d) /\ Go(d, "disconnected")
  /\ UNCHANGED <<tables, account, chain, granted, inTurn>>

(* The server restarts in the middle of a callback.                          *)
Abandon(d) ==
  /\ InProgress(d)
  /\ IF At(d, "folding") THEN MergeRollsBack(done[d].person) ELSE UNCHANGED tables
  /\ Over(d)
  /\ UNCHANGED <<keys, token, mode, account, chain, granted, inTurn>>

-----------------------------------------------------------------------------
NoToken == [kind |-> "none", key |-> NoOne, used |-> FALSE]

Init ==
  /\ PersonsInit
  /\ status = [k \in Keys |-> "none"] /\ secret = {}
  /\ token = [t \in Tokens |-> NoToken]
  /\ mode = [p \in People |-> "guest"] /\ account = [p \in People |-> NoOne]
  /\ chain = [w \in Wallets |-> {}] /\ granted = {}
  /\ done = [d \in Dones |-> NoDone] /\ inTurn = TRUE

Next ==
  \/ \E x \in Externals, p \in People : Arrive(x, p)
  \/ \E p \in People, w \in Wallets : SignIn(p, w)
  \/ \E w, l \in People : LinkBegins(w, l)
  \/ \E l \in People : LinkEnds(l) \/ LinkRollsBack(l) \/ Merges(l)
  \/ \E t \in Tokens, k \in Keys, p \in People : StartConnect(t, k, p) \/ StartDisconnect(t, k, p)
  \/ \E k \in Keys, a \in Wallets : Grant(k, a) \/ Revoke(k, a)
  \/ \E d \in Dones, t \in Tokens, a \in Wallets : Load(d, t, a)
  \/ \E d \in Dones, seen \in BOOLEAN : Read(d, seen)
  \/ \E d \in Dones : LookUp(d) \/ FoldBegins(d) \/ FoldEnds(d) \/ CommitConnect(d)
                      \/ CommitDisconnect(d) \/ Abandon(d)

Spec == Init /\ [][Next]_vars

-----------------------------------------------------------------------------
TypeOK ==
  /\ PersonsTypeOK
  /\ status \in [Keys -> {"none", "pending", "active", "revoked"}]
  /\ secret \in SUBSET Keys
  /\ token \in [Tokens -> [kind : {"none", "connect", "disconnect"}, key : Keys \cup {NoOne},
                           used : BOOLEAN]]
  /\ mode \in [People -> {"guest", "owned"}]
  /\ account \in [People -> Wallets \cup {NoOne}]
  /\ chain \in [Wallets -> SUBSET Keys]
  /\ granted \in SUBSET (Keys \X Wallets)
  /\ done \in [Dones -> [pc : {"idle", "loaded", "verified", "split", "folding", "commit",
                               "connected", "disconnected", "over"},
                         token : Tokens \cup {NoOne}, account : Wallets \cup {NoOne},
                         person : Anyone, wallet : Wallets \cup {NoOne}, into : Anyone]]
  /\ inTurn \in BOOLEAN

(***************************************************************************)
(* A callback alone opens nothing: whoever is in owned mode is there       *)
(* because the wallet that owns that account did sign hippo's key onto it. *)
(***************************************************************************)
OwnedWasGranted ==
  \A p \in people : mode[p] = "owned" => \E k \in Keys : <<k, account[p]>> \in granted

(***************************************************************************)
(* No merge loses a credential: every key ever minted that no disconnect   *)
(* has destroyed is one hippo still holds, for somebody who can use it or  *)
(* revoke it, unless it came to a person once a merge of them, still in    *)
(* progress, had been through the keys.  Such a one may stay on a wallet's *)
(* account with nobody to revoke it.                                       *)
(***************************************************************************)
Destroyed(k) == \E d \in Dones : At(d, "disconnected") /\ Key(d) = k

SecretHasOwner ==
  \A k \in Keys \ gone :
    status[k] # "none" /\ ~Destroyed(k) => k \in secret /\ owner[k] \in people

(* ARCHITECTURE.md: "The connect token is single-use".                       *)
Committed(d) == done[d].pc \in {"connected", "disconnected"}

TokenCommitsOnce ==
  \A d, e \in Dones : Committed(d) /\ Committed(e) /\ done[d].token = done[e].token => d = e

(* routes/connect.ts: "fold the two together so the memory follows them      *)
(* rather than splitting in half": one wallet, one owner of its account.     *)
OneOwnerPerAccount ==
  \A p, q \in people :
    mode[p] = "owned" /\ mode[q] = "owned" /\ account[p] = account[q] => p = q

(* persons.ts, portFor: somebody in owned mode for whom it finds no key is    *)
(* given the guest memory, and is not told.                                  *)
OwnedHasKey ==
  \A p \in people : mode[p] = "owned" =>
    \E k \in secret : owner[k] = p /\ status[k] = "active" /\ <<k, account[p]>> \in granted

(***************************************************************************)
(* All three hold as long as no callback had another callback, a sign-in   *)
(* or a merge between two of its statements, whatever failed or was        *)
(* abandoned, in whatever order people signed in, linked, connected, and   *)
(* connected again.  The transaction repeats none of the checks, so none   *)
(* of them holds without.                                                  *)
(***************************************************************************)
CallbackInTurn == inTurn => TokenCommitsOnce /\ OneOwnerPerAccount /\ OwnedHasKey

(***************************************************************************)
(* What the program says of itself and does not hold.                      *)
(***************************************************************************)
(* README.md: "hippo deletes its own copy at once": somebody who has         *)
(* disconnected leaves hippo no active key of theirs.                        *)
DisconnectedLeavesNoKey ==
  \A d \in Dones :
    At(d, "disconnected") /\ mode[done[d].person] = "guest"
      => \A k \in secret : owner[k] = done[d].person => status[k] # "active"

(* routes/connect.ts: "the key must be gone from the account before we stand *)
(* down."                                                                    *)
RevokedIsGone == \A k \in Keys, a \in Wallets : status[k] = "revoked" => k \notin chain[a]

(* routes/connect.ts: an update that would "silently match nothing and leave *)
(* the user in guest mode" never happens: { ok: true, mode: "owned" } means  *)
(* that the wallet's person is in owned mode.                                *)
ConnectedMeansOwned ==
  [][\A d \in Dones :
       ~At(d, "connected") /\ At(d, "connected")'
         => mode'[identity'[done[d].wallet]] = "owned"]_vars

=============================================================================
