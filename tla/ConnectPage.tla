---------------------------- MODULE ConnectPage ----------------------------
(***************************************************************************)
(* The page behind a /connect or /disconnect link: it finds the wallet's   *)
(* account, has a transaction sponsored or paid for, and asks hippo to     *)
(* look at the chain (apps/web/src/features/connect/use-connect-flow.ts,   *)
(* sponsor.ts, apps/server/src/routes/connect.ts).                         *)
(*                                                                         *)
(* The page, its nodes, the sponsor, the wallet and hippo answer in steps  *)
(* of their own.  A node may be behind the chain; an answer may be lost    *)
(* after the request was carried out; a transaction said to have failed    *)
(* may land later.  The contract keeps one account per wallet, lists a key *)
(* once, and aborts a transaction that would do either again.              *)
(***************************************************************************)
EXTENDS Naturals

CONSTANTS
  PageWallets,
  Attempts,     \* MAX_ATTEMPTS of a sponsored transaction
  Polls,        \* how often the page looks for a new account
  Confirms,     \* how often it asks hippo to confirm
  MaxFaults     \* how many answers go wrong, in all

ASSUME ConnectPageAssumption ==
  {Attempts, Polls, Confirms} \subseteq Nat \ {0} /\ MaxFaults \in Nat

VARIABLES
  kind,       \* what the link is for
  willing,    \* whether the wallet holds SUI and sends what it is asked to pay for
  ledger,     \* accounts there are, accounts that list hippo's key
  node,       \* what the page's node and hippo's node show of it
  late,       \* transactions reported as failed that may still land
  link,       \* the link: open, used, expired
  memoryMode, \* the person's
  page,       \* the tab
  faults

pageVars == <<kind, willing, ledger, node, late, link, memoryMode, page, faults>>
world == <<kind, willing, ledger, node, late, link, memoryMode>>

Fresh(w) == [at |-> "loading", wallet |-> w, tx |-> "none", attempt |-> 1,
             polls |-> 0, selfPaid |-> FALSE, paid |-> FALSE]

\* One fault of the budget; Fine is an answer that needs none.
Fault == faults < MaxFaults /\ faults' = faults + 1
Fine == UNCHANGED faults

Shows(s) == page.at = s
GoTo(s) == page' = [page EXCEPT !.at = s]

-----------------------------------------------------------------------------
(* The chain                                                               *)

\* What a transaction does, and whether the contract lets it.
Aborts(tx, w) ==
  CASE tx = "create" -> w \in ledger.accounts
    [] tx = "add"    -> w \in ledger.keys
    [] tx = "remove" -> w \notin ledger.keys

After(tx, w) ==
  IF Aborts(tx, w) THEN ledger
  ELSE CASE tx = "create" -> [ledger EXCEPT !.accounts = @ \union {w}]
         [] tx = "add"    -> [ledger EXCEPT !.keys = @ \union {w}]
         [] tx = "remove" -> [ledger EXCEPT !.keys = @ \ {w}]

Lands == ledger' = After(page.tx, page.wallet)

LandsLate ==
  \E t \in late:
    /\ late' = late \ {t}
    /\ ledger' = After(t[1], t[2])
    /\ UNCHANGED <<kind, willing, node, link, memoryMode, page, faults>>

CatchUp(n) ==
  /\ node' = [node EXCEPT ![n] = ledger]
  /\ UNCHANGED <<kind, willing, ledger, late, link, memoryMode, page, faults>>

-----------------------------------------------------------------------------
(* Opening the link                                                        *)

LoadLink ==
  /\ Shows("loading")
  /\ \/ Fine /\ GoTo(IF link = "open" THEN "ready" ELSE "dead")
     \/ Fault /\ GoTo("stuck")
  /\ UNCHANGED world

\* The tab is closed, or reloaded, at any moment, with any wallet.
Reload ==
  /\ ~Shows("loading")
  /\ \/ Fault
     \/ Fine /\ Shows("stuck")
  /\ \E w \in PageWallets: page' = Fresh(w)
  /\ UNCHANGED world

Expire ==
  /\ link = "open"
  /\ link' = "expired"
  /\ UNCHANGED <<kind, willing, ledger, node, late, memoryMode, page, faults>>

\* Mutant: the button does not clear what the last try said about paying.
Run_KeepsSaying ==
  /\ page.at \in {"ready", "error"}
  /\ page' = [page EXCEPT !.at = "find", !.paid = FALSE]
  /\ UNCHANGED <<world, faults>>

\* The button, on a page that is ready or that shows an error.
Run ==
  /\ page.at \in {"ready", "error"}
  /\ page' = [page EXCEPT !.at = "find", !.selfPaid = FALSE, !.paid = FALSE]
  /\ UNCHANGED <<world, faults>>

Submit(tx) == page' = [page EXCEPT !.at = "sponsor", !.tx = tx, !.attempt = 1]

Account == page.wallet \in node.page.accounts

\* findAccountId: a failed read of the registry throws, one of the field is no
\* account.
Find ==
  /\ Shows("find")
  /\ \/ Fine /\ Account /\ Submit(IF kind = "connect" THEN "add" ELSE "remove")
     \/ /\ IF Account THEN Fault ELSE Fine
        /\ IF kind = "connect" THEN Submit("create") ELSE GoTo("error")
     \/ Fault /\ GoTo("error")
  /\ UNCHANGED world

-----------------------------------------------------------------------------
(* sponsorAndExecute                                                       *)

\* What follows the digest of a transaction.
Digest(p) ==
  page' = IF p.tx = "create" THEN [p EXCEPT !.at = "poll", !.polls = 1]
          ELSE [p EXCEPT !.at = "finish", !.polls = 1]

\* 408, 429, 500, 503 and 504 are tried again; anything else that goes wrong
\* ends the sponsored attempts.
TryAgain ==
  IF page.attempt < Attempts
  THEN page' = [page EXCEPT !.at = "sponsor", !.attempt = @ + 1]
  ELSE GoTo("balance")

MayLandLate == late' = late \union {<<page.tx, page.wallet>>}

\* /sponsor: the person signs a message, the sponsor takes the transaction,
\* refuses one that would abort, or does not answer as it should.
Sponsor ==
  /\ Shows("sponsor")
  /\ \/ ~Aborts(page.tx, page.wallet) /\ Fine /\ GoTo("execute")
     \/ Aborts(page.tx, page.wallet) /\ Fine /\ GoTo("balance")
     \/ Fault /\ GoTo("balance")
     \/ Fault /\ TryAgain
  /\ UNCHANGED world

\* The person signs the sponsored transaction and /sponsor/execute sends it.
Execute ==
  /\ Shows("execute")
  /\ \/ Fine /\ Lands /\ Digest(page) /\ UNCHANGED late
     \/ Fault /\ MayLandLate /\ (TryAgain \/ GoTo("balance")) /\ UNCHANGED ledger
     \/ Fault /\ GoTo("balance") /\ UNCHANGED <<ledger, late>>
  /\ UNCHANGED <<kind, willing, node, link, memoryMode>>

\* The fallback.  A balance that cannot be read does not stop it.
Balance ==
  /\ Shows("balance")
  /\ \/ Fine /\ ~willing /\ GoTo("error")
     \/ /\ IF willing THEN Fine ELSE Fault
        /\ page' = [page EXCEPT !.at = "wallet", !.selfPaid = TRUE]
  /\ UNCHANGED world

\* Mutant: the executor throws when the transaction aborted.
PayYourself_Strict ==
  /\ Shows("wallet")
  /\ \/ /\ willing /\ Fine /\ Lands /\ UNCHANGED late
        /\ IF Aborts(page.tx, page.wallet) THEN GoTo("error")
           ELSE Digest([page EXCEPT !.paid = TRUE])
     \/ ~willing /\ Fine /\ GoTo("error") /\ UNCHANGED <<ledger, late>>
     \/ willing /\ Fault /\ GoTo("error") /\ UNCHANGED <<ledger, late>>
     \/ willing /\ Fault /\ GoTo("error") /\ MayLandLate /\ UNCHANGED ledger
  /\ UNCHANGED <<kind, willing, node, link, memoryMode>>

\* The wallet sends it; the executor gives the digest of a transaction that
\* aborted like any other.  Declined, it ends in an error; an answer lost, too,
\* and then the transaction may land.
PayYourself ==
  /\ Shows("wallet")
  /\ \/ willing /\ Fine /\ Lands /\ Digest([page EXCEPT !.paid = TRUE]) /\ UNCHANGED late
     \/ ~willing /\ Fine /\ GoTo("error") /\ UNCHANGED <<ledger, late>>
     \/ willing /\ Fault /\ GoTo("error") /\ UNCHANGED <<ledger, late>>
     \/ willing /\ Fault /\ GoTo("error") /\ MayLandLate /\ UNCHANGED ledger
  /\ UNCHANGED <<kind, willing, node, link, memoryMode>>

-----------------------------------------------------------------------------
(* Afterwards                                                              *)

\* Again, up to a limit, then an error.
Repeat(limit) ==
  page' = IF page.polls < limit THEN [page EXCEPT !.polls = @ + 1]
          ELSE [page EXCEPT !.at = "error"]

Poll ==
  /\ Shows("poll")
  /\ \/ Fine /\ Account /\ Submit("add")
     \/ Fine /\ ~Account /\ Repeat(Polls)
     \/ Fault /\ (Repeat(Polls) \/ GoTo("error"))
  /\ UNCHANGED world

\* What hippo's own read of the account says of its key; a read that fails
\* says that it is not there.
Registered(read) == read /\ page.wallet \in node.hippo.keys \intersect node.hippo.accounts

\* /api/connect/:token/done, and the answer's way back.
Finish ==
  /\ Shows("finish")
  /\ \E read, heard \in BOOLEAN:
       LET agreed == link = "open" /\ Registered(read) = (kind = "connect")
       IN /\ IF read /\ heard THEN Fine ELSE Fault
          /\ link' = IF agreed THEN "used" ELSE link
          /\ memoryMode' = IF ~agreed THEN memoryMode
                           ELSE IF kind = "connect" THEN "owned" ELSE "guest"
          /\ CASE ~heard -> GoTo("error")
               [] heard /\ agreed -> GoTo("done")
               [] heard /\ ~agreed /\ link = "open" -> Repeat(Confirms)
               [] heard /\ link # "open" -> GoTo("error")
  /\ UNCHANGED <<kind, willing, ledger, node, late>>

-----------------------------------------------------------------------------
PageInit ==
  /\ kind \in {"connect", "disconnect"}
  /\ willing \in BOOLEAN
  /\ \E w \in PageWallets, accounts \in SUBSET PageWallets:
       /\ page = Fresh(w)
       /\ ledger = [accounts |-> accounts, keys |-> IF kind = "connect" THEN {} ELSE {w}]
       /\ ledger.keys \subseteq accounts
  /\ node = [page |-> ledger, hippo |-> ledger]
  /\ late = {}
  /\ link = "open"
  /\ memoryMode = IF kind = "connect" THEN "guest" ELSE "owned"
  /\ faults = 0

Flow ==
  \/ LoadLink \/ Find \/ Sponsor \/ Execute \/ Balance \/ PayYourself \/ Poll \/ Finish

PageNext ==
  \/ LoadLink \/ Reload \/ Expire \/ Run \/ Find
  \/ Sponsor \/ Execute \/ Balance \/ PayYourself \/ Poll \/ Finish
  \/ LandsLate
  \/ \E n \in {"page", "hippo"}: CatchUp(n)

\* Requests are answered or fail, a person who is shown an error presses the
\* button again and opens a page that did not load once more, and nodes catch
\* up.  Nothing need land late and no link need expire.
PageSpec ==
  /\ PageInit /\ [][PageNext]_pageVars
  /\ WF_pageVars(Flow) /\ WF_pageVars(Run) /\ WF_pageVars(Fine /\ Reload)
  /\ \A n \in {"page", "hippo"}: WF_pageVars(CatchUp(n))

-----------------------------------------------------------------------------
(* Properties                                                              *)

\* The last screen tells the truth: hippo agreed that this link is used, and
\* the page says that the wallet paid exactly when it did (connect-page.tsx).
\* The code for it is spread over three files, two earlier tries of the same
\* tab, and answers that were lost.
PageIsTrue ==
  Shows("done") => link = "used" /\ page.selfPaid = page.paid

\* A transaction that landed is confirmed in the end, whatever was lost on the
\* way, by a person who keeps pressing the button: the page asks for the same
\* transaction again, the sponsor refuses it, the wallet sends it, it aborts,
\* and the page takes its digest and asks hippo again.  It takes a wallet
\* that will do that, one that has an account, and a link that has not expired.
Landed == (page.wallet \in ledger.keys) = (kind = "connect")

ConfirmedAtLast ==
  (Landed /\ willing) ~> (link # "open" \/ page.wallet \notin ledger.accounts)

-----------------------------------------------------------------------------
(* What the code and its words promise and do not keep                     *)

\* "The transaction landed but confirmation kept failing. Try the link again."
TryingAgainHelps == Landed ~> (link # "open" \/ page.wallet \notin ledger.accounts)

\* "This removes hippo's key from your account on chain."
RevokedIsRemoved == Shows("done") /\ kind = "disconnect" => ledger.keys = {}

=============================================================================
