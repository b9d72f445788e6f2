------------------------------- MODULE WebMemory -------------------------------
(***************************************************************************)
(* What the chat page of one browser tab says about memory: the cards of   *)
(* apps/web/src/features/chat (use-remembered.ts from the tool results of  *)
(* this visit, use-chat-memories.ts from the server's list, merged into    *)
(* one panel) and the memory switch of features/me/use-me.ts.  A click or  *)
(* an arriving response, with the renders and effects it causes, is one    *)
(* step; the server reads or writes between a request and its response.    *)
(* A fetch whose effect was cancelled is dropped, as nothing it brings is  *)
(* heard.                                                                  *)
(***************************************************************************)
EXTENDS Naturals

CONSTANTS
  Fact,         (* the facts that may be written while the page is open       *)
  Scenarios     (* bounds: the facts that are, those a tool result tells of,  *)
                (* clicks, messages and failures, and whether the switch is   *)
                (* followed                                                   *)

ASSUME MemoryAssumption ==
  Scenarios \subseteq [facts : SUBSET Fact, told : SUBSET Fact, events : Nat, switch : BOOLEAN]

VARIABLES
  scenario,     (* fixed at the start                                         *)
  rowStatus, hid, (* memory_index: status by fact, and the facts hidden       *)
  enabled,      (* people.memory_enabled                                      *)
  ask,          (* the message being answered: "none", "sent", "done"         *)
  busy,         (* the page waits for an answer                               *)
  tool, over,   (* useRemembered: its cards, and what its polls and hides say *)
  cards, loads, (* useChatMemories: its cards, and the fetch it waits for     *)
  settled,      (* ... the facts that made it load again                      *)
  polls,        (* status fetches of the two hooks                            *)
  aged,         (* cards looked at for two minutes                            *)
  hides,        (* POST visibility, on its way or back                        *)
  me, mes,      (* useMe: the switch as shown, and the fetches                *)
  toggle,       (* useMemoryToggle: POST memory, on its way or back           *)
  events, lost, (* history: a request failed or was not waited for            *)
  concealed     (* history: facts hidden on this page                         *)

server == <<rowStatus, hid, enabled, ask>>
thread == <<tool, over>>
list   == <<cards, loads, settled>>
switch == <<me, mes, toggle>>
history == <<scenario, events, lost, concealed>>
panelVars == <<server, busy, thread, list, polls, aged, hides, switch, history>>

Card(status, hidden) == [status |-> status, hidden |-> hidden]
Extend(f, k, v) == [x \in DOMAIN f \cup {k} |-> IF x = k THEN v ELSE f[x]]
Hook == {"thread", "list"}

(* A hook's cards; a tool result is pending until a poll says otherwise.     *)
CardsOf(h) ==
  IF h = "list" THEN cards
  ELSE [f \in tool |-> IF f \in DOMAIN over THEN over[f] ELSE Card("pending", FALSE)]

(* mergeCards: the list's card wins, and hidden is kept.                     *)
Panel ==
  LET mine == CardsOf("thread") IN
  [f \in tool \cup DOMAIN cards |->
     IF f \notin DOMAIN cards THEN mine[f]
     ELSE [cards[f] EXCEPT !.hidden = @ \/ (f \in tool /\ mine[f].hidden)]]

(* keepPolling.                                                              *)
Pending(c) == {f \in DOMAIN c : c[f].status = "pending" /\ ~c[f].hidden}

Event == events < scenario.events /\ events' = events + 1 /\ UNCHANGED scenario
Click == Event /\ UNCHANGED <<lost, concealed>>
PanelFault == Event /\ lost' = TRUE /\ UNCHANGED concealed

-----------------------------------------------------------------------------
(* Effects.                                                                  *)
Fetch == [read |-> FALSE, got |-> <<>>]
LoadAgain == loads' = {Fetch} /\ UNCHANGED <<cards, settled>>

(* loadMe: the ticket makes this fetch the one that counts.                  *)
MeFetch == [latest |-> TRUE, read |-> FALSE, got |-> "unknown"]
LoadMe ==
  /\ mes' = {x \in {MeFetch} : scenario.switch} \cup {[m EXCEPT !.latest = FALSE] : m \in mes}
  /\ UNCHANGED me

-----------------------------------------------------------------------------
(* What the person does.                                                     *)
Ask ==
  /\ ~busy /\ ask = "none" /\ Click
  /\ ask' = "sent" /\ busy' = TRUE
  /\ UNCHANGED <<rowStatus, hid, enabled, thread, list, polls, aged, hides, switch>>

(* The server answers; the message may be /memory on or off.                 *)
Serve ==
  /\ ask = "sent" /\ ask' = IF busy THEN "done" ELSE "none"
  /\ enabled' \in {enabled} \cup {s \in {"on", "off"} : scenario.switch}
  /\ UNCHANGED <<rowStatus, hid, busy, thread, list, polls, aged, hides, switch, history>>

(* The answer ends, or is stopped: the list and the switch are read again.   *)
Idle == busy' = FALSE /\ LoadAgain /\ LoadMe
        /\ UNCHANGED <<rowStatus, hid, enabled, thread, polls, aged, hides, toggle>>
AnswerEnds == busy /\ ask = "done" /\ ask' = "none" /\ Idle /\ UNCHANGED history
Stop == busy /\ ask = "sent" /\ Idle /\ PanelFault /\ UNCHANGED ask

(* A tool result, or the reply to the remember dialog.                       *)
Remembered(f) ==
  /\ f \in scenario.told \ tool /\ rowStatus[f] # "none"
  /\ tool' = tool \cup {f}
  /\ UNCHANGED <<server, busy, over, list, polls, aged, hides, switch, history>>

(* Only a card with a blob can be hidden.                                    *)
Hide(f) ==
  /\ f \in DOMAIN Panel /\ Panel[f] = Card("stored", FALSE) /\ Click
  /\ hides' = hides \cup {[fact |-> f, done |-> FALSE]}
  /\ UNCHANGED <<server, busy, thread, list, polls, aged, switch>>

HideHeard(h) ==
  /\ h.done /\ hides' = hides \ {h}
  /\ LET f == h.fact IN
       /\ over' = Extend(over, f,
                    Card(IF f \in DOMAIN over THEN over[f].status ELSE "pending", TRUE))
       /\ cards' = [g \in DOMAIN cards |-> IF g = f THEN [cards[g] EXCEPT !.hidden = TRUE]
                                                    ELSE cards[g]]
       /\ concealed' = concealed \cup {f}
  /\ polls' = {p \in polls : p.fact # h.fact}
  /\ UNCHANGED <<server, busy, tool, loads, settled, aged, switch, scenario, events, lost>>

(* The switch under the composer, when it is known and not being changed.    *)
Toggle ==
  /\ me # "unknown" /\ toggle.stage = "none" /\ Click
  /\ toggle' = [stage |-> "sent", to |-> IF me = "on" THEN "off" ELSE "on"]
  /\ UNCHANGED <<server, busy, thread, list, polls, aged, hides, me, mes>>

ToggleHeard ==
  /\ toggle.stage = "back"
  /\ toggle' = [toggle EXCEPT !.stage = "none"] /\ LoadMe
  /\ UNCHANGED <<server, busy, thread, list, polls, aged, hides, history>>

(* The page is loaded again.  Tool results are not in the transcript.        *)
Reload ==
  /\ Event
  /\ lost' = (lost \/ busy \/ toggle.stage = "sent" \/ hides # {})
  /\ busy' = FALSE /\ ask' = IF ask = "done" THEN "none" ELSE ask
  /\ tool' = {} /\ over' = <<>>
  /\ cards' = <<>> /\ loads' = {Fetch} /\ settled' = {}
  /\ polls' = {} /\ aged' = {} /\ hides' = {} /\ concealed' = {}
  /\ me' = "unknown" /\ mes' = {x \in {MeFetch} : scenario.switch}
  /\ toggle' = [stage |-> "none", to |-> "on"]
  /\ UNCHANGED <<rowStatus, hid, enabled>>

-----------------------------------------------------------------------------
(* The server.                                                               *)
Served == UNCHANGED <<busy, thread, list, polls, aged, hides, switch, history>>
Write(f) ==
  /\ f \in scenario.facts /\ rowStatus[f] = "none"
  /\ rowStatus' = [rowStatus EXCEPT ![f] = "pending"]
  /\ Served /\ UNCHANGED <<hid, enabled, ask>>
Settle(f) ==
  /\ rowStatus[f] = "pending"
  /\ \E s \in {"stored", "failed"} : rowStatus' = [rowStatus EXCEPT ![f] = s]
  /\ Served /\ UNCHANGED <<hid, enabled, ask>>

(* setHidden.  Another page may undo it.                                     *)
ServerHides(h) ==
  /\ ~h.done /\ hid' = hid \cup {h.fact}
  /\ hides' = (hides \ {h}) \cup {[h EXCEPT !.done = TRUE]}
  /\ UNCHANGED <<rowStatus, enabled, ask, busy, thread, list, polls, aged, switch, history>>
Unhide(f) ==
  /\ f \in hid /\ Click /\ hid' = hid \ {f}
  /\ UNCHANGED <<rowStatus, enabled, ask, busy, thread, list, polls, aged, hides, switch>>

SetMemory ==
  /\ toggle.stage = "sent"
  /\ enabled' = toggle.to /\ toggle' = [toggle EXCEPT !.stage = "back"]
  /\ UNCHANGED <<rowStatus, hid, ask, busy, thread, list, polls, aged, hides, me, mes, history>>

(* memoriesForChat, writeStatus and /api/me read.                            *)
Now(f) == Card(rowStatus[f], f \in hid)
ReadList(l) ==
  /\ ~l.read
  /\ loads' = {[read |-> TRUE, got |-> [f \in {g \in Fact : rowStatus[g] # "none"} |-> Now(f)]]}
  /\ UNCHANGED <<server, busy, thread, cards, settled, polls, aged, hides, switch, history>>
ReadStatus(p) ==
  /\ ~p.read
  /\ polls' = (polls \ {p}) \cup {[p EXCEPT !.read = TRUE, !.got = Now(p.fact)]}
  /\ UNCHANGED <<server, busy, thread, list, aged, hides, switch, history>>
ReadMe(m) ==
  /\ ~m.read
  /\ mes' = (mes \ {m}) \cup {[m EXCEPT !.read = TRUE, !.got = enabled]}
  /\ UNCHANGED <<server, busy, thread, list, polls, aged, hides, me, toggle, history>>

-----------------------------------------------------------------------------
(* What the page hears.                                                      *)
(* mergeLoadedCards: what was stored stays so, and what was hidden.          *)
Merged(old, new) ==
  Card(IF old.status = "stored" /\ new.status = "pending" THEN "stored" ELSE new.status,
       old.hidden \/ new.hidden)

(* The list arrives; its pending cards have two minutes from now.            *)
(* Mutant: it takes the place of the cards shown.                            *)
Loaded_Replaces(l) ==
  /\ l.read /\ loads' = {} /\ cards' = l.got
  /\ polls' = {p \in polls : p.hook # "list"} /\ aged' = {a \in aged : a[1] # "list"}
  /\ UNCHANGED <<server, busy, thread, settled, hides, switch, history>>

Loaded(l) ==
  /\ l.read /\ loads' = {}
  /\ cards' = [f \in DOMAIN l.got |->
                 IF f \in DOMAIN cards THEN Merged(cards[f], l.got[f]) ELSE l.got[f]]
  /\ polls' = {p \in polls : p.hook # "list"} /\ aged' = {a \in aged : a[1] # "list"}
  /\ UNCHANGED <<server, busy, thread, settled, hides, switch, history>>

LoadFails ==
  /\ loads # {} /\ PanelFault /\ loads' = {} /\ cards' = <<>>
  /\ polls' = {p \in polls : p.hook # "list"}
  /\ UNCHANGED <<server, busy, thread, settled, aged, hides, switch>>

(* A tick asks for every pending card that is not two minutes old.  Mutant:  *)
(* one that is stops the timer for all.                                      *)
Poll_AllDue(h, f) ==
  /\ f \in Pending(CardsOf(h)) /\ \A g \in Fact : <<h, g>> \notin aged
  /\ {p \in polls : p.hook = h /\ p.fact = f} = {}
  /\ polls' = polls \cup {[hook |-> h, fact |-> f, read |-> FALSE, got |-> Card("none", FALSE)]}
  /\ UNCHANGED <<server, busy, thread, list, aged, hides, switch, history>>

Poll(h, f) ==
  /\ f \in Pending(CardsOf(h)) /\ <<h, f>> \notin aged
  /\ {p \in polls : p.hook = h /\ p.fact = f} = {}
  /\ polls' = polls \cup {[hook |-> h, fact |-> f, read |-> FALSE, got |-> Card("none", FALSE)]}
  /\ UNCHANGED <<server, busy, thread, list, aged, hides, switch, history>>

(* The status of a write.  The list is read again when it says stored for    *)
(* the first time.                                                           *)
HeardThread(p) ==
  /\ p.hook = "thread" /\ p.read
  /\ over' = Extend(over, p.fact,
               Card(p.got.status, p.got.hidden \/ (p.fact \in DOMAIN over /\ over[p.fact].hidden)))
  /\ polls' = IF p.got = Card("pending", FALSE) THEN polls \ {p}
              ELSE {q \in polls : q.hook # "thread"}
  /\ UNCHANGED <<server, busy, tool, list, aged, hides, switch, history>>

HeardList(p) ==
  /\ p.hook = "list" /\ p.read
  /\ cards' = [cards EXCEPT ![p.fact] = Card(p.got.status, @.hidden \/ p.got.hidden)]
  /\ polls' = IF p.got = Card("pending", FALSE) THEN polls \ {p}
              ELSE {q \in polls : q.hook # "list"}
  /\ IF p.got.status = "stored" /\ p.fact \notin settled
       THEN settled' = settled \cup {p.fact} /\ loads' = {Fetch} /\ LoadMe
       ELSE UNCHANGED <<settled, loads, me, mes>>
  /\ UNCHANGED <<server, busy, thread, aged, hides, toggle, history>>

(* A card is two minutes old, which a render may notice.                     *)
Age(h, f) ==
  /\ f \in Pending(CardsOf(h)) /\ <<h, f>> \notin aged
  /\ aged' = aged \cup {<<h, f>>}
  /\ polls' \in {polls, {p \in polls : p.hook # h}}
  /\ UNCHANGED <<server, busy, thread, list, hides, switch, history>>

(* /api/me.  Mutant: whichever was asked for.                                *)
GotMe_Late(m) ==
  /\ m.read /\ mes' = mes \ {m} /\ me' = m.got
  /\ UNCHANGED <<server, busy, thread, list, polls, aged, hides, toggle, history>>

GotMe(m) ==
  /\ m.read /\ mes' = mes \ {m}
  /\ me' = IF m.latest THEN m.got ELSE me
  /\ UNCHANGED <<server, busy, thread, list, polls, aged, hides, toggle, history>>

(* A request fails: a poll, a hide, the switch, /api/me.                     *)
Fails ==
  /\ PanelFault
  /\ \/ \E p \in polls : polls' = polls \ {p} /\ UNCHANGED <<hides, toggle, mes>>
     \/ \E h \in hides : hides' = hides \ {h} /\ UNCHANGED <<polls, toggle, mes>>
     \/ \E m \in mes : mes' = mes \ {m} /\ UNCHANGED <<polls, hides, toggle>>
     \/ /\ toggle.stage # "none" /\ toggle' = [toggle EXCEPT !.stage = "none"]
        /\ UNCHANGED <<polls, hides, mes>>
  /\ UNCHANGED <<server, busy, thread, list, aged, me>>

-----------------------------------------------------------------------------
PanelInit ==
  /\ scenario \in Scenarios
  /\ rowStatus = [f \in Fact |-> "none"] /\ hid = {} /\ enabled = "on"
  /\ ask = "none" /\ busy = FALSE
  /\ tool = {} /\ over = <<>>
  /\ cards = <<>> /\ loads = {Fetch} /\ settled = {} /\ polls = {} /\ aged = {} /\ hides = {}
  /\ me = "unknown" /\ mes = {x \in {MeFetch} : scenario.switch}
  /\ toggle = [stage |-> "none", to |-> "on"]
  /\ events = 0 /\ lost = FALSE /\ concealed = {}

Listing == \E l \in loads : ReadList(l) \/ Loaded(l)
Polling(h, f) == \E p \in polls :
  p.hook = h /\ p.fact = f /\ (ReadStatus(p) \/ HeardThread(p) \/ HeardList(p))
PanelNext ==
  \/ Ask \/ Serve \/ AnswerEnds \/ Stop \/ Toggle \/ SetMemory \/ ToggleHeard \/ Reload
  \/ \E f \in Fact : Write(f) \/ Settle(f) \/ Remembered(f) \/ Hide(f) \/ Unhide(f)
  \/ \E h \in hides : ServerHides(h) \/ HideHeard(h)
  \/ \E h \in Hook, f \in Fact : Poll(h, f) \/ Polling(h, f) \/ Age(h, f)
  \/ Listing
  \/ \E m \in mes : ReadMe(m) \/ GotMe(m)
  \/ LoadFails \/ Fails

(* Timers run, and a fetch is answered.                                      *)
PanelSpec == /\ PanelInit /\ [][PanelNext]_panelVars /\ WF_panelVars(Listing)
        /\ \A h \in Hook, f \in Fact : WF_panelVars(Poll(h, f) \/ Polling(h, f))

-----------------------------------------------------------------------------
(***************************************************************************)
(* A write on the panel whose outcome the server knows gets that outcome   *)
(* said on the panel, whichever of the two hooks shows it, unless the card *)
(* goes, is hidden, or has been watched for two minutes.                   *)
(***************************************************************************)
Watched(f) == \A h \in Hook : f \in DOMAIN CardsOf(h) => <<h, f>> \notin aged
PanelSettles == \A f \in Fact :
  rowStatus[f] \in {"stored", "failed"} /\ f \in DOMAIN Panel ~>
    \/ f \notin DOMAIN Panel \/ ~Watched(f)
    \/ Panel[f].hidden \/ Panel[f].status = rowStatus[f]

(***************************************************************************)
(* A memory hidden on this page is shown as hidden from then on, whatever  *)
(* was asked for before, unless a request failed.                          *)
(***************************************************************************)
HiddenStays == ~lost => \A f \in concealed \cap DOMAIN Panel : Panel[f].hidden

(***************************************************************************)
(* When nothing is under way the switch shows whether memory is on, after  *)
(* any clicks and /memory commands, unless a request failed or was not     *)
(* waited for.                                                             *)
(***************************************************************************)
SwitchIsCurrent ==
  scenario.switch /\ ~lost /\ ~busy /\ ask = "none" /\ toggle.stage = "none" /\ mes = {} => me = enabled

(* What tests say (features/chat/stored-memories.test.ts: "does not let a    *)
(* stale pending list erase a write that already landed"): the panel merges  *)
(* the lists of two hooks, and only one of them remembers.                   *)
LandedStays ==
  [][~lost' => \A f \in DOMAIN Panel \cap DOMAIN Panel' :
       Panel[f].status = "stored" => Panel'[f].status # "pending"]_panelVars
(* ... and that a hidden card is one the server hides.                       *)
HiddenIsTrue == loads = {} /\ ~busy => \A f \in DOMAIN Panel : Panel[f].hidden => f \in hid
=============================================================================
