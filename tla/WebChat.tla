-------------------------------- MODULE WebChat --------------------------------
(***************************************************************************)
(* The chat page of one browser tab: apps/web/src/features/chat (thread,   *)
(* transcript, sidebar list, follow-ups) over the routes of                *)
(* apps/server/src/routes/chat.ts and conversations.ts.  The page is one   *)
(* thread of JavaScript: a click or an arriving response, with the renders *)
(* and effects it causes, is one step.  Every fetch is a record of its own *)
(* from the moment it leaves until it is heard; the server answers it in   *)
(* between.  What the server does with overlapping requests is Transcript; *)
(* here it takes a request in a few steps.                                 *)
(***************************************************************************)
EXTENDS Naturals, FiniteSets, Sequences, SequencesExt

CONSTANTS
  Past,         (* the conversations there are when the page opens: 1..Past   *)
  MaxChats,     (* bound: conversations there will be                         *)
  MaxEvents     (* bound: messages, clicks and failures                       *)

ASSUME WebChatAssumption ==
  {Past, MaxChats, MaxEvents} \subseteq Nat /\ Past <= MaxChats

VARIABLES
  stored,       (* the conversations and their lines, on the server           *)
  work,         (* POST /api/chat: what the server is not done with           *)
  removals,     (* DELETE /api/conversations/:id, on its way or back          *)
  open,         (* idRef and conversationId; 0 for a new chat                 *)
  active,       (* activeChatId and the tab's session storage                 *)
  shown,        (* the messages of useChat                                    *)
  loadId, loadNo, loads,   (* useTranscript: its id, latest effect, fetches   *)
  items, listNo, lists,    (* useConversations: list, version, fetches        *)
  follow, followNo, asks,  (* useFollowUps: state, latest effect, fetches     *)
  chats, asked, events,   (* how many, so far                                 *)
  odd           (* history: things that the page does not cope with           *)

thread == <<open, active, shown>>
load   == <<loadId, loadNo, loads>>
list   == <<items, listNo, lists>>
ups    == <<follow, followNo, asks>>
counts == <<chats, asked, events>>
chatVars   == <<stored, work, removals, thread, load, list, ups, counts, odd>>

ChatLine(role, n, chat) == [role |-> role, n |-> n, chat |-> chat]
Answer(w) == ChatLine("assistant", w.ask.n, w.chat)
Fetch(no, id) == [no |-> no, id |-> id, read |-> FALSE, got |-> <<>>]
None == [id |-> 0, from |-> <<>>]

Busy    == \E w \in work : w.live
Loading == \E l \in loads : l.no = loadNo
LinesOf(c) == IF c \in DOMAIN stored THEN stored[c] ELSE <<>>
Put(c, lines) == [d \in DOMAIN stored \cup {c} |-> IF d = c THEN lines ELSE stored[d]]
Listed  == {c \in DOMAIN stored : stored[c] # <<>>}
Ends(lines, role) == lines # <<>> /\ Last(lines).role = role
Shows(w) == shown # <<>> /\ Last(shown) = Answer(w)

Note(what, when) == odd' = odd \cup {x \in {what} : when}
Event == events < MaxEvents /\ events' = events + 1
Click == Event /\ UNCHANGED <<chats, asked>>
Fault == Click /\ Note("lost", TRUE)

-----------------------------------------------------------------------------
(* Effects.                                                                  *)
(* useTranscript: its effect runs only for another id, and cancels the fetch *)
(* before.                                                                   *)
LoadAgain(id) ==
  IF id = loadId THEN UNCHANGED load
  ELSE /\ loadId' = id /\ loadNo' = loadNo + 1
       /\ loads' = loads \cup {Fetch(loadNo + 1, c) : c \in {id} \ {0}}

(* useFollowUps: the fetch before is cancelled; the page got busy or the     *)
(* conversation is another one.                                              *)
FollowAgain(busy) ==
  /\ followNo' = followNo + 1
  /\ follow' = IF busy THEN None ELSE follow
  /\ UNCHANGED asks

(* No longer busy: bumpConversations, and follow-ups for an answer.          *)
Ended ==
  /\ listNo' = listNo + 1 /\ lists' = lists \cup {Fetch(listNo + 1, 0)}
  /\ followNo' = followNo + 1
  /\ asks' = asks \cup {Fetch(followNo + 1, c) : c \in {d \in {open} \ {0} : Ends(shown, "assistant")}}
  /\ UNCHANGED <<items, follow>>

-----------------------------------------------------------------------------
(* What the person does.                                                     *)
(* prepareSendMessagesRequest: a request goes to the conversation that is    *)
(* open; when none is, an id is made and adopted.                            *)
Target == IF open = 0 THEN chats + 1 ELSE open
Post(lines, again) ==
  /\ ~Busy /\ Target <= MaxChats /\ Event
  /\ shown' = lines /\ open' = Target
  /\ chats' = IF open = 0 THEN Target ELSE chats
  /\ active' = IF open = 0 THEN Target ELSE active
  /\ work' = work \cup {[chat |-> Target, ask |-> Last(lines), again |-> again,
                         stage |-> "sent", live |-> TRUE]}
  /\ odd' = odd \cup {x \in {"early"} : Loading}
                \cup {x \in {"under delete"} : \E d \in removals : d.id = Target}
  /\ FollowAgain(TRUE)
  /\ UNCHANGED <<stored, removals, load, list>>

(* send.  While a chat loads and nothing is shown there is no composer.      *)
Send ==
  /\ ~(Loading /\ shown = <<>>)
  /\ Post(Append(shown, ChatLine("user", asked + 1, Target)), FALSE)
  /\ asked' = asked + 1

(* retry and edit: the thread is cut after its last question, and that goes  *)
(* out again under its own id.                                               *)
Resend ==
  /\ \E k \in DOMAIN shown :
       /\ shown[k].role = "user"
       /\ \A j \in DOMAIN shown : shown[j].role = "user" => j <= k
       /\ Post(SubSeq(shown, 1, k), TRUE)
  /\ UNCHANGED asked

(* stop: the page no longer listens.                                         *)
Stop ==
  /\ Busy /\ Click
  /\ work' = {[w EXCEPT !.live = FALSE] : w \in work}
  /\ Ended /\ Note("lost", TRUE)
  /\ UNCHANGED <<stored, removals, thread, load>>

(* requestOpenChat and openConversation: the thread moves at once and the    *)
(* messages when they arrive; an answer on its way is not stopped.           *)
OpenChat(id) ==
  /\ id \in items /\ Click
  /\ active' = id /\ open' = id
  /\ LoadAgain(id)
  /\ IF id = open THEN UNCHANGED ups ELSE FollowAgain(FALSE)
  /\ odd' = odd \cup {x \in {"switched"} : Busy /\ id # loadId}
                \cup {x \in {"under delete"} : \E d \in removals : d.id = id}
  /\ UNCHANGED <<stored, work, removals, shown, list>>

(* requestNewChat and resetConversation.                                     *)
Fresh ==
  /\ active' = 0 /\ open' = 0 /\ shown' = <<>>
  /\ LoadAgain(0) /\ FollowAgain(FALSE)
  /\ Note("switched", Busy)

(* Mutant: the messages stay.                                                *)
NewChat_KeepsMessages ==
  /\ Click
  /\ active' = 0 /\ open' = 0
  /\ LoadAgain(0) /\ FollowAgain(FALSE)
  /\ Note("switched", Busy)
  /\ UNCHANGED <<stored, work, removals, shown, list>>

NewChat == Click /\ Fresh /\ UNCHANGED <<stored, work, removals, list>>

(* The sidebar's delete button, with the chat that was active at the click.  *)
DeleteChat(id) ==
  /\ id \in items /\ Click
  /\ removals' = removals \cup {[id |-> id, active |-> active, done |-> FALSE]}
  /\ Note("under delete", \E w \in work : w.chat = id)
  /\ UNCHANGED <<stored, work, thread, load, list, ups>>

(* The page is loaded again; nothing it waits for is heard.                  *)
Reload ==
  /\ Click
  /\ work' = {[w EXCEPT !.live = FALSE] : w \in work} /\ removals' = {}
  /\ open' = active /\ shown' = <<>> /\ loadId' = active
  /\ loadNo' = loadNo + 1 /\ loads' = {Fetch(loadNo + 1, c) : c \in {active} \ {0}}
  /\ items' = {} /\ listNo' = listNo + 1 /\ lists' = {Fetch(listNo + 1, 0)}
  /\ follow' = None /\ followNo' = followNo + 1 /\ asks' = {}
  /\ Note("lost", Busy \/ removals # {})
  /\ UNCHANGED <<stored, active>>

-----------------------------------------------------------------------------
(* The server.                                                               *)
Reach(w, stage, new) ==
  /\ work' = (work \ {w}) \cup {[w EXCEPT !.stage = stage]}
  /\ stored' = new
  /\ UNCHANGED <<removals, thread, load, list, ups>>
Served == UNCHANGED <<counts, odd>>

(* claimWebConversation.                                                     *)
Claims(w) == w.stage = "sent" /\ Reach(w, "claimed", Put(w.chat, LinesOf(w.chat))) /\ Served

(* appendUser: what follows a question stored before goes; a question that   *)
(* is not in this conversation is a new line of it.                          *)
Place(w) ==
  /\ w.stage = "claimed" /\ w.chat \in DOMAIN stored
  /\ LET lines == stored[w.chat]
         known == {k \in DOMAIN lines : lines[k].role = "user" /\ lines[k].n = w.ask.n} IN
       \/ known = {} /\ Reach(w, "placed", Put(w.chat, Append(lines, w.ask)))
       \/ \E k \in known : Reach(w, "placed", Put(w.chat, SubSeq(lines, 1, k)))
  /\ Served

(* appendAssistant, before the stream ends.                                  *)
Store(w) ==
  /\ w.stage = "placed"
  /\ Reach(w, "stored", IF Ends(LinesOf(w.chat), "user")
                          THEN Put(w.chat, Append(LinesOf(w.chat), Answer(w))) ELSE stored)
  /\ Served

(* The conversation is gone, the rate is over, the database refuses: a       *)
(* sentence, stored nowhere, is the reply.                                   *)
Refuse(w) ==
  /\ w.stage \in {"sent", "claimed", "placed"} /\ Fault
  /\ Reach(w, "refused", stored)

Gone(w) ==
  /\ w.stage = "claimed" /\ w.chat \notin DOMAIN stored
  /\ Reach(w, "refused", stored) /\ Served

(* A request nobody listens to ends early, or when it is through.            *)
Forsaken(w) ==
  /\ ~w.live /\ work' = work \ {w}
  /\ UNCHANGED <<stored, removals, thread, load, list, ups, counts, odd>>

(* deleteWebConversation.  A list read before will still name the chat.      *)
DeleteRow(d) ==
  /\ ~d.done
  /\ stored' = [c \in DOMAIN stored \ {d.id} |-> stored[c]]
  /\ removals' = (removals \ {d}) \cup {[d EXCEPT !.done = TRUE]}
  /\ Note("list read before", \E l \in lists : l.no = listNo /\ l.read)
  /\ UNCHANGED <<work, thread, load, list, ups, counts>>

(* GET messages, GET conversations, POST suggestions.                        *)
Brings(fetches, f, got) == (fetches \ {f}) \cup {[f EXCEPT !.read = TRUE, !.got = got]}
LinesRead(l) ==
  /\ ~l.read /\ loads' = Brings(loads, l, LinesOf(l.id))
  /\ UNCHANGED <<stored, work, removals, thread, loadId, loadNo, list, ups, counts, odd>>
ReadList(l) ==
  /\ ~l.read /\ lists' = Brings(lists, l, Listed)
  /\ UNCHANGED <<stored, work, removals, thread, load, items, listNo, ups, counts, odd>>
ReadTurns(a) ==
  /\ ~a.read /\ asks' = Brings(asks, a, LinesOf(a.id))
  /\ UNCHANGED <<stored, work, removals, thread, load, list, follow, followNo, counts, odd>>

-----------------------------------------------------------------------------
(* What the page hears.                                                      *)
(* A chunk replaces the last message when that is the answer so far, and     *)
(* else is one more message, whatever is shown by now.                       *)
Chunk(w) ==
  /\ w.live /\ w.stage \in {"placed", "stored", "refused"} /\ ~Shows(w)
  /\ shown' = Append(shown, Answer(w))
  /\ UNCHANGED <<stored, work, removals, open, active, load, list, ups, counts, odd>>

End(w) ==
  /\ w.live /\ w.stage \in {"stored", "refused"} /\ Shows(w)
  /\ work' = work \ {w}
  /\ Ended
  /\ UNCHANGED <<stored, removals, thread, load, counts, odd>>

(* The transcript takes the place of what is shown.  Mutant: that of a       *)
(* cancelled effect too.                                                     *)
Loaded_Late(l) ==
  /\ l.read /\ loads' = loads \ {l} /\ shown' = l.got
  /\ UNCHANGED <<stored, work, removals, open, active, loadId, loadNo, list, ups, counts, odd>>

Loaded(l) ==
  /\ l.read /\ loads' = loads \ {l}
  /\ shown' = IF l.no = loadNo THEN l.got ELSE shown
  /\ UNCHANGED <<stored, work, removals, open, active, loadId, loadNo, list, ups, counts, odd>>

(* Mutant: whichever version was asked for.                                  *)
GotList_Late(l) ==
  /\ l.read /\ lists' = lists \ {l} /\ items' = l.got
  /\ UNCHANGED <<stored, work, removals, thread, load, listNo, ups, counts, odd>>

GotList(l) ==
  /\ l.read /\ lists' = lists \ {l}
  /\ items' = IF l.no = listNo THEN l.got ELSE items
  /\ UNCHANGED <<stored, work, removals, thread, load, listNo, ups, counts, odd>>

(* Mutant: a cancelled effect's too.                                         *)
Suggested_Late(a) ==
  /\ a.read /\ asks' = asks \ {a} /\ follow' = [id |-> a.id, from |-> a.got]
  /\ UNCHANGED <<stored, work, removals, thread, load, list, followNo, counts, odd>>

Suggested(a) ==
  /\ a.read /\ asks' = asks \ {a}
  /\ follow' = IF a.no = followNo THEN [id |-> a.id, from |-> a.got] ELSE follow
  /\ UNCHANGED <<stored, work, removals, thread, load, list, followNo, counts, odd>>

(* remove: the item goes, and the page to a new chat, if the chat was active *)
(* when the button was pressed.                                              *)
Deleted(d) ==
  /\ d.done /\ removals' = removals \ {d} /\ items' = items \ {d.id}
  /\ IF d.id = d.active THEN Fresh ELSE UNCHANGED <<thread, load, ups, odd>>
  /\ UNCHANGED <<stored, work, listNo, lists, counts>>

(* A fetch fails.                                                            *)
FetchFails ==
  /\ Fault
  /\ \/ \E l \in loads : /\ loads' = loads \ {l}
                         /\ shown' = IF l.no = loadNo THEN <<>> ELSE shown
                         /\ UNCHANGED <<lists, asks>>
     \/ \E l \in lists : lists' = lists \ {l} /\ UNCHANGED <<shown, loads, asks>>
     \/ \E a \in asks : asks' = asks \ {a} /\ UNCHANGED <<shown, loads, lists>>
  /\ UNCHANGED <<stored, work, removals, open, active, loadId, loadNo, items, listNo,
                 follow, followNo>>

-----------------------------------------------------------------------------
ChatInit ==
  /\ stored = [c \in 1..Past |-> <<ChatLine("user", c, c), ChatLine("assistant", c, c)>>]
  /\ work = {} /\ removals = {}
  /\ active \in 0..Past /\ open = active /\ shown = <<>>
  /\ loadId = active /\ loadNo = 1 /\ loads = {Fetch(1, c) : c \in {active} \ {0}}
  /\ items = {} /\ listNo = 1 /\ lists = {Fetch(1, 0)}
  /\ follow = None /\ followNo = 0 /\ asks = {}
  /\ chats = Past /\ asked = Past /\ events = 0
  /\ odd = {}

ChatNext ==
  \/ Send \/ Resend \/ Stop \/ NewChat \/ Reload \/ FetchFails
  \/ \E c \in 1..MaxChats : OpenChat(c) \/ DeleteChat(c)
  \/ \E w \in work : \/ Claims(w) \/ Place(w) \/ Store(w) \/ Refuse(w) \/ Gone(w)
                     \/ Forsaken(w) \/ Chunk(w) \/ End(w)
  \/ \E d \in removals : DeleteRow(d) \/ Deleted(d)
  \/ \E l \in loads : LinesRead(l) \/ Loaded(l)
  \/ \E l \in lists : ReadList(l) \/ GotList(l)
  \/ \E a \in asks : ReadTurns(a) \/ Suggested(a)

ChatSpec == ChatInit /\ [][ChatNext]_chatVars

-----------------------------------------------------------------------------
Quiet == work = {} /\ ~Loading /\ removals = {}

(***************************************************************************)
(* Opening, leaving, asking, retrying and deleting in any order: when      *)
(* nothing is under way the page shows the transcript of the chat that is  *)
(* open, unless a chat was opened while an answer was still on its way,    *)
(* something was sent while a chat was loading, a chat was used while it   *)
(* was being deleted, or a request was stopped or failed.                  *)
(***************************************************************************)
PageIsTranscript == Quiet /\ odd \subseteq {"list read before"} => shown = LinesOf(open)

(***************************************************************************)
(* A question is stored in no conversation but the one it was asked in,    *)
(* unless something was sent while another chat was loading; leaving a     *)
(* chat in the middle of an answer does no harm.                           *)
(***************************************************************************)
QuestionsStayHome ==
  "early" \notin odd => \A c \in DOMAIN stored : \A k \in DOMAIN stored[c] : stored[c][k].chat = c

(***************************************************************************)
(* The follow-ups shown were made from the transcript as it stands, unless *)
(* a request was lost.                                                     *)
(***************************************************************************)
FollowUpsFit ==
  "lost" \notin odd /\ follow.id = open /\ open \in DOMAIN stored => follow.from = LinesOf(open)

(***************************************************************************)
(* When nothing is under way the sidebar lists the chats there are, unless *)
(* a request was lost, a chat was used while it was being deleted, or one  *)
(* was deleted between the reading of a list and its arrival.              *)
(***************************************************************************)
ListIsCurrent ==
  /\ Quiet /\ ~ \E l \in lists : l.no = listNo
  /\ odd \cap {"lost", "under delete", "list read before"} = {}
  => items = Listed
=============================================================================
