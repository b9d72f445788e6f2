# hippo, specified

TLA+ specifications of hippo, the chatbot whose memory lives on Walrus: what it
promises about memory, identity, ownership, teams, transcripts, recall, pacing and the
pages that show them, checked with TLC on small instances and, except for what must
eventually happen, proved with TLAPS for every instance.

Source paths below are relative to the repository's root. `PROJECT.json` maps every
definition to the lines it models.

## The system

hippo is one Bun server (`apps/server`) that answers on the web, Telegram, Discord,
Slack and a CLI, and a web app (`apps/web`) over its routes. It keeps two kinds of
lasting state.

* **Postgres** (`packages/db/src/schema.ts`): who is who (`people`,
  `channel_identities`), what was saved for whom (`memory_index`), the keys hippo may
  use (`delegate_keys`), one-time tokens (`connect_tokens`, `link_codes`,
  `team_invites`), teams, conversations and their messages, documents, and `turn_log`.
* **Walrus, through the MemWal relayer**: the memories themselves. A write is accepted
  as a job and lands, or does not, minutes later. A Sui object, `MemWalAccount`, lists
  the delegate keys its owner's wallet has granted.

In the process it keeps one rate limiter per delegate key, the settle loops of the
writes it is still waiting for, and the hits of each address. All are lost when it
restarts, and a deploy runs two processes side by side for a while. A browser tab keeps
what it has heard so far, and every fetch it is waiting for.

| part | state | operations | interacts with | what is hard | correct when |
|---|---|---|---|---|---|
| relayer limiter (`packages/memory/src/limiter.ts`) | queue, slots, stamps, timers | `run`, `acquire`, `pump`, `runLimited` | every relayer call of a key | wake-ups, retries that rejoin the queue, a sliding window pruned lazily | slots accounted, window kept, nobody stuck, first come first served |
| memory writes (`packages/memory/src/port.ts`, `policy.ts`, `identity/persons.ts`, `chat/commands.ts`) | jobs, settle loops, `memory_index` | remember, settle, hide, forget all | limiter, relayer, Postgres | late or lost jobs, answers lost after the deed, resubmission, restart, a refused statement, forget against writes in flight | a row never claims more than the relayer did; what can be recalled can be found in a row |
| recall (`port.ts`, `policy.ts`, `packages/core/src/agent.ts`, `chat/resolve-citations.ts`) | a request's places, hidden set and what it found | recall, corrections, citations | relayer, `memory_index`, teams | several places answered one after another, answers dropped in part or in whole, hiding or leaving meanwhile | hidden memories stay out, the closest are found wherever they are, corrections come first, but for what was dropped |
| persons (`identity/persons.ts`) | people, identities, owners | resolve, attach, merge | everything with a `person_id` | two first messages at once; a merge of several statements under a running request, or under another merge | nobody unreachable, nothing stranded that did not come too late |
| sign-in and linking (`identity/auth.ts`, `link.ts`, `sign-in-target.ts`) | nonces, sessions, codes | challenge, verify, sign out, code, redeem | persons | replayed signature, decisions made on earlier reads | one session per nonce, memories follow their author |
| connect and disconnect (`connect/tokens.ts`, `routes/connect.ts`) | keys, tokens, mode, account | start, `/done` | persons, the wallet, Sui | the callback races itself, merges and the chain | owned mode only with a grant; one owner per account |
| connect page (`apps/web/src/features/connect`) | the tab's step, tries | load, run, sponsor, pay, confirm | wallet, sponsor, Sui, `/done` | answers lost after the deed, nodes that lag, reloads | "done" is true, and a person who keeps trying gets there |
| teams (`identity/teams.ts`, `memory/team-person.ts`) | teams, members, invites | found, invite, join, leave, add a fact | persons, memory | check and write are apart, and calls overlap | one team each, a cap, single-use invites, members only, each overstepped by no more than the calls that overlap |
| web transcript (`chat/history.ts`, `routes/chat.ts`) | conversation, messages | claim, append, answer, delete | agent loop, rate gate | two tabs, retry of a stopped request, edit, delete while streaming | each question once, each answer under its question |
| channels and turns (`channels/`, `chat/turn.ts`) | adapters, threads, the memory switch | poll, receive, thread, command, answer, reply | platforms, `history.ts`, agent loop | two processes, redelivery, crash, silence, the fallback model | one thread per silence, replies fit, messages replied to, off obeyed |
| rate gate (`chat/ratelimit.ts`) and address limit (`iplimit.ts`) | `turn_log`; hits in the process | check, log, sweep | every request | requests in progress or failed are in no row; a restart forgets | a bounded overshoot; at most the cap in any window |
| chat page (`apps/web/src/features/chat`, `app/app-sidebar.tsx`) | thread, transcript, list, follow-ups | send, retry, stop, open, new, delete, reload | routes | responses in any order, for a chat that is no longer open | the page comes to rest on what is stored |
| memory panel (`features/chat/use-*memor*`, `use-remembered.ts`, `features/me/use-me.ts`) | cards of two hooks, polls, the switch | list, poll, hide, toggle | routes | two sources, late answers, timers | hidden stays hidden, outcomes are shown, the switch is right |
| agent loop (`packages/core`) | a turn | recall, tools, fallback | port | a turn run twice after a failure | see recall and channels |
| documents, changes, export, import, suggestions, ops | rows, reports | | | | |

## The modules

```
FifoSlots  <--implements--  RateLimiter  <--  RateLimiterProofs
MemoryWrites  <--  MemoryWritesProofs
Recall  <--  RecallProofs
Persons  <--  PersonsProofs
         <--  Identity  <--  IdentityProofs (with PersonsProofs)
         <--  Connect   <--  ConnectProofs (with PersonsProofs)
ConnectPage  <--  ConnectProofs
Teams  <--  RecallProofs
Transcript  <--  TranscriptProofs
ChannelTurn  <--  ChannelTurnProofs
RateGate  <--  Admission  <--  RateLimiterProofs
WebChat  <--  TranscriptProofs
WebMemory  <--  MemoryWritesProofs
MC<name>: the instance of <name> that TLC checks
```

Five proof modules cover two components each and extend both: the one limits the relayer
and the other the requests, the one is the server's and the other the page in front of
it, or, in `RecallProofs`, the one is a person's memory and the other a team's. This is
why the second has names of its own for its specification, `AdmissionSpec`, `PageSpec`,
`PanelSpec`, `ChatSpec`, `TeamsSpec`. The two share no variable.

JavaScript runs the code between two awaits without interruption, so that is what an
action is. A handler with several awaits is several actions, and its local variables
between them are a record (`sign`, `redeem`, `done`, `call`, `req`): what it read then,
used later. A Postgres statement is one action; its foreign keys, unique indexes,
`ON CONFLICT DO NOTHING` and `ON DELETE CASCADE` are part of it. So is a transaction
that locks the row it decides on, or whose statements touch nothing that another request
may change in between. `mergePersons` is neither, and is one action for each statement
(**Persons**): it runs at READ COMMITTED and takes no lock on the person it deletes. A
statement that fails is an action of its own when the code goes on differently, and an
abandoned request is one that takes no further step. In a page, a click or an arriving
response, with the renders and effects it causes, is one action, and every fetch is a
record from the moment it leaves until it is heard.

**RateLimiter** (`packages/memory/src/limiter.ts`). A caller is one `runLimited`.
`Call`, `Finish`, `FailRetryable`, `Retry` and `TimerFires` each end in `Pump`, which
admits one caller, arms one timer, or does nothing, exactly as `pump()`. `Finish` and
`FailRetryable` are the `finally` of `run`. Time is `Tick`; a stamp is kept as its age,
which is all that `pump` compares, and `recent` is what the relayer would count.
`active`, `queue`, `stamps` are the fields of the class. **FifoSlots** is what a caller
is promised: at most so many at once, in order of arrival, and nobody passed over for
ever.

**MemoryWrites** (`port.remember`, `rememberWithDedupe`, `indexWrites`, `setHidden`,
`/memory forget all`). Each write has two threads: `call`, until the user is told, and
`settle`, which waits for the job and submits again. `job` and `index` belong to the
relayer, which may land or drop any job at any time (`Land`, `Drop`, external). A
submission is several tries, as `runLimited` sends it again after a 502, 503 or 504: a
try that the relayer accepted although its answer was lost (`TryLost`) is a job in
`stray`, of which hippo has no id, whether the next try is answered (`Accept`,
`Resubmit`) or the last one throws (`AcceptFails`, `ResubmitFails`), and lands as blob
`<<w, 0>>` (`StrayLands`). `row` is the write's row of `memory_index`. Any wait may end
without the job's fate being known (`JobLost`), any insert or update may be refused, the
process may restart (`Crash`). `Recallable` is what a port built now would return. The
model has one person and one namespace.

**Recall** (`portFor`, `createMemoryPort(...).recall`, `recallRelevant`,
`gatherContext`, `recallCorrections`, `resolveStoredCitations`). One request at a time,
a turn or the citations under its answer: `ReadHidden` and `ReadPlaces` build the port,
`Answers`, `Drops` and `Fails` are one place's answer to one query: with anything in it
it is believed, whatever part of it was dropped (`dropped_count`, `policy.ts:96`); with
everything dropped the place is asked again. `missing` keeps, for the properties, what
the answers left out. `NeedsCorrections`
and `Gives` put the context together, `Resolve` to `Shows` are the citations route. In
between, the person may hide a memory, show it again or leave the team, and a write may
land. A memory is a kind, a rank (the relayer's distance, external) and a date.

**Persons** (`identity/persons.ts`): the tables that say who is who, and what
`resolvePerson`, `attachWallet` and `mergePersons` do to them, for the two modules that
interleave their uses. A merge of `l` is `MergeBegins`, which moves the identities,
`MergeMoves` twice, for `delegate_keys` and `memory_index`, and `MergeEnds`, the delete
and the commit, or `MergeRollsBack`. What it has moved is in `merge[l].rows`: locked, and
for everybody else still the loser's until the end. What comes to the loser behind the
statement of its table, inserted by a request or handed over by another merge that ends
meanwhile, is deleted with them, as the delete cascades; the history variables
`merge[l].late` and `gone` remember it, for the properties to name. `identity` and
`owner` are the rows that a merge moves, `held` those that it leaves behind and the
delete takes along. Two locks order merges: a second merge of one person waits for the
first, and the delete of a person waits for the merges into them.

**Identity** (`identity/auth.ts`, `link.ts`, `sign-in-target.ts`). Turns that find or
create a person and then write a memory, wallet sign-ins from the nonce to the session,
link codes from creation to redemption, each one statement at a time, and the merges of
both (`FoldGuest` to `GuestFolded`, `FoldRedeemer` to `RedeemerFolded`) one statement at
a time as well. `Target` is `chooseSignInTarget`.

**Connect** (`connect/tokens.ts`, `routes/connect.ts`). `Load`, `Read`, `LookUp`,
`FoldBegins`, `FoldEnds` and `CommitConnect` or `CommitDisconnect` are
`/api/connect/:token/done`; `LinkBegins` to `LinkEnds` is a merge that something else
asked for. The two transactions update rows by their id, wait for a merge that has moved
the key (`Locked`), and match nothing if the row is gone. The chain is external: `Grant`
and `Revoke` are the wallet's transactions, and a read of the account may fail (`seen`),
which `readAccount` turns into null.

**ConnectPage** (`use-connect-flow.ts`, `sponsor.ts`, `memwal.ts`,
`hooks/use-core-executor.ts`). The other side of `Connect`: one link and one tab, whose
`page.at` is where `run` is waiting. `Find`, `Sponsor`, `Execute`, `Balance`,
`PayYourself`, `Poll` and `Finish` are its awaits, each with the ways in which it may go
wrong. The chain, two nodes that may be behind it, and transactions that land after they
were reported as failed are external; so is the contract, of which only that it aborts a
repetition matters.

**Teams** (`identity/teams.ts`, `memory/team-person.ts`). `createTeam` is three inserts,
`joinTeam` three reads and a transaction, `leaveTeam` and `rememberTeamFact` a read and a
write; `Calls` bounds how many calls are in progress at once, and each may stop for good
after any statement. `joins` and `late` count, for the properties, what an invite gave
and what was written after leaving.

**Transcript** (`chat/history.ts`, `POST /api/chat`). One conversation. `Claim`,
`StoredAnswer`, `AppendUser`, `ReadLines`, `AppendAssistant` are the request in order;
the two appends lock the conversation's row. A line carries the question (and the
version of its text) it is or answers, and the life of the conversation it was said in.

**ChannelTurn** (`channels/`, `handleIncoming` of `chat/turn.ts`, `openChannelThread`,
`completeTurn`). Two processes of a deploy and one person. `proc` is the adapter of each
process, `pending` what the platform still has to hand out or to see confirmed, `call`
the handler of each message in each process, one action per await. Telegram is polled: an
update is handed to whoever asks until it is confirmed, and one is handled at a time;
Discord and Slack push an event once, and handlers overlap.

**RateGate** (`chat/ratelimit.ts`) and **Admission** (`iplimit.ts`, `index.ts`), which
extends it. `Start` counts the rows, `Logged` and `NotLogged` are the two ways in which
a request ends; `Gate` is `checkAddress`, with its sweep and its pruning, in front of
every metered web request, and `Restart` forgets its hits. Rows,
hits and what the properties count are sets of stamps, a time and its number among the
stamps of that time.

**WebChat** (`features/chat`, `app/app-sidebar.tsx`). One tab. `open` and `active` are
the two ideas of the current chat, `shown` the messages of `useChat`, `loads`, `lists`
and `asks` the fetches of the three hooks, with the number that decides whether they are
still heard, `work` the requests at the server. What the server does with overlapping
requests is **Transcript**'s; here it takes them in three steps.

**WebMemory** (`use-remembered.ts`, `use-chat-memories.ts`, `use-memory-toggle.ts`,
`use-me.ts`). `tool` and `over` are the cards of this visit, `cards` the server's list,
`Panel` is `mergeCards` of both; `polls` the status fetches of the two hooks, `aged` the
cards watched for two minutes; `mes` and `toggle` are the switch. `rowStatus` and
`hid` are the rows that the server would answer from.

## What is checked

Each run below is a `.cfg`; `tlc -config X.cfg MC<name>`.

| run | instance | shows |
|---|---|---|
| `limiter` | 3 callers, 2 slots, window of 3 ticks with 2 admissions, 2 tries, 4 timers | slots accounted, budget kept, wake-up always pending, every call returns, `FifoSlots` implemented with its fairness (`ServesInOrder`) |
| `memory_writes` | 2 writes of 2 submissions, 1 restart, refused statement or lost answer, 1 forget all | what the user was told is on record and rows are true to the relayer (`RowsAreTrue`), whatever can be recalled is tracked, a row settles once, and settles |
| `recall` | a profile fact and three corrections over three places in every way, 1 answer that fails or is dropped in part or in whole, 2 changes | hidden memories stay out of a turn and from under its answer; but for what an answer left out, several places answer like one and corrections stand before what they correct |
| `identity` | 3 people, a chat account, a browser, 2 wallets, 2 memories, 2 sign-ins, 2 nonces, a code redeemed twice, a document | with merges that overlap: nobody unreachable, one session per nonce, memories with their author unless they came too late |
| `connect` | 2 people, 2 channels, a wallet, 2 keys, 2 tokens, 3 callbacks | owned only by grant; with merges that overlap, no credential is lost that came in time; and in turn: a token commits once, an account has one owner, whoever is in owned mode has a key that was granted on it |
| `connect_page` | a link of either kind, 2 wallets with or without accounts, 3 sponsored attempts, 2 polls, 2 confirmations, 3 faults | "done" and "you paid" are true; what landed is confirmed in the end |
| `teams` | 4 people, 2 teams, 2 invites, 2 calls at a time, cap 2 | how far calls that overlap overstep the rules of a team, with a restart after any statement, and how much can still be written by who has left |
| `transcript` | 2 questions, 2 requests at once, an edit, a delete | each question once, no two answers in a row; in turn: answers fit, deletes hold |
| `channel_turn` | 2 processes, 2 messages, polled or pushed, turns or `/memory off`, a fault or a silence | a silence starts one thread; in turn: replies fit and off is obeyed; every polled message is replied to |
| `admission` | 2 requests of a person at once, caps 1 and 2, an address with caps 2 and 3, 5 instants, 1 lost row, 1 restart | how far the person's caps can be overshot; an address's cap in every window |
| `web_chat` | 2 stored chats and a new one, 3 clicks or failures | the page rests on the transcript, questions stay home, follow-ups fit, the list is current |
| `web_memory` | 2 facts without a click; 1 with 3; the switch with 3 | hidden stays hidden, the switch is right at rest, outcomes are shown |

### Why the properties are worth a run

`WakeupPending` is the limiter's hard one: `pump` lets at most one caller in, returns
without a timer when no slot is free, and is only run by arrivals, ends and timers. That
a free slot and a waiting caller always come with a pending timer is nowhere in the
code. `WindowBudget` is about the relayer's count, not the limiter's own.

`RecallableIsTracked` ties the two indexes of a memory together, and its exceptions are
exactly the places where hippo stops watching: a timeout, a restart, a refused
statement, a try whose answer was lost, a forget.

`MemoriesFollowAuthor`, `SecretHasOwner` and `NobodyUnreachable` have to survive a merge
between any two statements of a request, and a request, or another merge, between any two
statements of a merge. The first two do but for one kind of row, which they name: one that
came to a person after the statement of their merge that would have moved it. TLC finds
such a row within a few steps (`Identity!NothingLeftBehind` below); what the properties
add is that nothing else is ever lost, stranded or given to a third person, whatever
merges chain up, and that nobody who is there is ever without a name, for which no
exception is needed: a merge that would leave a person without one deletes them.

`TeamRules` and `LeaversFallSilent` say what a check that is apart from its write is worth
when calls overlap: each rule is overstepped by one for every other call in progress, and
never by more, however long this goes on; a call that stops half-way, a person who joins,
leaves and joins again, or an invite that is raced for leave nothing behind that would let
the next ones go further.

`CallbackInTurn`, `AnswersFitInTurn`, `DeletesHoldInTurn`, `RepliesFit` and
`OffIsObeyed` say precisely what the code's order of statements buys: everything, as
long as no other request comes in between; a history variable (`inTurn`, `overlapped`)
turns at the first that does. `RepliesFit` holds through crashes, redeliveries and a
fallback model that runs the turn again, because a second delivery is a line of its own
and the question asked is the newest. `NoFork` needs no such condition, and it is
less obvious than it looks: a handler that found the old thread stale may close it, or
write to it, long after another has opened a new one.

`HiddenStaysOut` is about a set read once, before up to a dozen answers, by three
different users of the port; `NothingCloserLeftOut` compares the merge of several places
with what one place holding everything would have returned, and it is what forbids
cutting to the first place's length. `CorrectionLeads` relates the order of a list to
two recalls and a rule for leaving the second out.

`Overshoot` is the promise that a check before and a row after can keep: the cap, the
other requests in progress, and those that left no row. `AddressCap` must survive the
sweep, which runs for all addresses at the time of any one's request.

The properties of the pages are about what a person sees when responses arrive late:
each names, by a history variable, the cases that the page does not cope with (below)
and says that in every other order of events it comes to rest on the truth.
`ConfirmedAtLast` is the one path through `sponsor.ts` and its fallback that works after
an answer was lost: the sponsor refuses the repetition, the wallet sends it, it aborts,
and the page takes the digest of the abort and asks again.

### Bounds, and why they are enough

* limiter: three callers are one more than the slots, so that someone waits while both
  slots are taken; a window of three ticks with two admissions fills, empties in part and
  empties; `MaxTimers` only stops new calls, so four timers let every arrival arm one.
* memory writes: the interesting cases are of two submissions of one write, or of a
  write and a duplicate or a forget. Two of each meet them. `Faults` counts restarts,
  refused statements and lost answers together: two failures in a row add no state that
  one, followed by the same steps, does not reach.
* recall: `Limit` is 2 of four memories, so that a place must be cut and a merge must be
  cut again; three places are all there are; two changes are a memory hidden and shown
  again, or hidden and a place left; a fault with two attempts is a place that recovers or
  is given up, or one that is believed with part of its answer missing.
* identity: of three people, one can be merged into a second while that one is merged
  into the third, which is the overlap in which rows come late.
* connect: two keys and tokens are what a callback may be confused with, and three
  callbacks are a connect, another and a disconnect, or one token used three times. There
  is one wallet, so that two people contend for it; the three properties of the run are
  theorems, which cover several.
* connect page: a second wallet is the wrong one; three faults are more than the lost
  answers in a row that any of its loops needs to reach its other branch.
* teams: a cap of two and four people, two calls at a time: a member too many, and one more
  who would come if the overstepping could add up.
* transcript: one question after the other, and the same one twice.
* channel turn: a deploy has two processes, a fork needs two messages, and a redelivery
  one fault. The five scenarios are in `MCChannelTurn`.
* admission: the day's cap is reached before the minute's is twice; a minute of two ticks
  and an hour of three let a hit leave one window and not the other, and a sweep come due.
* web chat: an open chat, another and a new one; three clicks are an ask, a switch and
  the way back, or any other three.
* web memory: two facts are what a panel of two hooks confuses; hiding and the switch do
  not read each other's state, so each has scenarios of its own (`MCWebMemory`).

Symmetry is declared for the safety runs whose sets are interchangeable; the runs with a
temporal property declare none.

### Fairness

* `RateLimiter`: the clock runs, a due timer runs, a backoff ends, and a request sent to
  the relayer comes back (an SDK call resolves or rejects, and `waitForRememberJob` has a
  timeout of its own); nobody has to call.
* `MemoryWrites`: a settle loop goes on, as every wait in it has a timeout; the relayer
  owes nothing, and a restart ends the loop. `ToldSettles` therefore promises an outcome
  only to a server that stays up and a database that takes its statements.
* `ChannelTurn`: a process that is down is started (the host restarts it), the sleep of
  `keepPolling` ends, what the platform holds is asked for, and every await of a handler
  returns or throws. Neither messages nor silences are owed. `EveryMessageReplied` names
  what may still keep a message from its reply.
* `WebMemory`: for each hook and fact the timer runs and its fetch is answered, and the
  list's fetch is. That a card is given up after two minutes is not owed.
* `ConnectPage`: requests are answered or fail (`Flow`), a person who is shown an error
  presses the button again (`Run`) and opens a page that did not load once more, and
  nodes catch up. Nothing need land late and no link need expire.

Deadlock is not checked where the instance really may stop: its tokens, writes, clicks or
ticks are used up. It is checked in `transcript`.

### Mutants

For each property of a run there is an operator beside the code's, marked `Mutant`, that
changes the definition the way a plausible mistake would: the timer that is not followed
up, the slot not given back, the merge that leaves the memories, a response heard after
its effect was cancelled, hidden memories taken out of the first place's answer only.
With it in place TLC finds the property violated. They are not part of any
specification.

## What is proved

`RateLimiterProofs`, for any set of callers, capacity, window, grace, concurrency and
number of tries (`LimiterAssumption`: the callers are finite and the numbers positive):

* `LimiterInvariant`: `IInv` always holds. It is `TypeOK`, `SlotsAccounted`, `OnePlace`,
  `WakeupPending` and `TriesLeft` together, because none is inductive alone: the counter
  equals the set in flight only if a caller let in was not in it yet (`OnePlace`), and
  counting the wake-ups owed needs to know a free slot from a full limiter
  (`SlotsAccounted`); `TriesLeft` types the tries after a backoff.
* `LimiterTypes`, `SlotsAlwaysAccounted`, `OnePlaceAlways`, `WakeupAlwaysPending` follow.
* `BudgetAlwaysKept`: with `BudgetInv`, that the stamps are oldest first and that what
  the relayer counts is what `pump` would keep if it ran now. The lemmas `LiveElements`,
  `LiveYoung` and `AgedLive` show that forgetting late forgets the same.
* `LimiterImplementsSlots`: every step is a step of `FifoSlots` or invisible to it.

The argument is the same in all of them: `PumpKeepsBooks` takes the books as any
statement leaves them (`Sound`, with one wake-up owed at most) and shows that the pump
ending that action restores the invariant; then each action only has to show that it
leaves the books sound.

`TranscriptProofs`, for any questions, any number of requests at once, of edits and of
deletes (`TranscriptAssumption`: the bounds are naturals):

* `TranscriptInvariant`: `IInv` always holds. `Once` and `Spaced`, said of the log, are
  inductive whoever overlaps. What holds in turn is not: that every answer fits depends
  on what the request in progress will store, so `TurnInv` adds that there is at most
  one (`AloneInTurn`), that once its question is placed it is the newest line
  (`ReadsQuestion`), and that the answer it holds is for that line and of this life of
  the conversation (`AnswersNewest`), unless the conversation was deleted, when only a
  claim, which needs that request gone, makes it again.
* `TranscriptTypes`, `QuestionsStayOnce`, `AnswersStaySpaced`, `AnswersAlwaysFit`,
  `DeletesAlwaysHold` follow.

Each operation changes the log by a line at the end, by cutting it before a line, or by
both; `AppendOnce`, `AppendSpaced`, `AppendFit`, `AppendSaid` and `PrefixKeeps` say what
that keeps, `PlacedKeeps` puts them together for what `appendUser` leaves, and there is
one lemma per action.

`MemoryWritesProofs`, for any writes, attempts, faults and forgets: `RowsStayTrue`,
`StrayBlobsAccounted` and `SettledForGood`. The invariant says of each write on its own
(`Good`) what its call, its loop, its jobs and its row may be together; the two facts
that carry it are that a submission the loop has behind it was outlived or dropped, and
that a loop still running has a pending row, unless the row was forgotten or the call
failed. A try whose answer was lost is in none of this: what lands of it is counted apart
from the loop's submissions, and is outlived from the moment it is lost (`StrayOK`).
`SameStaysGood` disposes of all writes but the one that moves.

`RecallProofs`, for any memories, places, sizes and faults: `HiddenAlwaysOut`. What was
hidden before the request and still is (`since`) only shrinks, and from the moment the
hidden set is read it is part of it; so each place, merge, cut and order, which add
nothing (`MergedAddsNothing`, `OrderAddsNothing`), keeps it out.

`PersonsProofs` has no theorem of its own, but what those about identities and connecting
share: what each statement of a merge, and each row that comes meanwhile, leaves right of
the tables (`TablesOK`). A merge in progress is of somebody who is there into somebody
else who is; it has moved rows of its loser only; and a row that is still the loser's
although its statement has run came late (`MergeOK`). That is what the last statement
needs: whoever is deleted takes late rows along and no other (`EndsDoes`), and of two
merges that chain up, what the first moves to the second's loser is late for the second
(`EndsOK`).

`IdentityProofs`, for any people, channels, wallets, turns and codes, and any number of
merges that overlap: `OneSessionPerSignature`, `NoOrphans` and `MemoriesStay`. The
invariant says of a turn that has found its person that this is whom its author names
now, or somebody who is gone, or that its author went with a person (`Found`). `Keeps` is
what every change of the tables leaves right for it: ids are not reused, an identity once
given stays given, and what a merge ends for a person it ends for identities and memories
at once, the late ones excepted.

`ConnectProofs`, for any people, wallets, keys, tokens and callbacks:
`OwnershipIsGranted`, `SecretsAreOwned`, `CallbacksInTurn`. `SecretsAreOwned` rests on
`MergeOK`: a key that is not destroyed has an owner who is there, or went late. What a
callback has verified is about a grant that was signed, and grants are remembered for good
(`DoneOK`, `GrantsOK`); no two callbacks wait for one merge (`FoldsApart`). That the token
is unused and the wallet somebody's is not, so it is in the invariant only while nobody
came in between: one callback at a time (`OneAtATime`), its person still the wallet's
(`Decided`), everybody in owned mode named by the wallet of their account (`OwnsWallet`).
Keys have an invariant of their own (`KeyInv`): a token not yet orphaned names a key of its
holder, a connect token not yet used a key that is still pending and held, and no two
connect tokens the same one; in turn a callback's key is its person's, and is not late for
the merge that the callback itself waits for (`Holds`). That the disconnect of one key
leaves nobody in owned mode without one (`OwnedHasKey`) follows only because the same
transaction stands its person down.

`ChannelTurnProofs`, for any processes, messages, handlers, faults and silences:
`OneThreadPerSilence`, `RepliesStayFit`, `OffStaysObeyed`. The first rests on a count
(`Count`): there are no more threads than silences, and one; and none more than silences
while the open thread is stale or about to be closed (`Owed`), which is when another may
follow it. The other two rest on `Alone`: a handler that overlaps with no other is the
only one that moves the switch and the transcript, so what it read of them is still so
(`CallOK`).

`RateLimiterProofs`, second part, for any requests at once, windows, caps, addresses,
lost rows and restarts (`RateAssumption`, `AddressAssumption`: finite sets, positive
caps and windows, the minute no longer than the hour):

* `OvershootIsBounded`. A cap is about what was let in, and `checkRate` sees rows. The
  invariant (`PersonInv`) counts over every window at once: for each instant `u`, whoever
  was let in after `u` has a row after `u`, is in progress, or left no row. At the instant
  where the window begins this bounds the overshoot by the requests at once and the rows
  lost.
* `AddressIsCapped`. Whoever got through after `u` has a hit after `u`, or came before a
  restart after `u`, and each restart forgets no more than the cap (`Covered`). It is said
  of every `u` that the window still reaches, because those are the hits that the pruning
  and the sweep leave.

`RecallProofs`, second part, also for any ranks, dates and kinds (`RecallAssumption`:
finitely many memories, ranks up to the farthest, positive limits):

* `ClosestAlwaysFound`. `ClosestFound` says it of the places so far: the closest of what
  they hold were found, but for what an answer left out (`missing`), and nothing that they
  do not hold. Cutting what each place holds loses nothing, as whatever is among the
  closest of all is among the closest of its place; and what an answer leaves out makes
  room only for what is farther.
* `CorrectionsLeadAlways`. Every correction that the places so far hold, and that no answer
  left out, is among what was found (`CorrectionsFound`), as they all fit in one recall,
  and the order then puts it before the older facts.

`RecallProofs`, last part, for any people, teams, invites and cap, and any number of calls
at a time (`TeamsAssumption`: finitely many): `RulesBendByOverlap` and `LeaversStop`. Each
rule is inductive only together with the calls that may still overstep it: for a person,
the teams they are in and the calls past the check that will enrol them are one more than
the other calls at most (`FewTeams`), and in the same way the members of a team
(`FewMembers`), the memberships of an invite (`FewJoins`), and the facts added since
somebody left with those still under way (`FewLate`). A call that passes its check found
the rule kept, so that only the other calls can be past theirs (`Checks`); from there it
turns into a row or is given up (`CallBecomesRow`).

`ConnectProofs`, last part, for any wallets, tries, polls and faults: `PageAlwaysTrue`. The
page may say more than was paid only between sending the wallet in and its answer, and
after an error, which only the button leaves and which clears both (`PageSays`).

`MemoryWritesProofs`, last part, for any facts, clicks and failures:

* `HiddenAlwaysStays`. A fact hidden here is hidden in what the thread's hook remembers
  and, where the thread does not show it, in the list (`HidesKept`). A late list could
  undo this only for a fact that is new to it, and no list that was read leaves out a
  fact that is shown (`ListGrows`).
* `SwitchAlwaysCurrent`. When no change of the switch is under way, it is right, or the
  latest fetch is still on its way and will make it so (`SwitchKept`).

`TranscriptProofs`, second part, for any number of stored chats, of chats and of events
(`WebChatAssumption`):

* `ChatInvariant`: `ChatInv` always holds. It is built in layers, each inductive given
  those before it: the types, of the server and of the page (`ServerShapes`,
  `PageShapes`); that chats and questions are numbered in order, so that a new one is
  distinct (`Counted`); that the transcript waited for is that of the open chat
  (`LoadsFit`); that one answer at a time is on its way (`OneAnswer`).
* `QuestionsAlwaysStayHome`, `FollowUpsAlwaysFit` and `ListAlwaysCurrent` each rest on a
  layer of their own (`HomeInv`, `FollowInv`, and `ListInv` with `RemovalsApart`).
* `PageAlwaysTranscript`. At rest the page shows what is stored. For each stage of a
  request, `InStep` says how the page and the stored lines may differ: by the question not
  yet placed or what a retry will cut (`Posed`), by an answer not yet stored (`AskedFor`),
  or by one not yet shown (`AnsweredFor`).

The limits of time, of clicks and of faults that the models carry are constants of the
specifications, and any value of them is covered by the theorems.

Only model-checked is what must eventually happen: `EveryCallReturns`, `ToldSettles`,
`EveryMessageReplied`, `ConfirmedAtLast`, `PanelSettles`, and the fairness of `FifoSlots` in
`ServesInOrder`, whose safety part is `LimiterImplementsSlots`: TLAPS does not reason
about fairness. Every safety property that a run checks is a theorem.

## Where the code and its words part

No run of the project is there to fail. What the code says and does not keep is stated
as formulas beside the properties, and refuted by TLC in the instance of the passing run
when the formula is put in its `.cfg` in place of its own, without symmetry and with the
changes given:

| formula | said | what happens |
|---|---|---|
| `MemoryWrites!ForgottenStaysForgotten` | `apps/server/src/copy.ts:34` "/memory forget all makes every one unrecallable" | the rows of jobs still at the relayer are deleted, and a job that lands later is recalled with no row to hide it by |
| `MemoryWrites!HiddenIsNotRecalled` | the same, "/memory forget <blob> stops me using one memory" | a wait that timed out is submitted again, both jobs land, and the row hides one blob |
| `MemoryWrites!FailedIsNotHeld` | the same, "/memory shows everything I hold" | a write given up on lands later, and is recalled while its row says failed |
| `MemoryWrites!LostOnlyAfterAllAttempts` | `packages/memory/src/policy.ts:126` "resubmitted this many times before the write is called lost" | a resubmission that throws ends the loop |
| `MemoryWrites!AcceptedIsFollowedUp` (1 write) | `packages/memory/src/port.ts:56` "`stored` or `failed` follows" | not after a restart |
| `Identity!GuestWithMemoriesNotMerged` | `docs/ARCHITECTURE.md:45` "if it has memories, nothing is merged" | it is when the wallet's person has none, the other way round |
| `Identity!CodeLinksOnePerson` (3 channels, 3 memories, no sign-ins) | `identity/link.ts:7` "The code is single use" | two redemptions read it before either marks it |
| `Identity!RedeemMovesNoMemory` | `identity/link.ts:73` "Requiring the redeeming side to be empty removes the damage" | a turn writes between the check and the merge |
| `Identity!NothingLeftBehind` | `identity/persons.ts:317` "identities, delegate keys, memory index rows and turn history all move across" | a row that is inserted for the loser, or moved to it by another merge, after the statement for its table is deleted with the loser |
| `Identity!DeletedPersonIsEmpty` | `identity/persons.ts:317` "all move across, then the empty person is deleted" | sessions, codes and documents go with the person |
| `Connect!DisconnectedLeavesNoKey` (1 person, 1 channel, 3 tokens) | `README.md:125` "removes the key on chain, and hippo deletes its own copy at once" | of two keys one is revoked, and the other stays with a guest |
| `Connect!TokenCommitsOnce` | `docs/ARCHITECTURE.md:96` "The connect token is single-use" | two callbacks both pass `loadToken`; the later one may set a key active again whose secret a disconnect has deleted |
| `Connect!OneOwnerPerAccount` | `routes/connect.ts:141` "rather than splitting in half" | two callbacks for one wallet look before either attaches it |
| `Connect!RevokedIsGone` | `routes/connect.ts:184` "the key must be gone from the account" | a failed read, or another account's id, counts as gone |
| `Connect!ConnectedMeansOwned` | `routes/connect.ts:158` | the person is merged away before the transaction, whose update matches nothing |
| `ConnectPage!TryingAgainHelps` | `use-connect-flow.ts:152` "Try the link again." | a wallet that will not pay is refused by the sponsor for ever, as the repetition would abort |
| `ConnectPage!RevokedIsRemoved` | the page's "This removes hippo's key from your account on chain." | hippo's failed read counts as gone, and the page says done |
| `Teams!OneTeamEach`, `MembersCapped`, `InviteWorksOnce` without their `+ Others`, and `late[p] = 0` | `docs/evidence/team-memory-2026-09-24.md:66`, `packages/db/src/schema.ts:256` "single use", `chat/commands.ts:158` | two calls that overlap |
| `Transcript!AnswerFitsQuestion` | `docs/CHAT-UPGRADE.md:72` "The replaced answer is the one the transcript keeps" | the late answer of a stopped request stands under the edited question, and the retry's is dropped |
| `Transcript!RetryGetsItsAnswer` | `routes/reply.ts:33` "a retry does not call the model again" | the answer replayed is a later question's |
| `Transcript!DeletedWordsGone` | `docs/ARCHITECTURE.md:366` "Deleting a chat removes it" | an answer in progress is stored in the conversation made again under the id |
| `ChannelTurn!OffMeansOff` | `chat/commands.ts` "Memory off. I will not read or write memory until you run /memory on." | a turn already under way has read the switch before |
| `RateGate!MinuteCap` (in `MCAdmission`, also with 1 call) | `docs/ARCHITECTURE.md:149` "caps each person at 10 turns per minute" | requests in progress, and failed ones, are not counted |
| `Admission!HourCap` | `iplimit.ts` "a ceiling the caller cannot choose for itself" | a restart forgets the hits |
| `WebMemory!LandedStays` | `stored-memories.test.ts:52` "does not let a stale pending list erase a write that already landed" | the list's card wins over the visit's, and it may be pending where the other is stored |
| `WebMemory!HiddenIsTrue` | the panel's "hidden" | hidden is never unlearned: shown again on another page, the card stays hidden until a reload |

What the pages do not cope with are the members of `WebChat!odd`. TLC refutes
`PageIsTranscript` with any one of them allowed, among them a chat opened while an answer
was on its way ("switched": the answer's next chunk is put under the chat that is shown
by then), something sent while a chat was loading ("early": the question goes to the
chat opened, and the transcript that arrives replaces it), and a chat used while it was
being deleted. A list read before a delete and heard after it names the deleted chat
again until the next change ("list read before").

Nor does `Recall` promise more than it says: a memory hidden while its turn is under way
may still be given to the model, or shown under an answer until its page is loaded again,
and so may a team's memory to a person who has left meanwhile. An answer that the relayer
cut short is believed as long as anything is in it (`policy.ts:86-96` goes on retrying only
when nothing is): a closer memory, or a correction of one that is shown, may then be left
out with no sign of it, which is what `missing` stands for in its two theorems.

## Not modelled, and next

Not modelled at all: what the model says (its effects are calls of the port), message
plumbing, splitting and formatting, encryption and signatures (a signature check is a
guard), expiry of codes and nonces (one that expires is one nobody uses), ops reports,
layout.

Modelled in part, and what is missing:

* recall: the recall tool, which the model calls as it likes, and the choice among several
  keys of one person after a reconnect;
* memory writes: several namespaces of one person, and settle loops that hold limiter
  slots while they wait, composed with `RateLimiter`;
* persons: `walletAddress`, which the loser of two sign-ins with one new wallet may leave
  on the wrong row, and the conversations that a merge moves or closes;
* channels: mentions, threads and files of Discord and Slack; a reply in several parts;
* registry: `fetchRelayerConfig`, which keeps a rejected promise until a restart;
* limiter: the relayer counts by the clock that the limiter goes by, so that a limiter which
  forgot a stamp too early would only be told by its capacity;
* channels: Telegram's `getUpdates` answers with a batch, of which the model polls one
  update at a time;
* web chat: the transcript's pages of 50 messages and the list's 30 chats are not cut;
* web memory: one poll of a card is in flight at a time, where `setInterval` may start the
  next before a slow one has answered;
* chat page: two tabs, the compare and citation hooks (a late answer of `use-compare`
  for one conversation drops those of another), documents of a message; a list of
  more than one page (`listWebConversations` ends it with a null cursor);
* documents: uploads between the browser and Walrus, whose blob is paid for before its row
  is recorded, and a list that is loaded without a version.

The account, landing and documentation pages, imports, exports, suggestions and the
components under `components/ui` load once and show what they got; there is no state of
theirs that another step could disturb. They are most of the lines that `PROJECT.json`
maps nothing to.
