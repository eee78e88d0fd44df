# Omnistant: a verification project

Omnistant is a personal memory assistant: a browser page watches through the
camera and listens, a FastAPI service on Cloud Run turns what it sees into an
append-only log of observations, and scheduled jobs act on the log with nobody
watching. This directory holds TLA+ models of the parts whose correctness
depends on the order of things, the TLC runs that check them on small
instances, and TLAPS proofs for instances of any size.

    tlc -workers 2 -config LeaveNudge.cfg MCLeaveNudge.tla      # a run
    tlapm LeaveNudgeProofs.tla                                  # a proof

## The system

The service runs at `--concurrency=40`, up to four instances, none when idle;
requests are cut off at 120 s. Nothing in the program takes a lock, and no
handler uses a database transaction across two statements. So between any two
`await`s of a handler another request, another instance or another job may run,
and the handler may not come back. That is where the models cut: one action per
`await` that touches shared state.

| part | state | operations | hard behaviour |
|---|---|---|---|
| leave scan (`agent/workflows.py` `leave_detection`) | rows in observations, leave_scans, routines, pending_nudges; the announced location | read routine, frame, vision, log; write four tables | dies between two writes; reads stale by the time it writes |
| reminder drain (`main.py` `task_drain_nudges`, `utils/db.py`) | pending_nudges | read due, recheck each item, cancel, or post and close | overlapping runs, a crash between post and close, the log growing during the recheck |
| watch loop, server (`agent/watch.py`) | cache entries `watch:` and `frame:` | load memory, log, save memory | lost updates, cache expiry, cold instances |
| watch loop, browser (`frontend/app.js`, `camera.js`) | camera, committed signature, two rests | compare, send, keep warm, start, stop, flip | frames not sent, requests overlapping |
| morning brief (`main.py` `task_morning_brief`) | agent_marks, routines | window, claim, post | claim before post, repeated calls, a window that moves under the cron |
| routines (`workflows.py`, `context_tools.py`, `main.py`) | rows of routines | seed, refine, correct | read-modify-write with seconds between |
| session state (`utils/location.py`, `utils/cache.py`, `agent/engine.py`, `tools/context_tools.py`) | `session:`, `location:` and `frame:` entries, the ADK session | load, run a turn with its tools, save | stale save, three entries for one fact |
| voice loop (`frontend/speech.js`, `app.js`) | recognisers, timers, `busy`, `wake` | listen, wake, suspend, resume, speak | callbacks after stop, two microphones, a standby that never returns |
| engine and intents (`agent/engine.py`, `intents.py`) | none of their own | choose a tool | sequential |
| recall, timeline, recap (`workflows.py`, `utils/db.py`, `notify_format.py`, `main.py`) | none of their own: the log | newest sighting and its decay, verdict on an item, a local day, a post | substring matches, rows of one date, limits, days of 23 and 25 hours, rows dated before they are committed |
| vision, notifications, globe, configuration | none that lasts | one outside call, drawing | failure of the call |

They interact through shared tables and cache entries, hardly by calls: the
watch loop and the leave scan write the log that the drain and the brief read;
the leave scan teaches the routine whose time opens the brief's window; the
browser decides which frames the server ever sees; the scheduler calls the jobs
at least once.

What makes each correct, in a sentence: a reminder is settled exactly by being
posted or by evidence; the watch loop never loses a sighting and calls an item
gone only when it is; there is one brief a day, inside its window; a routine
learns from trips that were made and keeps what the user said; a session
remembers what it was told and a scan files under the right place; what is said
of an item rests on the newest that is known of it; every row of the log is told
on its day; standby always comes back.

## The modules

**`LeaveNudge`** follows one leave scan from `now` to `enqueue_nudge`, and drain
runs from `due_nudges` to `close_nudge`. `scan[s]` and `drain[d]` hold a program
counter and the locals that live across awaits; `seen` is the newest sighting of
each item, which is all the recheck's `limit=1` recall can return; `queued`,
`sent` and `cancelled` are the columns of `pending_nudges`. Other writers are
the action `Sight`, which may commit an older date than the clock's, as handlers
date what they write when they begin. `ScanDies` and `DrainDies` cut a request
off at any await. `raced`, `deliveries` and `known` are history.

**`Reminder`** is the promise without rows, runs or clocks: raised once, sent
only if posted, cancelled only if everything it is about was seen, never
reopened. It allows a second post: the service promises at least once.
`LeaveNudge` implements it with `queued` for `raised` and the rows whose every
item was seen since for `vouched`.

**`Watch`** is `observe_tick` and `/api/frame`. `memory` is the JSON of
`watch:<session>` with its two halves, `req[r].was` the copy a request loaded
before it wrote. Any request may come at any time with any frame; it may die,
and the entry or the frame may vanish. `spotted`, `relogged`, `hasty` and `upset`
are history. A low-confidence guess is an item that vision did not name.

**`WatchLoop`** puts the browser on top: the timer, the comparison with the
frame last committed, the two rests, start and stop. A flip stops the camera at
once (`Flip`), and some time later the other one opens or is refused
(`FlipOpens`, `FlipFails`); `stream` is the camera, `watching` the page's flag,
and a refused flip leaves the second without the first. What the camera sees is
the items in view and one bit for everything else.

**`WatchNudge`** runs `LeaveNudge` and `Watch` over one log (`sighted` is the
date in `seen`), so that what the agent saw and what its log can say are told
apart. Time is in one unit for both.

**`Brief`** has the wall clock, the scheduler's ticks, forced calls, the window,
the claim and the post. `Relearn` is a leave scan's new median, which may be any
time of day, as one scan can tip the median to another cluster of departures;
`Shadow` is a second work routine taking the place of the first. `causes` is
history: why the tick before now may not have claimed a day it should have:
`"blind"`, no learned time when it came, or `"leap"`, the time has fallen back
since by more than `Slack` (lead + grace + 1 - cadence, 26 minutes as deployed).

**`Routine`** has the rows of `routines` and `leave_scans`, scans that seed, look,
record and refine, and corrections. `_typical_minutes` and the promotion rule
are operators. A request keeps the row it read until it writes; `stale` holds
the requests whose row another has written since. The upsert is Postgres's, with
its `COALESCE`; the in-memory store used without a database replaces the row
whole and hands out the object it keeps, so there a correction is seen by a scan
under way, and a time can be lost.

**`Voice`** is the page's microphone and loudspeaker: the `Listener`, the
`WakeWord` and what of `Speaker` and `app.js` hands the floor from one to the
other. JavaScript runs one callback to its end, so an action is a whole
callback (a click, a timer, an engine's event, the continuation of an await),
and the handlers it calls are operators from world to world. `mic` is the one
recognition engine the browser holds: `start()` throws while another is not
released, as `speech.js:303` and `558` say. `ear`, `standby` and `page` are the
fields of the two objects and of `state`; timers are booleans, `stray` counts
restart timers whose handle was overwritten. `mic.orphan`, `ear.onlyEnd` and
`handed` are history.

**`Session`** follows the turns of a conversation (`engine.handle`), each from
the click in the browser to its save, with the tools in between that write the
session, and leave scans that no turn asked for. A frame is captured when its
request leaves the browser (`Send`, `Capture`) and cached when the request is
served (`Arrive`, `Put`); in between it is in `flying`, and requests overtake
one another. `doc` is the JSON of `session:<id>`, of which the place and the last
`MaxUtterances` utterances are kept, `adk` the ADK session's `current_location`,
`key` the entry `location:<id>`, `frame` the request whose frame is cached.
`turn[t].was` is the copy of `doc` that the turn saves at its end,
`turn[t].mine` the one `record_observation` reads and writes (`TellLoad`,
`TellSave`; the runner commits the state in a later step, `TellCommit`), and
`turn[t].state` the state its tools are given. Which tool runs, and whether
vision or the quota fails, is open. History: `turn[t].later` are the frames
captured, and `astray` those still on their way, since the turn's own was
captured and cached; `announced` is the place last announced, by the user's word
or by a scan; `since` what was saved after a turn; `raced` and `losses`.

**`Recall`** is the log as it is asked about an item. Rows are records in a set:
every query orders by date, and SQL leaves rows of one date in any order, so a
query has a *set* of answers, and `leave_detection`, which asks twice, may get
two. Names and details are model values; `Within` says which name is part of
which, `Mentions` which names a detail contains, `OnPerson` what the regular
expression finds. The decay is exact: `Reaches` compares
`confidence * weight * 2^(-age/half-life)` with a threshold in integers, both to
the power of the half-life (`Power`).
`LookedFor`, `Checked` and `Hinted` are what a leave scan makes of one expected
item after each of its looks: found in the frame; carried, by the recall; or
missing, with or without a hint of the second query.

**`Timeline`** is the local day and what is told of it. `DayLengths` gives the
moments of each day, so a day of 23 or 25 hours is a shorter or longer one, and
there are days for every moment of the clock (`CalendarAssumption`);
`WallClock` is the printed minute, which two moments may share. `Entries` drops
repeats, `BulletsFromLines` and `NamesShown` group and cut. `Arrives` is the cut
at `MAX_TEXT`, which is made in characters and so may fall anywhere: the footer
goes first, then bullets from the end, and of the bullet the cut falls in a part
may be left (`CutShort`: a "+12 more" that reads "+1", or names gone, or the
beginning of a name, which may be another name).

**`Recollect`** has the writers of the log and the two handlers that speak from
it, the leave scan and the evening recap. A handler commits up to `Lag` after
the date it gives its rows. A leave scan goes from await to await: it reports
what is in the frame (`BeginScan`), asks the log about one item after another
(`AskCarried`, then `AskHint` for what is missing), and files what it found
(`FileScan`), and anyone may write between. `scan[s].knew`, the log when it
began, is history. `said` is what the last step told the user.
`WatchLogs` may log any part of a frame: which part is `Watch`'s business.

The `MC` modules give the constants that a configuration cannot write, and the
symmetry. The definitions whose names say how they differ (`DueForgettingSent`,
`ToLogIfNew`, ...) are plausible mistakes, used to see that a property would
notice them.

## The runs

| run | asks | instance |
|---|---|---|
| `leave_nudge` | what a reminder may say and how often; is it a `Reminder` | 1 scan of 2 items, 2 overlapping drains, delay 1, clock to 2, 1 crash |
| `leave_nudge_live` | does every reminder settle | 2 scans, 1 drain after another, batch of 1, 1 crash; fair |
| `watch` | what overlap and loss can do to log and memory | 1 item, 2 requests, gone after 2, relog after 3, clock to 4, 1 mishap |
| `watch_loop` | is a still scene kept in the cache | 1 item, 1 request, cache lost any number of times; fair |
| `watch_blip` | is an item gone only when it was absent (no) | as `watch`, with the browser |
| `watch_nudge` | which sightings the reminder hears of | 1 scan, 1 drain, 1 watch request, relog after 2, clock to 3 |
| `brief` | one brief a day, and on which days none | days of 8 minutes, 2 days, tick every 2, lead 2, grace 1, 2 calls in flight, 1 failure |
| `routine` | what routines learn, lose and count | 2 routines, 1 item, 2 requests, 4 trips, 1 correction, window of 3 scans |
| `voice` | does standby come back, are words sent once, what takes them away | 1 engine, 1 restart, give-up after 2 failures, 1 prompt per asker, 1 stray timer |
| `recollect` | what a leave scan, a timeline and a recap say, against the log | 3 names of which 2 overlap, 1 scan of 2 items, 3 rows, clock to 2, days of 1, 2 and 1 moments, half-life 1, 2 rows a day read, window 1, 1 name a bullet, 1 bullet a message |
| `session` | is what was said remembered, what does a scan look at, and where does it file | 2 turns or scans, 1 watch frame, 2 places, a document of 1 utterance, 1 lost entry, with and without model and database |
| `session_place` | is the place that was told remembered (no) | the same, a document of 2 utterances |

Why the bounds are enough. A reminder is only ever disturbed by a second run
that holds it, by a death, and by a sighting: one of each is there, with two
items so that seeing one and not the other shows. In `watch` two requests are
what a lost update takes, and the clock reaches past both grace periods. In
`brief` the day is long enough for a window with several ticks, and its ends
are cut at midnight for early and late times; the second day shows what the
first leaves behind. In `routine` three trips promote, the fourth pushes a trip
out of the window, and the calendar has a habit, an earlier and a later odd
trip. In `voice` nothing counts but restarts, failures, prompts and stray
timers; one restart shows a turn over two engines, two failures a streak, one
prompt of each asker two starts that wait together, and one stray timer the
double restart; everything else is unbounded. In `session` a lost update takes
two turns, a place that comes from an earlier turn takes two, and two places
tell the one told from the one walked to; a turn's frame, another turn's and the
watch frame are what one can put over another; a document of one utterance drops
the first turn's when the second is saved. Tools run any number of times in a
turn. In `recollect` three rows fill a day past its limit and can be put between
any two questions of the scan; two bullets are one more than a message holds, so
the second is cut; the clock reaches the window and two half-lives, which is where
a sighting stops counting whatever its certainty; in the long day one printed
time comes twice; of the names "airpods" is part of "airpods case" and of a
detail, and "keys" of nothing. That a "+n" is cut within its number takes
a third row of one day and is left to the proof. The proofs below do not have
these bounds.

Deadlock is not checked: every model stops where its clock or its budget of
scans and failures does, and a handler waits for no other.

### What the runs show

What holds:

* A reminder that is cancelled was answered by a sighting of every item, even
  if different runs saw the items at different times (`CancelledWereSeen`).
* Twice posted, or both sent and cancelled, takes two runs that held the row at
  once, or one that died after its post (`DuplicateNeedsRace`): both can happen,
  as nothing claims a row, and then they do. Once closed and put down it stays
  quiet (`RetiredStaysQuiet`).
* An item seen before a run turned to the reminder is never named in it
  (`NamedItemsWereUnseen`); one seen during the recheck may be.
* Not logging repeats loses no sighting: what a request saw is on record, less
  than `RELOG_AFTER_SECONDS` old, with overlaps, deaths and lost memories
  (`SeenIsOnRecord`). A repeat or a false departure needs one of those.
* A reminder does not name what the camera saw `RELOG_AFTER_SECONDS` after the
  scan or later (`LateSightingsCount`).
* What a leave scan says of an item rests on the frame and on the newest the log
  has of that item: carried means last sighted on the body, and lately; missing
  means not in the frame and not surely put on the body of late
  (`VerdictOnEvidence`), whatever others write between the questions of the scan.
  Another item's sighting can stand in only where one name is part of the other
  or of a detail.
* Every row is told on its own local day, the day the clock goes back included,
  and on no other, even if it was committed after midnight; only the rows past
  `LIMIT` are not (`ToldOnItsDay`).
* A recap invents nothing, counts nothing twice and leaves nothing out, except
  past the limit, or in a message that shows it by having lost its footer; of
  such a message the last bullet may be a part, with fewer names and a smaller
  count than were meant (`RecapAccountsForAll`).
* While the camera is on, a leave scan finds a frame of a still scene
  (`StillSceneStaysCached`).
* One brief a day; a claimed day has its brief or a failure; a day that goes
  without although a time is learned had a failure, a tick that found no time,
  or a time that fell back past what grace and lead make up for
  (`OneBriefADay`, `ClaimIsSpentWell`, `LearnedDayIsBriefed`). The last does
  happen; see below.
* Routines: a correction is undone only by a scan that overlapped it
  (`LossIsCorrectionOrRace`, `ExpectedIsAccountedFor`); the count never outruns
  the trips; a learned time is never lost; a habit's time is not moved by odd
  trips.

* Standby that stood down is owed back in every state: a timer runs, or
  something is under way whose end arms one (`StandbyIsOwed`); standby that is
  up has an engine or a restart timer (`StandbyIsAlive`). Only a `start()` that
  threw makes a handler lose a live engine (`OnlyOrphansLinger`).
* What was said is sent once (`HandedOnce`). Words on the screen have a deadline
  that runs, or were left to an `onend` by a stop, an error or a `start()` that threw
  (`WordsAwaitAnEnd`). Nothing takes them away but the beginning of a new listen,
  and a callback that hands them over, to a page that makes them its turn unless
  one is at work (`WordsNotDropped`). So there are three ways to lose them, and
  all three happen; see below.
* A saved turn's words are in the session document until as many turns were
  saved after it as the document keeps, unless another turn overlapped it
  (`SaidIsRemembered`). A turn's scan never looks at a frame that was in the cache
  before the turn's own (`ScanIsNotBehind`), though it may at an older one that
  was still on its way. A place told in words is where scans
  file until a scan announces another, through deaths, quota errors and any
  number of turns (`ScanStartsWhereTold`); once a scan has announced one, the
  scans of the model's tools go on filing under the old; see below.

Where the program and its own words part, each with a run that ends in the
counterexample:

* `watch_blip`: `watch.py:36` says one hidden frame does not read as gone. It
  does after the scene was still for `GONE_AFTER_SECONDS`: frames of a still
  scene are not sent, so the last look is old when the hand passes.
* `session_place`: `context_tools.py:64` says to remember where the user is.
  `record_observation` writes it to the session document, and the turn that
  called it saves over it the copy it read before (`engine.py:223`). It takes
  one turn and no overlap. Only the ADK state still knows.

The same kind of disagreement, which the properties above leave room for in so
many words, and no run of its own states:

* `workflows.py:442` says that everything from the announced transition on
  belongs to the destination. A scan announces it under `location:<id>` and not
  in the ADK state, from which the next `check_before_leaving` takes its origin
  (`context_tools.py:55`), so that scan files under the place from before. This
  is why `ScanStartsWhereTold` ends where a scan announces a place.
* `engine.py:151` calls the frame that came with the turn the freshest there is.
  A watch frame captured before it may be cached after it, as the page waits for
  no answer (`app.js:305`), and the turn's scan looks at that. This is why
  `ScanIsNotBehind` has `astray`.
* `main.py:389` gives the grace so that a median that moves cannot step past a
  tick. One that falls back by more than 26 minutes does, and one scan can do
  that. This is why `LearnedDayIsBriefed` has `"leap"`.
* `speech.js:207` calls a transcript that was shown and never acted on the worst
  outcome there is. A tap on stop and on the microphone again before `onend`
  erases it (`speech.js:325`): `BeginsAnew` in `WordsNotDropped`. One handed over
  while another turn runs is refused by `send` (`app.js:578`): `Busy` in `Taken`.
  After a stop or an error only an `onend` hands it over, which `speech.js:337`
  says some browsers never fire: `onlyEnd` in `WordsAwaitAnEnd`.
* `index.html:62` says "Camera off". A watch that is stopped during a flip says
  so, and then the other camera opens and stays on (`camera.js:53`).

Noted besides: `main.py:518` says an item seen since the scan
is not in the reminder; with `RELOG_AFTER_SECONDS` of five minutes and a delay
of two, a sighting after the scan is usually not in the log to be found (in
`watch_nudge` with a relog of 3 the model names such an item). A day of more
than 500 rows, or a window of `/api/observations`, is read oldest first
(`db.py:278`), so the newest rows are the ones that are missing. Names match by
substring in both directions and in details (`db.py:257`), so the airpods case
on the table can hide the airpods in the ear, or the case in a hand excuse the
airpods, although `workflows.py:216` puts a wrong all-clear above a needless
reminder; the rows of one frame have one date, and which of them is the newest
is left to the database. On the night the clock goes back, things an hour apart
share a printed minute and a bullet. A repeated call posts a second recap, and
what happens after the evening's call is in none. Departures at 23:55 and 00:05
are a day apart to `_typical_minutes`. The drain compares dates as ISO strings
(`main.py:542`), and a time on a whole second prints shorter. A frame is
committed before its request is made (`app.js:300`): one that fails is not sent
again while the scene is still. `docs/architecture.md:168` says the last eight
scans *for a destination* are learned from, `workflows.py:501` takes the last
eight of all and then filters; `workflows.py:481` says departures "within
CLUSTER_SPAN_MINUTES of each other", and the code takes those within the span of
one of them, so up to twice as far apart; `watch.py:141` says the frontend no
longer calls `/api/frame`, and `app.js:275` does. An item taken away less than
`GONE_AFTER_SECONDS` after the last frame that showed it is never recorded as
gone while nothing else moves, for no second frame without it is sent. A refused
flip leaves the page "Watching" without a camera (`app.js:216`).
`_spin`'s catch (`speech.js:557`) retries every second and never gives up, as
only `onend` looks at `MAX_FAILURES`. That catch and `onend` (`speech.js:541`,
`563`) each overwrite `restartTimer` without clearing it: after the wake word is
switched off and on while its engine is releasing, two timers run, the second
`start()` throws and takes the handle of the engine that listens, and
`suspend()` then aborts nothing (`mic.orphan`). `app.js:623` gives speech 1200 ms
to finish; a longer reply is heard by standby. A place told to
`record_observation` never reaches `location:<id>`, so the watch loop goes on
filing under the old one.

## Fairness

`leave_nudge_live` assumes that the clock goes on, that the scheduler goes on
calling the drain and that a run which is not cut off runs on
(`deploy.sh` creates the cron job; each step is an `await` that returns or
raises). Nothing makes a scan happen or a camera see. `watch_loop` assumes the
interval timer, the two rests and the server's answers; nothing makes the scene
change or hold still. `Brief` needs no fairness: that the scheduler calls at
every tick is the guard of `NextMinute`, as a skipped tick is a failure of the
scheduler, and the property is about a point in time. `Voice` is checked for
safety only: that standby is owed is a fact about each state, and whether the
timers and callbacks it is owed by come is the browser's affair.

## What is proved

All for any number of items, scans, runs, requests, turns, trips, days and
crashes, and any values of the grace periods, windows and thresholds. The
assumptions on the constants are named `...Assumption` where the constants are
declared: numbers are natural or positive, minutes lie in 0..1439, there is a
turn, a routine, frames and the names of items are finite sets. Only
`CadenceAssumption` says more.

* `LeaveNudgeProofs`: type correctness, `CancelledWereSeen`,
  `DuplicateNeedsRace`, `NamedItemsWereUnseen`, `NeverEarly`,
  `RetiredStaysQuiet`, and the refinement of `Reminder`. The safety properties
  are not inductive. `IInv` adds: a queued row's scan is over, so its due time
  and items are fixed (`RowsFixed`); a run holds only queued rows that were due
  by its clock (`RunsHoldRows`, `RunsAreDue`); what a run has concluded about an
  item in hand is still true or was known (`RunsAsk`); a row two runs hold, or
  that was posted and is still open, is marked (`RacesMarked`); a closed row has
  its cause (`ClosedForCause`).
* `WatchProofs`, in two invariants. `MemoryIsBacked` and `SeenIsOnRecord` hold
  whatever goes wrong: `IInv` says of every copy of the memory in flight what
  the property says of the memory. The log only grows, so a copy that was backed
  stays so, whoever saves it last; and a request that has logged has all it was
  to log on record. `RelogNeedsMishap` and `GoneNeedsMishap` hold while nothing
  went wrong: `CalmInv` says that then one request is in service at a time, so
  what it loaded is what the log has (`LoggedAgrees`: a remembered date is the
  log's, or was dropped when the item left view) and when the frames showed each
  item (`SpottedAgrees`), and what it will save is again.
* `WatchNudgeProofs`: `LateSightingsCount`, and `CancelledWereSeen` once more
  with the watch loop at work. Nothing is proved twice: every step of the
  composition is a step or a stutter of `LeaveNudge` and one of `Watch` (with
  the dates in `seen` for its log), so both invariants above stand in it.
  `BothInv` adds what the two owe each other: what a finished request saw is on
  record to within `RelogAfter`, also as it was when a run turned to its row
  (`FinishedOnRecord`).
* `BriefProofs`: type correctness, `OneBriefADay`, `ClaimIsSpentWell` from an
  invariant that the call at work on a day is the only one and the day is in
  `agent_marks` (`ClaimHeld`, `ClaimUnique`). `LearnedDayIsBriefed` from
  `DayInv`: while the day is not claimed and nothing has excused it, every tick so
  far came before the window as the last tick judged it (`TicksBehind`); then the
  next tick, unless the time fell back by more than `Slack`, is not past it
  (`NotPastWindow`). It rests on
  `CadenceAssumption` (15 <= 25 + 1, true of `deploy.sh` and `main.py`). Of the
  time nothing is assumed: how far it may fall back is in the property.
* `SessionProofs`: type correctness, `SaidIsRemembered`, `ScanIsNotBehind`,
  `ScanStartsWhereTold`. What a property says of a store, `IInv` says of every
  copy of it that a turn will write back (`SavedIsKept`, `StateIsLastTold`); two
  turns between load and save are both in `raced` (`OverlapsAreNoted`), so a copy
  without a saved turn's words belongs to a turn that raced, or has as many later
  ones as the document keeps (`LatestKeeps`, `AppendKeeps`); the cached frame is
  the turn's own, one captured later, or one that was on its way
  (`FrameIsFresh`).
* `VoiceProofs`: type correctness and the five other invariants. First a lemma
  for each handler says what it returns from any world, then one for each action
  says what it keeps. `StandbyIsOwed` and the rest are not inductive: a handler
  called within another sees a world half changed, so `Sound` is what each of
  them keeps alone, and `Owed` what a whole callback restores. `Handles` and
  `Followed` tie the engine to the handles on it; `Once` says an engine whose
  words were handed over is mute; `Awaited` that one which may still bring words
  brings them to a listen that goes on, or to one that was left to an `onend`.
  The action property `WordsNotDropped` needs, besides, of each handler what it
  does to the words (`WordsKept`).
* `RoutineProofs`: type correctness, `ExpectedIsAccountedFor`,
  `CountedTripsWereMade`, `TimeFollowsTheHabit`, and the action properties
  `TimeIsNeverLost` and `LossIsCorrectionOrRace`. `IInv` says of the row that
  each request holds what it may write (`Writable`): the items in it are
  accounted for, its count is of trips made, and, unless another has written
  since, it is the row in the table. That trips are finite and no two of one
  time (`ScansAreDated`) makes the last few well defined. `TimeFollowsTheHabit`
  needs no step of the system: for every finite set of trips with a cluster that
  stands out, the count of neighbours is greatest at its members, and the median
  of a cluster exists (`Least`, a least-number principle from the library's
  well-founded order of finite sets).
* `RecollectProofs`: type correctness, `VerdictOnEvidence`, `ToldOnItsDay`,
  `RecapAccountsForAll`. The invariant is small (`LogOK`: the log is finite and of
  the past; `ScansOK`: what a scan under way has concluded rests on the log;
  `SaidOK`: so does what was said last). It stands between the questions of a scan
  because it is monotone: what rests on a log rests on every log that has it
  (`RestsStays`). The work is in what the handlers compute. It needs induction:
  the library's theorems have it over an operator, which the provers cannot use,
  so `Induction` says it of a set, from `Least`. With it, powers obey their laws
  (`PowerOfSum`, `PowerOfProduct`), so a sighting is worth too little after two
  half-lives (`Fades`) and enough for half of one (`Lasts`); midnights follow one
  another and each moment has one day (`DayOfIs`); and each of the three folds
  exists as a function and recurs (`FoldExists`, `FoldSteps`), so what holds of
  its first k rows (`Tells`, `Keeps`, `Lists`) holds of all. Of a message that is
  cut, `CutIsTrue` says that what is left of a bullet is still true. Each day has
  a timeline in every state (`DaysAreRead`), so the two theorems are of something.

Left to TLC: liveness under fairness (`EveryReminderSettles`,
`StillSceneStaysCached`), which is beyond the prover, and the runs that end in a
counterexample.

## Bounds and abstractions to know of

* Names match exactly in the modules of the reminders, the watch and the
  routines; the program's substring match is in `Recall`.
* Two rows that are alike in all that the queries look at are one row in
  `Recall`; places (`location_label`) and the narration by the model are left
  out. The recap reads the log and posts in one step.
* Clocks of instances agree. Days of the brief have no daylight-saving jump.
* `call` in `Brief` reads the routines and the clock in one step, at most a
  query apart in the code.
* Slack's answer to a reminder is dropped by the code, so a failed post and a
  post are one action there; the brief reports it, so there it is two.
* `Voice` believes the comments that `start()` throws while an engine is held;
  a browser that lets two run is outside it. An engine of the `WakeWord` always
  calls its `onend` (nothing watches for one that does not); one of the
  `Listener` may not. `Speaker.unlock` and an utterance that iOS swallows
  (`speech.js:77`) are left out. A turn is over at any time after its start.
* `Session` runs one tool of a turn at a time. The caches and an ADK session
  without a database live in one instance or are shared; a request that reaches
  an instance without them is an entry lost. Of the document the location and the
  utterances are kept. That `location.normalise` capitalises the first
  letter of a label under `location:<id>` is left out.
* Not modelled: wording, the patterns by which an utterance is classified
  (`intents.py` keeps no state, and `Session` lets a turn take any path), the
  model's choice of tool, pixels, the two kinds of cache and store as such, the
  globe, configuration and logging.

## Plan

1. Done: `LeaveNudge` and `Reminder` first, as the reminders are what the
   service does on its own; `Watch`, `WatchLoop`, `WatchNudge`; `Brief`;
   `Routine`; `Voice`; `Session`; `Recall`, `Timeline` and `Recollect`.
2. Done: proofs of every safety property, for `LeaveNudge`, `Watch`, `Brief`,
   `Session`, `Voice`, `Routine`, `WatchNudge` and `Recollect`.
3. Next: that what the watch files is what `Recollect` lets it file, and that the
   answers of `Recall` are never empty when the log has a sighting.
