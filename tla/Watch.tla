--------------------------------- MODULE Watch ---------------------------------
(***************************************************************************)
(* The server's half of the watch loop (agent/watch.observe_tick and        *)
(* /api/frame).  A request carries a frame; vision says what it shows; the  *)
(* answer is compared with what the session remembers, sightings and        *)
(* departures are logged, and what to remember is saved for the next frame. *)
(* The memory is one cache entry, read before the log is written and        *)
(* written back after, with no lock: two requests of one session may be in  *)
(* service at once, a request may die between the two, and the entry may be *)
(* lost (an hour's TTL, or the instance whose in-process cache held it).    *)
(*                                                                          *)
(* A frame is abstracted to the items it shows, and here any frame may come *)
(* at any time; WatchLoop adds the browser that decides which do.  The log  *)
(* is abstracted to the newest sighting and departure of each item.         *)
(***************************************************************************)
EXTENDS Integers, FiniteSets

CONSTANTS
    Items,        \* what vision can name
    Requests,     \* observe requests that may be in flight at once
    GoneAfter,    \* GONE_AFTER_SECONDS
    RelogAfter,   \* RELOG_AFTER_SECONDS
    MaxTime,      \* bound: the last instant of the clock
    MaxMishaps    \* bound: requests that die and memories that are lost

Never == -1

ASSUME NumbersAssumption == /\ GoneAfter \in Nat \ {0} /\ RelogAfter \in Nat \ {0}
                            /\ MaxTime \in Nat /\ MaxMishaps \in Nat

VARIABLES
    clock,        \* seconds, in the unit of the constants
    req,          \* req[r]: where observe request r stands, and its locals
    memory,       \* the cache entry watch:<session>: items and logged
    frame,        \* the cache entry frame:<session>: {} or {what it shows}
    sighted,      \* sighted[i]: newest item observation of i in the log
    departed,     \* departed[i]: newest "left view" observation of i
    spotted,      \* history: date of the newest request that saw i
    relogged,     \* history: items logged again too soon
    hasty,        \* history: items reported gone though a request saw them lately
    upset,        \* history: requests overlapped, one died, or memory was lost
    mishaps

vars == <<clock, req, memory, frame, sighted, departed, spotted, relogged, hasty, upset,
          mishaps>>
log == <<sighted, departed>>
history == <<spotted, relogged, hasty, upset>>

Moments == 0 .. MaxTime
Dates == [Items -> Moments \cup {Never}]
Blank == [i \in Items |-> Never]
Nothing == [items |-> Blank, logged |-> Blank]
Memories == [items : Dates, logged : Dates]
IdleRequest == [pc |-> "idle", shows |-> {}, now |-> 0, sees |-> {}, was |-> Nothing]

TypeOK ==
    /\ clock \in Moments
    /\ req \in [Requests -> [pc : {"idle", "warming", "sent", "looking", "loaded", "logged"},
                             shows : SUBSET Items, now : Moments,
                             sees : SUBSET Items, was : Memories]]
    /\ memory \in Memories /\ frame \in SUBSET SUBSET Items
    /\ sighted \in Dates /\ departed \in Dates
    /\ spotted \in Dates
    /\ relogged \subseteq Items /\ hasty \subseteq Items
    /\ upset \in BOOLEAN /\ mishaps \in 0 .. MaxMishaps
    \* a request names only what its frame shows
    /\ \A r \in Requests : req[r].sees \subseteq req[r].shows

Init ==
    /\ clock = 0
    /\ req = [r \in Requests |-> IdleRequest]
    /\ memory = Nothing /\ frame = {}
    /\ sighted = Blank /\ departed = Blank
    /\ spotted = Blank
    /\ relogged = {} /\ hasty = {} /\ upset = FALSE /\ mishaps = 0

-------------------------------------------------------------------------------
Tick ==
    /\ clock < MaxTime
    /\ clock' = clock + 1
    /\ UNCHANGED <<req, memory, frame, log, history, mishaps>>

\* The browser posts a frame to /api/observe ("sent") or to /api/frame ("warming").
Post(r, pc, shows) ==
    /\ req[r].pc = "idle"
    /\ req' = [req EXCEPT ![r] = [IdleRequest EXCEPT !.pc = pc, !.shows = shows]]
    /\ UNCHANGED <<clock, memory, frame, log, history, mishaps>>

-------------------------------------------------------------------------------
(* observe_tick, one action per await that touches shared state. *)

InService(r) == req[r].pc \in {"looking", "loaded", "logged"}

\* /api/frame only caches what it is sent.
KeepWarm(r) ==
    /\ req[r].pc = "warming"
    /\ frame' = {req[r].shows}
    /\ req' = [req EXCEPT ![r] = IdleRequest]
    /\ UNCHANGED <<clock, memory, log, history, mishaps>>

\* `now` is taken on entry; put_frame comes before vision is asked.
Arrive(r) ==
    /\ req[r].pc = "sent"
    /\ req' = [req EXCEPT ![r].pc = "looking", ![r].now = clock]
    /\ frame' = {req[r].shows}
    /\ upset' = (upset \/ \E q \in Requests : InService(q))
    /\ UNCHANGED <<clock, memory, log, spotted, relogged, hasty, mishaps>>

\* Vision unavailable: nothing is remembered and nothing is logged.
SeeNothing(r) ==
    /\ req[r].pc = "looking"
    /\ req' = [req EXCEPT ![r] = IdleRequest]
    /\ UNCHANGED <<clock, memory, frame, log, history, mishaps>>

\* The answer, less the guesses below MIN_CONFIDENCE; then _load_state.
Look(r, sees) ==
    /\ req[r].pc = "looking"
    /\ req' = [req EXCEPT ![r].pc = "loaded", ![r].sees = sees, ![r].was = memory]
    /\ spotted' = [i \in Items |-> IF i \in sees /\ req[r].now > spotted[i]
                                   THEN req[r].now ELSE spotted[i]]
    /\ UNCHANGED <<clock, memory, frame, log, relogged, hasty, upset, mishaps>>

Since(r, t) == req[r].now - t

\* The grace period left out.
LeftViewAtOnce(r) == {i \in Items \ req[r].sees : req[r].was.items[i] # Never}

\* left_view: remembered, not in this frame, and last seen long enough ago.
LeftView(r) ==
    {i \in Items \ req[r].sees : /\ req[r].was.items[i] # Never
                                 /\ Since(r, req[r].was.items[i]) >= GoneAfter}

\* Logged once and never again.
ToLogIfNew(r) == {i \in req[r].sees : req[r].was.logged[i] = Never}

\* What is in view and was not logged a moment ago.
ToLog(r) ==
    {i \in req[r].sees : \/ req[r].was.logged[i] = Never
                         \/ Since(r, req[r].was.logged[i]) >= RelogAfter}

Later(a, b) == IF a > b THEN a ELSE b

\* add_observations: sightings and departures in one transaction, dated `now`.
Log(r) ==
    /\ req[r].pc = "loaded"
    /\ sighted' = [i \in Items |-> IF i \in ToLog(r) THEN Later(req[r].now, sighted[i])
                                   ELSE sighted[i]]
    /\ departed' = [i \in Items |-> IF i \in LeftView(r) THEN Later(req[r].now, departed[i])
                                    ELSE departed[i]]
    /\ relogged' = relogged \cup {i \in ToLog(r) : /\ sighted[i] # Never
                                                   /\ Since(r, sighted[i]) < RelogAfter
                                                   /\ departed[i] < sighted[i]}
    /\ hasty' = hasty \cup {i \in LeftView(r) : Since(r, spotted[i]) < GoneAfter}
    /\ req' = [req EXCEPT ![r].pc = "logged"]
    /\ UNCHANGED <<clock, memory, frame, spotted, upset, mishaps>>

\* Seen now, or unseen for less than GoneAfter: remembered.
Remembered(r) ==
    [i \in Items |-> IF i \in req[r].sees THEN req[r].now
                     ELSE IF i \in LeftView(r) THEN Never ELSE req[r].was.items[i]]
\* The date refreshed by every sight, logged or not.
LoggedAtOnSight(r) ==
    [i \in Items |-> IF i \in req[r].sees THEN req[r].now
                     ELSE IF i \in LeftView(r) THEN Never ELSE req[r].was.logged[i]]

LoggedAt(r) ==
    [i \in Items |-> IF i \in ToLog(r) THEN req[r].now
                     ELSE IF i \in LeftView(r) THEN Never ELSE req[r].was.logged[i]]

\* What was logged when is not carried over.
SaveForgettingLogged(r) ==
    /\ req[r].pc = "logged"
    /\ memory' = [items |-> Remembered(r), logged |-> Blank]
    /\ req' = [req EXCEPT ![r] = IdleRequest]
    /\ UNCHANGED <<clock, frame, log, history, mishaps>>

\* _save_state replaces the entry, whatever another request saved meanwhile.
Save(r) ==
    /\ req[r].pc = "logged"
    /\ memory' = [items |-> Remembered(r), logged |-> LoggedAt(r)]
    /\ req' = [req EXCEPT ![r] = IdleRequest]
    /\ UNCHANGED <<clock, frame, log, history, mishaps>>

\* The request fails or its instance goes.  What it logged stays logged.
RequestDies(r) ==
    /\ mishaps < MaxMishaps
    /\ req[r].pc # "idle"
    /\ req' = [req EXCEPT ![r] = IdleRequest]
    /\ upset' = (upset \/ req[r].pc \in {"loaded", "logged"})
    /\ mishaps' = mishaps + 1
    /\ UNCHANGED <<clock, memory, frame, log, spotted, relogged, hasty>>

\* An entry without its two halves.
MemoryLostBare ==
    /\ mishaps < MaxMishaps
    /\ memory # Nothing
    /\ memory' = [items |-> Blank]
    /\ upset' = TRUE
    /\ mishaps' = mishaps + 1
    /\ UNCHANGED <<clock, req, frame, log, spotted, relogged, hasty>>

\* The entry expires, or goes with the instance that held it, or does not parse.
MemoryLost ==
    /\ mishaps < MaxMishaps
    /\ memory # Nothing
    /\ memory' = Nothing
    /\ upset' = TRUE
    /\ mishaps' = mishaps + 1
    /\ UNCHANGED <<clock, req, frame, log, spotted, relogged, hasty>>

\* FRAME_TTL_SECONDS, or the instance that held it.
FrameLost ==
    /\ frame # {}
    /\ frame' = {}
    /\ UNCHANGED <<clock, req, memory, log, history, mishaps>>

-------------------------------------------------------------------------------
Serve(r) ==
    \/ KeepWarm(r)
    \/ Arrive(r)
    \/ SeeNothing(r)
    \/ \E sees \in SUBSET req[r].shows : Look(r, sees)
    \/ Log(r)
    \/ Save(r)

Server ==
    \/ Tick
    \/ \E r \in Requests : Serve(r) \/ RequestDies(r)
    \/ MemoryLost
    \/ FrameLost

Next ==
    \/ Server
    \/ \E r \in Requests, pc \in {"sent", "warming"}, shows \in SUBSET Items : Post(r, pc, shows)

Spec == Init /\ [][Next]_vars

-------------------------------------------------------------------------------
(* Properties. *)

(* Whatever a request saw is in the log when it is done, by its own row or by  *)
(* one less than RelogAfter older: suppressing repeats never loses a sighting, *)
(* with requests overlapping, dying and losing what they remember.             *)
SeenIsOnRecord ==
    \A r \in Requests : req[r].pc = "logged" =>
        \A i \in req[r].sees : sighted[i] # Never /\ Since(r, sighted[i]) < RelogAfter

(* An item that simply sits there is logged again within RelogAfter only when  *)
(* requests overlapped, one died before it saved, or the memory was lost.      *)
RelogNeedsMishap == relogged # {} => upset

(* An item a request saw less than GoneAfter ago is reported gone only when    *)
(* requests overlapped, one died before it saved, or the memory was lost.      *)
GoneNeedsMishap == hasty # {} => upset

(* What the session remembers of the log is never ahead of the log, and it     *)
(* never remembers an item in view that the log has not got.                   *)
MemoryIsBacked ==
    \A i \in Items : /\ memory.logged[i] <= sighted[i]
                     /\ memory.items[i] # Never => sighted[i] # Never
===============================================================================
