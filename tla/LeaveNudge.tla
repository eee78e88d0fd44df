------------------------------ MODULE LeaveNudge ------------------------------
(***************************************************************************)
(* The life of one reminder: a leave scan (agent/workflows.leave_detection) *)
(* finds items missing and, several awaits later, queues a row in           *)
(* pending_nudges; drain runs (main.task_drain_nudges) read the rows that   *)
(* are due, ask the observation log again about every missing item, and     *)
(* cancel the row or post to Slack and then close it.  Nothing is locked:   *)
(* runs overlap, a request dies between any two awaits, and other writers   *)
(* (watch ticks, record_observation) add sightings all the while.           *)
(*                                                                          *)
(* A reminder is named by the scan that raised it.  The log is abstracted   *)
(* to the newest sighting of each item, all that a limit=1 recall returns.  *)
(* The routine a scan refines and the location it announces, between        *)
(* RecordScan and EnqueueNudge, are other modules; dying among those awaits *)
(* is dying in state "recorded".                                            *)
(***************************************************************************)
EXTENDS Integers, FiniteSets

CONSTANTS
    Items,        \* what the routine expects the user to take
    Scans,        \* leave scans, and so the rows they may queue
    Drains,       \* drain requests that may be in flight at once
    NoNudge,      \* "no row in hand"
    Delay,        \* leave_nudge_delay_minutes
    Fresh,        \* how long an on-person sighting is trusted above "low"
    BatchLimit,   \* the LIMIT of due_nudges
    MaxTime,      \* bound: the last minute of the clock
    MaxCrashes    \* bound: requests that die part-way

ASSUME NoNudgeAssumption == NoNudge \notin Scans
ASSUME NumbersAssumption == /\ Delay \in Nat /\ Fresh \in Nat
                            /\ BatchLimit \in Nat \ {0}
                            /\ MaxTime \in Nat /\ MaxCrashes \in Nat

VARIABLES
    clock,        \* minutes
    seen,         \* seen[i]: the newest item observation of i; at = -1 is none
    scan,         \* scan[s]: where leave_detection s stands, and its locals
    queued,       \* rows inserted into pending_nudges
    sent,         \* rows with sent_at set
    cancelled,    \* rows with cancelled_at set
    drain,        \* drain[d]: where drain run d stands, and its locals
    deliveries,   \* history: posts to Slack per row
    raced,        \* history: rows two runs held at once, or a run left unclosed
    crashes       \* bound: requests that have died

vars == <<clock, seen, scan, queued, sent, cancelled, drain, deliveries, raced, crashes>>

Moments == 0 .. MaxTime
Sightings == [at : Moments \cup {-1}, worn : BOOLEAN]
ScanStates == [pc : {"idle", "looking", "asking", "logged", "recorded", "done", "dead"},
               at : Moments, found : SUBSET Items,
               unasked : SUBSET Items, missing : SUBSET Items]
DrainStates == [pc : {"idle", "begun", "working", "asking", "sent"},
                now : Moments, todo : SUBSET Scans, cur : Scans \cup {NoNudge},
                unasked : SUBSET Items, still : SUBSET Items,
                known : SUBSET Items]

TypeOK ==
    /\ clock \in Moments
    /\ seen \in [Items -> Sightings]
    /\ scan \in [Scans -> ScanStates]
    /\ queued \in SUBSET Scans
    /\ sent \in SUBSET Scans
    /\ cancelled \in SUBSET Scans
    /\ drain \in [Drains -> DrainStates]
    /\ deliveries \in [Scans -> Nat]
    /\ raced \in SUBSET Scans
    /\ crashes \in 0 .. MaxCrashes
    \* a run has a row in hand exactly while it asks about it or has posted it
    /\ \A d \in Drains : drain[d].cur # NoNudge <=> drain[d].pc \in {"asking", "sent"}

IdleDrain == [pc |-> "idle", now |-> 0, todo |-> {}, cur |-> NoNudge,
              unasked |-> {}, still |-> {}, known |-> {}]

Init ==
    /\ clock = 0
    /\ seen = [i \in Items |-> [at |-> -1, worn |-> FALSE]]
    /\ scan = [s \in Scans |-> [pc |-> "idle", at |-> 0, found |-> {},
                                unasked |-> {}, missing |-> {}]]
    /\ queued = {} /\ sent = {} /\ cancelled = {}
    /\ drain = [d \in Drains |-> IdleDrain]
    /\ deliveries = [s \in Scans |-> 0]
    /\ raced = {}
    /\ crashes = 0

DueAt(n) == scan[n].at + Delay
Closed(n) == n \in sent \cup cancelled

-------------------------------------------------------------------------------
(* The world outside the two handlers. *)

Tick ==
    /\ clock < MaxTime
    /\ clock' = clock + 1
    /\ UNCHANGED <<seen, scan, queued, sent, cancelled, drain, deliveries, raced, crashes>>

\* Another writer commits an item observation it dated when its request began.
\* One older than the newest changes nothing a recall returns.
Sight(i, at, worn) ==
    /\ at >= seen[i].at
    /\ seen' = [seen EXCEPT ![i] = [at |-> at, worn |-> worn]]
    /\ UNCHANGED <<clock, scan, queued, sent, cancelled, drain, deliveries, raced, crashes>>

-------------------------------------------------------------------------------
(* leave_detection, one action per await that touches shared state. *)

AdvanceScan(s, from, to) ==
    /\ scan[s].pc = from
    /\ scan' = [scan EXCEPT ![s].pc = to]
    /\ UNCHANGED <<clock, queued, sent, cancelled, drain, deliveries, raced, crashes>>

\* `now` is taken on entry, before the routine, the frame and the vision call.
\* Bound: a scan begins early enough for its reminder to come due by MaxTime.
BeginScan(s) ==
    /\ scan[s].pc = "idle"
    /\ clock + Delay <= MaxTime
    /\ scan' = [scan EXCEPT ![s].pc = "looking", ![s].at = clock]
    /\ UNCHANGED <<clock, seen, queued, sent, cancelled, drain, deliveries, raced, crashes>>

\* No frame, or vision unavailable: nothing is missing and nothing is persisted.
LookBlind(s) ==
    /\ AdvanceScan(s, "looking", "done")
    /\ UNCHANGED seen

Look(s, found) ==
    /\ scan[s].pc = "looking"
    /\ scan' = [scan EXCEPT ![s].pc = "asking", ![s].found = found,
                            ![s].unasked = Items \ found]
    /\ UNCHANGED <<clock, seen, queued, sent, cancelled, drain, deliveries, raced, crashes>>

\* _carried_check: the newest sighting has the item on the user, and recently.
Carried(s, i) ==
    /\ seen[i].at # -1
    /\ seen[i].worn
    /\ scan[s].at - seen[i].at <= Fresh

AskLog(s, i) ==
    /\ scan[s].pc = "asking"
    /\ i \in scan[s].unasked
    /\ scan' = [scan EXCEPT ![s].unasked = @ \ {i},
                            ![s].missing = IF Carried(s, i) THEN @ ELSE @ \cup {i}]
    /\ UNCHANGED <<clock, seen, queued, sent, cancelled, drain, deliveries, raced, crashes>>

\* add_observations: the found items, in one transaction, dated when the scan began.
LogFound(s, worn) ==
    /\ scan[s].unasked = {}
    /\ AdvanceScan(s, "asking", "logged")
    /\ seen' = [i \in Items |-> IF i \in scan[s].found /\ scan[s].at >= seen[i].at
                                THEN [at |-> scan[s].at, worn |-> i \in worn]
                                ELSE seen[i]]

RecordScan(s) ==
    /\ AdvanceScan(s, "logged", "recorded")
    /\ UNCHANGED seen

AllPresent(s) ==
    /\ scan[s].missing = {}
    /\ AdvanceScan(s, "recorded", "done")
    /\ UNCHANGED seen

EnqueueNudge(s) ==
    /\ scan[s].pc = "recorded"
    /\ scan[s].missing # {}
    /\ queued' = queued \cup {s}
    /\ scan' = [scan EXCEPT ![s].pc = "done"]
    /\ UNCHANGED <<clock, seen, sent, cancelled, drain, deliveries, raced, crashes>>

\* The request fails or its instance goes: what it committed stays committed.
ScanDies(s) ==
    /\ crashes < MaxCrashes
    /\ scan[s].pc \notin {"idle", "done", "dead"}
    /\ scan' = [scan EXCEPT ![s].pc = "dead"]
    /\ crashes' = crashes + 1
    /\ UNCHANGED <<clock, seen, queued, sent, cancelled, drain, deliveries, raced>>

-------------------------------------------------------------------------------
(* task_drain_nudges, one action per await. *)

Held(d) == drain[d].todo \cup ({drain[d].cur} \ {NoNudge})

DrainBegin(d) ==
    /\ drain[d].pc = "idle"
    /\ drain' = [drain EXCEPT ![d].pc = "begun", ![d].now = clock]
    /\ UNCHANGED <<clock, seen, scan, queued, sent, cancelled, deliveries, raced, crashes>>

\* The rows due_nudges selects: neither stamped, and due by the run's own clock.
DueForgettingSent(d) == {n \in queued \ cancelled : DueAt(n) <= drain[d].now}
DueForgettingCancelled(d) == {n \in queued \ sent : DueAt(n) <= drain[d].now}
DueIgnoringTime(d) == {n \in queued : ~Closed(n)}
Due(d) == {n \in queued : ~Closed(n) /\ DueAt(n) <= drain[d].now}

\* ORDER BY due_at LIMIT n: as many as fit, none of them later than one left out.
IsBatch(B, due) ==
    /\ Cardinality(B) <= BatchLimit
    /\ B # due => Cardinality(B) = BatchLimit
    /\ \A b \in B, r \in due \ B : DueAt(b) <= DueAt(r)

\* Reading claims nothing: the rows stay open for every other run.
DrainRead(d) ==
    /\ drain[d].pc = "begun"
    /\ \E B \in SUBSET Due(d) :
        /\ IsBatch(B, Due(d))
        /\ drain' = [drain EXCEPT ![d].pc = "working", ![d].todo = B]
        /\ raced' = raced \cup UNION {B \cap Held(e) : e \in Drains \ {d}}
    /\ UNCHANGED <<clock, seen, scan, queued, sent, cancelled, deliveries, crashes>>

\* recall found, and newest sighting dated after the scan.
SeenSince(n, i) == seen[i].at > scan[n].at

\* The next row of the batch, earliest due first.
DrainTake(d, n) ==
    /\ drain[d].pc = "working"
    /\ n \in drain[d].todo
    /\ \A m \in drain[d].todo : DueAt(n) <= DueAt(m)
    /\ drain' = [drain EXCEPT ![d].pc = "asking", ![d].cur = n, ![d].todo = @ \ {n},
                    ![d].unasked = scan[n].missing, ![d].still = {},
                    ![d].known = {i \in scan[n].missing : SeenSince(n, i)}]
    /\ UNCHANGED <<clock, seen, scan, queued, sent, cancelled, deliveries, raced, crashes>>

RecheckAgainstNow(d, i) ==
    /\ drain[d].pc = "asking"
    /\ i \in drain[d].unasked
    /\ drain' = [drain EXCEPT ![d].unasked = @ \ {i},
                    ![d].still = IF seen[i].at > drain[d].now THEN @ ELSE @ \cup {i}]
    /\ UNCHANGED <<clock, seen, scan, queued, sent, cancelled, deliveries, raced, crashes>>

Recheck(d, i) ==
    /\ drain[d].pc = "asking"
    /\ i \in drain[d].unasked
    /\ drain' = [drain EXCEPT ![d].unasked = @ \ {i},
                    ![d].still = IF SeenSince(drain[d].cur, i) THEN @ ELSE @ \cup {i}]
    /\ UNCHANGED <<clock, seen, scan, queued, sent, cancelled, deliveries, raced, crashes>>

\* Put the row down and go on with the batch.
PutDownKeepingRow(d) ==
    drain' = [drain EXCEPT ![d].pc = "working", ![d].unasked = {},
                           ![d].still = {}, ![d].known = {}]

PutDown(d) ==
    drain' = [drain EXCEPT ![d].pc = "working", ![d].cur = NoNudge,
                           ![d].unasked = {}, ![d].still = {}, ![d].known = {}]

CancelIfAnySeen(d) ==
    /\ drain[d].pc = "asking"
    /\ drain[d].unasked = {}
    /\ drain[d].still # scan[drain[d].cur].missing
    /\ cancelled' = cancelled \cup {drain[d].cur}
    /\ PutDown(d)
    /\ UNCHANGED <<clock, seen, scan, queued, sent, deliveries, raced, crashes>>

\* close_nudge(sent=False) left out.
CancelNothing(d) ==
    /\ drain[d].pc = "asking"
    /\ drain[d].unasked = {}
    /\ drain[d].still = {}
    /\ PutDown(d)
    /\ UNCHANGED <<clock, seen, scan, queued, sent, cancelled, deliveries, raced, crashes>>

Cancel(d) ==
    /\ drain[d].pc = "asking"
    /\ drain[d].unasked = {}
    /\ drain[d].still = {}
    /\ cancelled' = cancelled \cup {drain[d].cur}
    /\ PutDown(d)
    /\ UNCHANGED <<clock, seen, scan, queued, sent, deliveries, raced, crashes>>

\* Notifier.send never raises and its verdict is dropped: one outcome.
Send(d) ==
    /\ drain[d].pc = "asking"
    /\ drain[d].unasked = {}
    /\ drain[d].still # {}
    /\ deliveries' = [deliveries EXCEPT ![drain[d].cur] = @ + 1]
    /\ drain' = [drain EXCEPT ![d].pc = "sent"]
    /\ UNCHANGED <<clock, seen, scan, queued, sent, cancelled, raced, crashes>>

\* An UPDATE by id: it does not look whether the row was closed meanwhile.
CloseSent(d) ==
    /\ drain[d].pc = "sent"
    /\ sent' = sent \cup {drain[d].cur}
    /\ PutDown(d)
    /\ UNCHANGED <<clock, seen, scan, queued, cancelled, deliveries, raced, crashes>>

DrainEnd(d) ==
    /\ drain[d].pc = "working"
    /\ drain[d].todo = {}
    /\ drain' = [drain EXCEPT ![d] = IdleDrain]
    /\ UNCHANGED <<clock, seen, scan, queued, sent, cancelled, deliveries, raced, crashes>>

\* The run is cut off: a posted row it had not closed yet is open to the next run.
DrainDies(d) ==
    /\ crashes < MaxCrashes
    /\ drain[d].pc # "idle"
    /\ raced' = IF drain[d].pc = "sent" THEN raced \cup {drain[d].cur} ELSE raced
    /\ drain' = [drain EXCEPT ![d] = IdleDrain]
    /\ crashes' = crashes + 1
    /\ UNCHANGED <<clock, seen, scan, queued, sent, cancelled, deliveries>>

-------------------------------------------------------------------------------
ScanStep(s) ==
    \/ BeginScan(s)
    \/ LookBlind(s)
    \/ \E found \in SUBSET Items : Look(s, found)
    \/ \E i \in Items : AskLog(s, i)
    \/ \E worn \in SUBSET scan[s].found : LogFound(s, worn)
    \/ RecordScan(s)
    \/ AllPresent(s)
    \/ EnqueueNudge(s)

DrainStep(d) ==
    \/ DrainBegin(d)
    \/ DrainRead(d)
    \/ \E n \in Scans : DrainTake(d, n)
    \/ \E i \in Items : Recheck(d, i)
    \/ Cancel(d)
    \/ Send(d)
    \/ CloseSent(d)
    \/ DrainEnd(d)

Next ==
    \/ Tick
    \/ \E i \in Items, at \in 0 .. clock, worn \in BOOLEAN : Sight(i, at, worn)
    \/ \E s \in Scans : ScanStep(s) \/ ScanDies(s)
    \/ \E d \in Drains : DrainStep(d) \/ DrainDies(d)

Spec == Init /\ [][Next]_vars

\* Time passes, the scheduler keeps calling the drain, and a run that is not cut
\* off runs on.  Nothing makes a user scan or a camera see.
Fairness == WF_vars(Tick) /\ \A d \in Drains : WF_vars(DrainStep(d))
FairSpec == Spec /\ Fairness

-------------------------------------------------------------------------------
(* Properties. *)

(* A cancelled reminder was cancelled on evidence: every item it was about has *)
(* a sighting dated after the scan that found it missing, even if only some of *)
(* them had turned up when another run looked (main.py:537-556).               *)
CancelledWereSeen ==
    \A n \in cancelled : \A i \in scan[n].missing : seen[i].at > scan[n].at

(* A reminder goes out twice, or is stamped both sent and cancelled, only when *)
(* two runs held it at once or a run died between the post and the close:      *)
(* runs that neither overlap nor die deliver each reminder at most once.       *)
DuplicateNeedsRace ==
    \A n \in Scans : deliveries[n] > 1 \/ n \in sent \cap cancelled => n \in raced

(* The reminder never names an item whose newer sighting was already in the    *)
(* log when the run turned to that reminder, however the log grew meanwhile.   *)
NamedItemsWereUnseen ==
    \A d \in Drains : drain[d].still \cap drain[d].known = {}

(* No reminder is posted before its delay has passed (test_nudges.py: firing   *)
(* at the moment of the scan is just the scan again).                          *)
NeverEarly ==
    \A n \in Scans : deliveries[n] > 0 => DueAt(n) <= clock

Retired(n) == Closed(n) /\ \A d \in Drains : n \notin Held(d)

(* Once a row is closed and no run holds it, it is never posted again, by any  *)
(* later run.                                                                  *)
QuietStep ==
    \A n \in Scans : Retired(n) => Retired(n)' /\ deliveries'[n] = deliveries[n]
RetiredStaysQuiet == [][QuietStep]_vars

Vouched == {n \in queued : \A i \in scan[n].missing : SeenSince(n, i)}
Posted == {n \in Scans : deliveries[n] > 0}
Promise == INSTANCE Reminder WITH
    Nudges <- Scans, raised <- queued, vouched <- Vouched, posted <- Posted

(* Rows, overlapping runs and dying requests implement the promise of Reminder. *)
ImplementsReminder == Promise!SafeSpec

(* Every queued reminder is eventually delivered or cancelled.                 *)
EveryReminderSettles == \A n \in Scans : n \in queued ~> Closed(n)
===============================================================================
