------------------------------ MODULE WatchNudge ------------------------------
(***************************************************************************)
(* The watch loop and the reminders share the observation log: what a watch *)
(* request logs is what a drain run's recall finds.  The watch loop does    *)
(* not log what it logged a moment ago (RELOG_AFTER_SECONDS, five minutes), *)
(* a reminder comes due a little after its scan (LEAVE_NUDGE_DELAY_MINUTES, *)
(* two minutes): so what the agent has seen and what the log can say it has *)
(* seen are two things, and this module tells them apart.                   *)
(*                                                                          *)
(* Watch requests and leave scans are the only writers of the log here.     *)
(***************************************************************************)
EXTENDS LeaveNudge

CONSTANTS
    Requests,     \* observe requests that may be in flight at once
    GoneAfter,    \* GONE_AFTER_SECONDS, in minutes
    RelogAfter,   \* RELOG_AFTER_SECONDS, in minutes
    MaxMishaps    \* bound: requests that die and memories that are lost

ASSUME WatchNumbersAssumption ==
    /\ GoneAfter \in Nat \ {0} /\ RelogAfter \in Nat \ {0} /\ MaxMishaps \in Nat

VARIABLES req, memory, frame, departed, spotted, relogged, hasty, upset, mishaps,
    finished,     \* history: date of the newest finished request that saw i
    shown         \* history: finished, when drain run d turned to its row

\* The newest item observation of i, whoever made it.
LogDates == [i \in Items |-> seen[i].at]

W == INSTANCE Watch WITH sighted <- LogDates

nudgeOnly == <<scan, queued, sent, cancelled, drain, deliveries, raced, crashes>>
watchOnly == <<req, memory, frame, departed, spotted, relogged, hasty, upset, mishaps>>
bothVars == <<vars, watchOnly, finished, shown>>

BothInit ==
    /\ Init /\ W!Init
    /\ finished = W!Blank
    /\ shown = [d \in Drains |-> W!Blank]

TimePasses ==
    /\ Tick /\ W!Tick
    /\ UNCHANGED <<finished, shown>>

\* add_observations, seen from both sides: the rows the watch request writes.
WatchLogs(r, worn) ==
    /\ seen' = [i \in Items |-> IF i \in W!ToLog(r) /\ req[r].now >= seen[i].at
                                THEN [at |-> req[r].now, worn |-> worn] ELSE seen[i]]
    /\ W!Log(r)
    /\ UNCHANGED <<nudgeOnly, finished, shown>>

WatchSaves(r) ==
    /\ UNCHANGED <<seen, nudgeOnly, shown>>
    /\ W!Save(r)
    /\ finished' = [i \in Items |-> IF i \in req[r].sees /\ req[r].now > finished[i]
                                    THEN req[r].now ELSE finished[i]]

WatchWorks ==
    /\ UNCHANGED <<seen, nudgeOnly, finished, shown>>
    /\ \/ \E r \in Requests :
            \/ \E shows \in SUBSET Items : W!Post(r, "sent", shows)
            \/ W!Arrive(r)
            \/ W!SeeNothing(r)
            \/ \E sees \in SUBSET req[r].shows : W!Look(r, sees)
            \/ W!RequestDies(r)
       \/ W!MemoryLost

ScanWorks(s) ==
    /\ ScanStep(s) \/ ScanDies(s)
    /\ UNCHANGED <<watchOnly, finished, shown>>

DrainTurns(d, n) ==
    /\ DrainTake(d, n)
    /\ shown' = [shown EXCEPT ![d] = finished]
    /\ UNCHANGED <<watchOnly, finished>>

DrainWorks(d) ==
    /\ \/ DrainBegin(d)
       \/ DrainRead(d)
       \/ \E i \in Items : Recheck(d, i)
       \/ Cancel(d)
       \/ Send(d)
       \/ CloseSent(d)
       \/ DrainEnd(d)
       \/ DrainDies(d)
    /\ UNCHANGED <<watchOnly, finished, shown>>

BothNext ==
    \/ TimePasses
    \/ \E r \in Requests : WatchSaves(r) \/ \E worn \in BOOLEAN : WatchLogs(r, worn)
    \/ WatchWorks
    \/ \E s \in Scans : ScanWorks(s)
    \/ \E d \in Drains : DrainWorks(d) \/ \E n \in Scans : DrainTurns(d, n)

BothSpec == BothInit /\ [][BothNext]_bothVars

-------------------------------------------------------------------------------
(* Properties. *)

(* How long the camera must watch for the reminder to hear of it: a reminder   *)
(* never names an item that a watch request dated RelogAfter or more after the *)
(* scan had seen, and was done with, when the run turned to the reminder.      *)
LateSightingsCount ==
    \A d \in Drains : \A i \in drain[d].still :
        shown[d][i] - scan[drain[d].cur].at < RelogAfter
===============================================================================
