--------------------------------- MODULE Brief ---------------------------------
(***************************************************************************)
(* The morning brief (main.task_morning_brief).  Cloud Scheduler calls the  *)
(* endpoint every CronEvery minutes of every day; a call that falls inside  *)
(* the window around the learned departure time claims the day in           *)
(* agent_marks and, if it was the first to claim it, posts to Slack.  Calls *)
(* overlap and may be delivered twice, a call may die after the claim, and  *)
(* the learned time moves with every leave scan.                            *)
(*                                                                          *)
(* Minutes are local wall-clock minutes; days have no daylight-saving jump. *)
(* The recalls between claim and post only word the message.                *)
(***************************************************************************)
EXTENDS Integers

CONSTANTS
    Calls,        \* calls of the endpoint that may be in flight at once
    DayLength,    \* 24 * 60
    CronEvery,    \* BRIEF_CRON: minutes between two ticks of the scheduler
    Lead,         \* BRIEF_LEAD_MINUTES
    Grace,        \* BRIEF_GRACE_MINUTES
    LastDay,      \* bound: days played through
    MaxFailures   \* bound: calls that die and posts that fail

ASSUME NumbersAssumption ==
    /\ DayLength \in Nat \ {0} /\ CronEvery \in Nat \ {0}
    /\ Lead \in Nat /\ Grace \in Nat
    /\ LastDay \in Nat /\ MaxFailures \in Nat
\* 15 <= 25 + 1: what deploy.sh and main.py are set to.
ASSUME CadenceAssumption == CronEvery <= Lead + 1

Unlearned == -1

VARIABLES
    day, minute,  \* the clock of the user's time zone
    typical,      \* typical_time of the primary routine; Unlearned is none
    call,         \* call[c]: where a call of the endpoint stands, and its locals
    marks,        \* agent_marks: days claimed for "morning-brief"
    ticked,       \* the scheduler has called at this minute, if it is one of its
    judged,       \* history: the time today's last tick outside the window was judged by
    causes,       \* history: what today's ticks met that lets a window be missed
    briefs,       \* history: unforced briefs posted, per day
    failed,       \* history: days on which a call died or a post failed
    failures

vars == <<day, minute, typical, call, marks, ticked, judged, causes, briefs, failed, failures>>
clockVars == <<day, minute, ticked>>

Days == 0 .. LastDay
Minutes == 0 .. DayLength - 1
IdleCall == [pc |-> "idle", forced |-> FALSE, date |-> 0]

TypeOK ==
    /\ day \in Days /\ minute \in Minutes
    /\ typical \in Minutes \cup {Unlearned}
    /\ call \in [Calls -> [pc : {"idle", "called", "gated", "briefing"},
                           forced : BOOLEAN, date : Days]]
    /\ marks \in SUBSET Days
    /\ ticked \in BOOLEAN /\ causes \in SUBSET {"blind", "leap"}
    /\ judged \in Minutes \cup {Unlearned}
    /\ briefs \in [Days -> Nat]
    /\ failed \in SUBSET Days /\ failures \in 0 .. MaxFailures
    \* a forced call neither waits for a window nor claims a day
    /\ \A c \in Calls : call[c].pc = "gated" => ~call[c].forced

Init ==
    /\ day = 0 /\ minute = 0 /\ ticked = FALSE
    /\ typical \in Minutes \cup {Unlearned}
    /\ judged = Unlearned /\ causes = {}
    /\ call = [c \in Calls |-> IdleCall]
    /\ marks = {}
    /\ briefs = [d \in Days |-> 0]
    /\ failed = {} /\ failures = 0

-------------------------------------------------------------------------------
(* _brief_window *)

Earliest(t) == IF t - Lead < 0 THEN 0 ELSE t - Lead
Latest(t) == IF t + Grace > DayLength - 1 THEN DayLength - 1 ELSE t + Grace

\* The window that closed on the learned time itself.
InWindowNoGrace(t, m) == t # Unlearned /\ Earliest(t) <= m /\ m <= t
InWindow(t, m) == t # Unlearned /\ Earliest(t) <= m /\ m <= Latest(t)

IsTick(m) == m % CronEvery = 0

-------------------------------------------------------------------------------
(* Time, the scheduler, and the leave scans that teach the departure time. *)

\* The scheduler does not skip a tick, and a call it made is gated in its minute.
MinuteDone ==
    /\ IsTick(minute) => ticked
    /\ \A c \in Calls : call[c].pc = "called" => call[c].forced

NextMinute ==
    /\ MinuteDone
    /\ minute + 1 < DayLength
    /\ minute' = minute + 1 /\ ticked' = FALSE
    /\ UNCHANGED <<day, typical, call, marks, judged, causes, briefs, failed, failures>>

Midnight ==
    /\ MinuteDone
    /\ minute = DayLength - 1
    /\ day < LastDay
    /\ day' = day + 1 /\ minute' = 0 /\ ticked' = FALSE
    /\ judged' = Unlearned /\ causes' = {}
    /\ UNCHANGED <<typical, call, marks, briefs, failed, failures>>

\* _refine_routine writes the middle of another group of scans: any time of day.
Relearn(t) ==
    /\ t # typical
    /\ typical' = t
    /\ UNCHANGED <<clockVars, call, marks, judged, causes, briefs, failed, failures>>

\* The brief takes the first of "office" and "work" in the order of their names: an
\* "office" seeded beside a learned "work" takes its place, and has no time yet.
Shadow ==
    /\ typical # Unlearned
    /\ typical' = Unlearned
    /\ UNCHANGED <<clockVars, call, marks, judged, causes, briefs, failed, failures>>

\* At-least-once: the scheduler may make the same call again.
CronCalls(c) ==
    /\ IsTick(minute)
    /\ call[c].pc = "idle"
    /\ call' = [call EXCEPT ![c] = [pc |-> "called", forced |-> FALSE, date |-> day]]
    /\ ticked' = TRUE
    /\ UNCHANGED <<day, minute, typical, marks, judged, causes, briefs, failed, failures>>

\* ?force=true, by hand, at any minute.
ForceCalls(c) ==
    /\ call[c].pc = "idle"
    /\ call' = [call EXCEPT ![c] = [pc |-> "called", forced |-> TRUE, date |-> day]]
    /\ UNCHANGED <<clockVars, typical, marks, judged, causes, briefs, failed, failures>>

-------------------------------------------------------------------------------
(* task_morning_brief, one action per await. *)

\* The learned time may fall back this far between two ticks, 26 minutes as
\* deployed, and still not pass an open tick.
Slack == Lead + Grace + 1 - CronEvery

\* What this tick meets: no time to judge by, or one that fell back further.
Met == {x \in {"blind", "leap"} :
          \/ x = "blind" /\ typical = Unlearned
          \/ x = "leap" /\ judged # Unlearned /\ judged - typical > Slack}

\* Routines read, clock looked at, window checked; outside it nothing is claimed.
Skip(c) ==
    /\ call[c].pc = "called" /\ ~call[c].forced
    /\ ~InWindow(typical, minute)
    /\ judged' = typical /\ causes' = causes \cup Met
    /\ call' = [call EXCEPT ![c] = IdleCall]
    /\ UNCHANGED <<clockVars, typical, marks, briefs, failed, failures>>

\* force looked at too late.
GateAll(c) ==
    /\ call[c].pc = "called"
    /\ InWindow(typical, minute)
    /\ call' = [call EXCEPT ![c].pc = "gated", ![c].date = day]
    /\ UNCHANGED <<clockVars, typical, marks, judged, causes, briefs, failed, failures>>

Gate(c) ==
    /\ call[c].pc = "called" /\ ~call[c].forced
    /\ InWindow(typical, minute)
    /\ call' = [call EXCEPT ![c].pc = "gated", ![c].date = day]
    /\ UNCHANGED <<clockVars, typical, marks, judged, causes, briefs, failed, failures>>

\* force bypasses the window and the claim; without a routine there is no brief.
Bypass(c) ==
    /\ call[c].pc = "called" /\ call[c].forced
    /\ \/ call' = [call EXCEPT ![c].pc = "briefing"]
       \/ typical = Unlearned /\ call' = [call EXCEPT ![c] = IdleCall]
    /\ UNCHANGED <<clockVars, typical, marks, judged, causes, briefs, failed, failures>>

\* The day looked up before it is claimed, and not in the same statement.
ClaimUnchecked(c) ==
    /\ call[c].pc = "gated"
    /\ marks' = marks \cup {call[c].date}
    /\ call' = [call EXCEPT ![c].pc = "briefing"]
    /\ UNCHANGED <<clockVars, typical, judged, causes, briefs, failed, failures>>

\* The answer of the INSERT read the wrong way round.
ClaimInverted(c) ==
    /\ call[c].pc = "gated"
    /\ marks' = marks \cup {call[c].date}
    /\ call' = [call EXCEPT ![c] = IF call[c].date \notin marks THEN IdleCall
                                   ELSE [@ EXCEPT !.pc = "briefing"]]
    /\ UNCHANGED <<clockVars, typical, judged, causes, briefs, failed, failures>>

\* INSERT ... ON CONFLICT DO NOTHING: one call gets the day, the others go home.
Claim(c) ==
    /\ call[c].pc = "gated"
    /\ marks' = marks \cup {call[c].date}
    /\ call' = [call EXCEPT ![c] = IF call[c].date \in marks THEN IdleCall
                                   ELSE [@ EXCEPT !.pc = "briefing"]]
    /\ UNCHANGED <<clockVars, typical, judged, causes, briefs, failed, failures>>

Deliver(c) ==
    /\ call[c].pc = "briefing"
    /\ briefs' = IF call[c].forced THEN briefs
                 ELSE [briefs EXCEPT ![call[c].date] = @ + 1]
    /\ call' = [call EXCEPT ![c] = IdleCall]
    /\ UNCHANGED <<clockVars, typical, marks, judged, causes, failed, failures>>

\* Slack refuses: the verdict goes into the response, and the claim stays.
DeliveryFails(c) ==
    /\ failures < MaxFailures
    /\ call[c].pc = "briefing"
    /\ call' = [call EXCEPT ![c] = IdleCall]
    /\ failed' = failed \cup {call[c].date} /\ failures' = failures + 1
    /\ UNCHANGED <<clockVars, typical, marks, judged, causes, briefs>>

\* The call is cut off, wherever it stands; the claim stays.
CallDies(c) ==
    /\ failures < MaxFailures
    /\ call[c].pc # "idle"
    /\ call' = [call EXCEPT ![c] = IdleCall]
    /\ failed' = failed \cup {call[c].date} /\ failures' = failures + 1
    /\ UNCHANGED <<clockVars, typical, marks, judged, causes, briefs>>

-------------------------------------------------------------------------------
Endpoint(c) ==
    \/ Skip(c)
    \/ Gate(c)
    \/ Bypass(c)
    \/ Claim(c)
    \/ Deliver(c)

Next ==
    \/ NextMinute
    \/ Midnight
    \/ \E t \in Minutes : Relearn(t)
    \/ Shadow
    \/ \E c \in Calls : \/ CronCalls(c)
                        \/ ForceCalls(c)
                        \/ Endpoint(c)
                        \/ DeliveryFails(c)
                        \/ CallDies(c)

Spec == Init /\ [][Next]_vars

-------------------------------------------------------------------------------
(* Properties. *)

(* However often the scheduler calls, and with calls overlapping and dying, an *)
(* unforced brief goes out at most once a day (deploy.sh:357, main.py:466).    *)
OneBriefADay == \A d \in Days : briefs[d] <= 1

(* A day that was claimed has its brief, or a call still working on it, or a   *)
(* call or a post that failed: the claim is never spent on nothing else.       *)
ClaimIsSpentWell ==
    \A d \in marks : \/ briefs[d] = 1
                     \/ d \in failed
                     \/ \E c \in Calls : /\ call[c].pc = "briefing" /\ ~call[c].forced
                                         /\ call[c].date = d

(* How far the grace carries: a day on which nothing failed is claimed by its  *)
(* last minute, unless one of its ticks found no departure time at all, or the *)
(* time fell back between two ticks by more than Slack (main.py:386-393).      *)
LearnedDayIsBriefed ==
    /\ minute = DayLength - 1 /\ MinuteDone
    /\ causes = {} /\ day \notin failed
    /\ \A c \in Calls : call[c].pc # "gated"
    => day \in marks
===============================================================================
