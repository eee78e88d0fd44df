-------------------------------- MODULE Routine --------------------------------
(***************************************************************************)
(* What a routine learns (agent/workflows._resolve_routine, _refine_routine *)
(* and _typical_minutes; the two ways a user corrects one, update_routine   *)
(* and PUT /api/routines).  A leave scan reads the row when it begins and   *)
(* writes it back, items, count and time, when it ends, seconds later; a    *)
(* correction reads and writes too.  Nothing is locked, so a write may be   *)
(* based on a row that is no longer there.                                  *)
(*                                                                          *)
(* A trip is a row of leave_scans: its destination, what was found, the     *)
(* minute of the day, and the order in which the scans began, which is the  *)
(* order recent_leave_scans goes by.  Names are matched exactly.            *)
(***************************************************************************)
EXTENDS Integers, FiniteSets

CONSTANTS
    Routines,     \* destinations
    Items,
    Starter,      \* STARTER_ROUTINES, and DEFAULT_ROUTINE_ITEMS for the others
    Minutes,      \* minutes of the day
    Calendars,    \* bound: the minutes at which the scans may begin, one after the other
    UserTimes,    \* bound: the times of day a user sets by hand
    Span,         \* CLUSTER_SPAN_MINUTES
    Window,       \* the LIMIT of recent_leave_scans
    Requests,     \* leave scans and corrections that may be in flight at once
    MaxTrips,     \* bound: leave scans begun
    MaxCorrections \* bound: corrections begun

Unlearned == -1

ASSUME CalendarsAssumption == Calendars \subseteq [1 .. MaxTrips -> Minutes]
ASSUME StarterAssumption == Starter \in [Routines -> SUBSET Items]
ASSUME RoutinesAssumption == Routines # {}
ASSUME NumbersAssumption == /\ Minutes \subseteq 0 .. 1439 /\ UserTimes \subseteq Minutes /\ Span \in Nat /\ Window \in Nat \ {0}
                            /\ MaxTrips \in Nat /\ MaxCorrections \in Nat

VARIABLES
    known,        \* routines with a row
    row,          \* row[n]: the row of routine n; Blank while there is none
    trips,        \* the rows of leave_scans
    req,          \* req[r]: where request r stands, and the row it will write
    calendar,     \* calendar[k]: the minute of the day at which the k-th scan begins
    begun,        \* leave scans begun
    declared,     \* history: the items the user, or the seed, last wrote for n
    stale,        \* history: requests whose row another request has since written
    overruled,    \* history: routines a stale request has written
    corrections   \* corrections begun

vars == <<known, row, trips, req, calendar, begun, declared, stale, overruled, corrections>>
history == <<declared, stale, overruled>>

Rows == [expected : SUBSET Items, typical : Minutes \cup {Unlearned}, observed : 0 .. Window]
Blank == [expected |-> {}, typical |-> Unlearned, observed |-> 0]
Trips == [to : Routines, found : SUBSET Items, minute : Minutes, at : 1 .. MaxTrips]
Calls == [pc : {"idle", "seeding", "looking", "recorded", "learning", "correcting"},
          to : Routines, at : 0 .. MaxTrips, row : Rows]

TypeOK ==
    /\ known \subseteq Routines /\ row \in [Routines -> Rows]
    /\ \A n \in Routines \ known : row[n] = Blank
    /\ trips \subseteq Trips
    /\ req \in [Requests -> Calls]
    /\ calendar \in Calendars
    /\ begun \in 0 .. MaxTrips /\ corrections \in 0 .. MaxCorrections
    /\ declared \in [Routines -> SUBSET Items]
    /\ stale \subseteq Requests /\ overruled \subseteq Routines
    \* no two scans are dated alike
    /\ \A s, t \in trips : s.at = t.at => s = t

Idle == [pc |-> "idle", to |-> CHOOSE n \in Routines : TRUE, at |-> 0, row |-> Blank]

Init ==
    /\ known = {} /\ row = [n \in Routines |-> Blank]
    /\ trips = {}
    /\ req = [r \in Requests |-> Idle]
    /\ calendar \in Calendars
    /\ begun = 0 /\ corrections = 0
    /\ declared = [n \in Routines |-> {}] /\ stale = {} /\ overruled = {}

-------------------------------------------------------------------------------
(* _typical_minutes *)

Apart(s, t) == IF s.minute > t.minute THEN s.minute - t.minute ELSE t.minute - s.minute
Near(S, a) == {s \in S : Apart(s, a) <= Span}

\* The departures around the earliest of the anchors that have the most around them.
Best(S) ==
    LET most == {a \in S : \A b \in S : Cardinality(Near(S, b)) <= Cardinality(Near(S, a))}
        anchor == CHOOSE a \in most : \A b \in most : a.minute <= b.minute
    IN  Near(S, anchor)

\* sorted(S)[len(S) // 2]
Middle(S) ==
    CHOOSE m \in Minutes :
        /\ Cardinality({s \in S : s.minute < m}) <= Cardinality(S) \div 2
        /\ Cardinality({s \in S : s.minute <= m}) > Cardinality(S) \div 2

\* The plain median over every recent scan.
TypicalPlain(S) == Middle(S)
Typical(S) == Middle(Best(S))

-------------------------------------------------------------------------------
(* _refine_routine *)

\* The last Window leave scans of the user, whatever they were to.
Recent == {t \in trips : Cardinality({s \in trips : s.at > t.at}) < Window}

RelevantToAll(n) == Recent
\* The LIMIT left out.
RelevantEver(n) == {t \in trips : t.to = n}
Relevant(n) == {t \in Recent : t.to = n}

\* math.ceil(len(relevant) * 0.6)
Threshold(k) == (3 * k + 4) \div 5

\* Once is enough.
PromotedAtOnce(S) == UNION {t.found : t \in S}
Promoted(S) ==
    IF Cardinality(S) < 3 THEN {}
    ELSE {i \in Items : Cardinality({t \in S : i \in t.found}) >= Threshold(Cardinality(S))}

\* The promoted items in the place of the expected ones.
RefinedReplacing(old, S) ==
    [expected |-> IF Cardinality(S) < 3 THEN old.expected ELSE Promoted(S),
     typical |-> IF Cardinality(S) >= 2 THEN Typical(S) ELSE old.typical,
     observed |-> Cardinality(S)]

Refined(old, S) ==
    [expected |-> old.expected \cup Promoted(S),
     typical |-> IF Cardinality(S) >= 2 THEN Typical(S) ELSE old.typical,
     observed |-> Cardinality(S)]

-------------------------------------------------------------------------------
(* Rows and requests. *)

Holds(r, n) == req[r].pc # "idle" /\ req[r].to = n

\* Every column replaced by what is given.
UpsertPlain(r, n, new) ==
    /\ known' = known \cup {n}
    /\ row' = [row EXCEPT ![n] = new]
    /\ overruled' = IF r \in stale THEN overruled \cup {n} ELSE overruled
    /\ stale' = (stale \ {r}) \cup {q \in Requests \ {r} : Holds(q, n)}

\* ON CONFLICT DO UPDATE: all but a time that is not given is replaced.
Upsert(r, n, new) ==
    /\ known' = known \cup {n}
    /\ row' = [row EXCEPT ![n] = [new EXCEPT !.typical = IF @ = Unlearned
                                                         THEN row[n].typical ELSE @]]
    /\ overruled' = IF r \in stale THEN overruled \cup {n} ELSE overruled
    /\ stale' = (stale \ {r}) \cup {q \in Requests \ {r} : Holds(q, n)}

Finish(r) == req' = [req EXCEPT ![r] = Idle]

\* leave_detection: `now`, then the row; one that is not there is to be seeded.
\* Bound: MaxTrips scans begin.
Begin(r, n) ==
    /\ req[r].pc = "idle"
    /\ begun < MaxTrips
    /\ begun' = begun + 1
    /\ req' = [req EXCEPT ![r] = [pc |-> IF n \in known THEN "looking" ELSE "seeding",
                                  to |-> n, at |-> begun + 1, row |-> row[n]]]
    /\ UNCHANGED <<known, row, trips, calendar, history, corrections>>

Seed(r) ==
    /\ req[r].pc = "seeding"
    /\ LET n == req[r].to
           seeded == [Blank EXCEPT !.expected = Starter[n]]
       IN  /\ Upsert(r, n, seeded)
           /\ req' = [req EXCEPT ![r].pc = "looking", ![r].row = seeded]
           /\ declared' = [declared EXCEPT ![n] = Starter[n]]
    /\ UNCHANGED <<trips, calendar, begun, corrections>>

\* No frame, or vision unavailable: nothing is recorded and nothing is learned.
LookBlind(r) ==
    /\ req[r].pc = "looking"
    /\ Finish(r)
    /\ stale' = stale \ {r}
    /\ UNCHANGED <<known, row, trips, calendar, begun, declared, overruled, corrections>>

\* record_leave_scan, dated when the scan began.
RecordTrip(r, found) ==
    /\ req[r].pc = "looking"
    /\ trips' = trips \cup {[to |-> req[r].to, found |-> found,
                             minute |-> calendar[req[r].at], at |-> req[r].at]}
    /\ req' = [req EXCEPT ![r].pc = "recorded"]
    /\ UNCHANGED <<known, row, calendar, begun, history, corrections>>

\* recent_leave_scans; the row as it was when the scan began is what is refined.
Weigh(r) ==
    /\ req[r].pc = "recorded"
    /\ req' = [req EXCEPT ![r].pc = "learning",
                          ![r].row = Refined(@, Relevant(req[r].to))]
    /\ UNCHANGED <<known, row, trips, calendar, begun, history, corrections>>

Learn(r) ==
    /\ req[r].pc = "learning"
    /\ Upsert(r, req[r].to, req[r].row)
    /\ Finish(r)
    /\ UNCHANGED <<trips, calendar, begun, declared, corrections>>

\* update_routine and PUT /api/routines: the row is read for what is kept of it.
Correct(r, n, items, time) ==
    /\ req[r].pc = "idle"
    /\ corrections < MaxCorrections
    /\ corrections' = corrections + 1
    /\ req' = [req EXCEPT ![r].pc = "correcting", ![r].to = n,
                          ![r].row = [row[n] EXCEPT !.expected = items,
                                          !.typical = IF time = Unlearned THEN @ ELSE time]]
    /\ UNCHANGED <<known, row, trips, calendar, begun, history>>

WriteCorrection(r) ==
    /\ req[r].pc = "correcting"
    /\ Upsert(r, req[r].to, req[r].row)
    /\ declared' = [declared EXCEPT ![req[r].to] = req[r].row.expected]
    /\ Finish(r)
    /\ UNCHANGED <<trips, calendar, begun, corrections>>

RequestDies(r) ==
    /\ req[r].pc # "idle"
    /\ Finish(r)
    /\ stale' = stale \ {r}
    /\ UNCHANGED <<known, row, trips, calendar, begun, declared, overruled, corrections>>

Next ==
    \E r \in Requests :
        \/ \E n \in Routines : Begin(r, n)
        \/ Seed(r)
        \/ LookBlind(r)
        \/ \E found \in SUBSET Items : RecordTrip(r, found)
        \/ Weigh(r)
        \/ Learn(r)
        \/ \E n \in Routines, items \in SUBSET Items, time \in UserTimes \cup {Unlearned} :
               Correct(r, n, items, time)
        \/ WriteCorrection(r)
        \/ RequestDies(r)

Spec == Init /\ [][Next]_vars

-------------------------------------------------------------------------------
(* Properties. *)

Evidence(n, i) == Cardinality({t \in trips : t.to = n /\ i \in t.found})

(* An item is in a routine because the seed or the user's last correction put  *)
(* it there, because it was carried on two recorded trips there or more, or    *)
(* because a request wrote a row that had been rewritten since it read it: a   *)
(* single trip, or trips to other places, never undo what the user said.       *)
ExpectedIsAccountedFor ==
    \A n \in Routines : \A i \in row[n].expected :
        i \in declared[n] \/ Evidence(n, i) >= 2 \/ n \in overruled

(* Learning only adds (workflows.py:516-527): an item leaves a routine by a    *)
(* correction, or by a scan that writes back a row another request rewrote     *)
(* while the scan was under way.                                               *)
LossIsCorrectionOrRace ==
    [][\A n \in Routines : row[n].expected \subseteq row'[n].expected
        \/ \E r \in Requests : /\ Holds(r, n) /\ req'[r] # req[r]
                               /\ req[r].pc = "correcting" \/ r \in stale]_vars

(* The count a routine shows is of trips that were made to it: never more than *)
(* were recorded, whatever stale row was written last.                         *)
CountedTripsWereMade ==
    \A n \in Routines : row[n].observed <= Cardinality({t \in trips : t.to = n})

(* Once a time was learned or set there is always one: no seed, no correction  *)
(* and no stale row takes it away from its routine.                            *)
TimeIsNeverLost ==
    [][\A n \in Routines : row[n].typical # Unlearned => row'[n].typical # Unlearned]_vars

Habit(S, G) ==
    /\ G # {}
    /\ \A s, t \in G : Apart(s, t) <= Span
    /\ \A s \in S \ G : \A t \in G : Apart(s, t) > Span
    /\ \A s \in S \ G : Cardinality(Near(S, s)) < Cardinality(G)

(* The learned time is the middle of the habit: when some trips lie close      *)
(* together, away from the others, and no other has as many around it, the     *)
(* others do not move the time at all (workflows.py:475-483).                  *)
TimeFollowsTheHabit ==
    \A r \in Requests : req[r].pc = "recorded" =>
        LET S == Relevant(req[r].to)
        IN  \A G \in SUBSET S : Cardinality(S) >= 2 /\ Habit(S, G)
                                => Refined(req[r].row, S).typical = Middle(G)
===============================================================================
