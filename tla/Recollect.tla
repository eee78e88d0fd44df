-------------------------------- MODULE Recollect -------------------------------
(***************************************************************************)
(* The log as it is written and what it is remembered by: frames and words  *)
(* are filed by handlers that dated them when they began, an item is        *)
(* recalled at any moment, and in the evening the day is read back.         *)
(*                                                                         *)
(* A leave scan asks the log one question after another and files what it   *)
(* saw at its end, while the others write.                                  *)
(*                                                                         *)
(* What the watch files of a frame, and when, is modelled in Watch, what a  *)
(* leave scan does besides in LeaveNudge; here both file what they might.   *)
(***************************************************************************)
EXTENDS Timeline

CONSTANTS
    Expected,   \* the items of the routine
    Frames,     \* what vision may report: sets of [name, detail, conf]
    Sayings,    \* what the user may tell: [name, detail]
    Scans,      \* leave scans that are under way at once
    Lag,        \* a handler commits at most this long after its date
    MaxRows     \* bound: the rows of the log

Reports == [name : Names, detail : Details, conf : 0 .. 10]

ASSUME ReportsAssumption ==
    /\ Frames \subseteq SUBSET Reports
    /\ \A frame \in Frames : IsFiniteSet(frame)
    /\ Sayings \subseteq [name : Names, detail : Details]
    /\ Expected \subseteq Names
    /\ Lag \in Nat /\ MaxRows \in Nat

VARIABLES
    scan,    \* what each leave scan has, and as a history what it could know
    said     \* what the last step told the user, if anything

vars == <<now, log, scan, said>>

Nothing == [what |-> "nothing"]

NoScan == [what |-> "none"]

Bullets == [group : {<<WallClock[t], b>> : t \in Moments, b \in {"seen", "gone", "did"}},
            names : Seq(Names \cup Doings), more : Nat]

Verdicts == [is : {"found", "carried", "missing"}, by : ItemRows \cup {NoRow}]
Unsettled == [is : {"open", "absent"}, by : {NoRow}]

ScanStates == [kept : SUBSET Reports, at : Moments,
               knew : SUBSET (ItemRows \cup OtherRows),
               verdict : [Expected -> Verdicts \cup Unsettled]]

\* A recap that is posted has something to say.
TypeOK ==
    /\ now \in Moments
    /\ log \subseteq ItemRows \cup OtherRows
    /\ \A o \in log : o.at <= now
    /\ \A s \in Scans : scan[s] = NoScan \/ scan[s] \in ScanStates
    /\ \/ said = Nothing
       \/ /\ said.what = "scan"
          /\ said.seen \in SUBSET Names /\ said.at \in Moments
          /\ said.knew \subseteq log
          /\ said.verdict \in [Expected -> Verdicts]
       \/ /\ said.what = "recap"
          /\ said.day \in Days /\ said.bullets \in Seq(Bullets) \ {<<>>}
          /\ said.footer \in {NoFooter} \cup (Nat \ {0})

Init == now = 0 /\ log = {} /\ said = Nothing /\ scan = [s \in Scans |-> NoScan]

-------------------------------------------------------------------------------
(* Who writes *)

Dates == {t \in Moments : now - Lag <= t /\ t <= now}

Commit(rows) ==
    /\ Cardinality(log \cup rows) <= MaxRows
    /\ log' = log \cup rows
    /\ UNCHANGED now

\* scan_frame: of each name the surest report; of two as sure, the first that came.
Seen(frame) ==
    {kept \in SUBSET frame :
        /\ {r.name : r \in kept} = {r.name : r \in frame}
        /\ \A r \in kept : \A q \in frame :
             q.name = r.name => q.conf <= r.conf /\ (q \in kept => q = r)}

FrameRows(kept, t) == {ItemRow(r.name, r.detail, r.conf, "visual", t) : r \in kept}

Tick ==
    /\ now < MaxTime
    /\ now' = now + 1 /\ said' = Nothing
    /\ UNCHANGED <<log, scan>>

\* observe_tick: some of what is in the frame, and what is no longer.
WatchLogs(frame) ==
    \E kept \in Seen(frame) : \E due \in SUBSET kept, t \in Dates :
      \E gone \in SUBSET (Names \ {r.name : r \in kept}) :
        /\ due # {} \/ gone # {}
        /\ Commit(FrameRows(due, t) \cup {OtherRow("left", n, t) : n \in gone})
        /\ said' = Nothing /\ UNCHANGED scan

\* leave_detection begins: its date, its frame, and what that shows of what is expected.
BeginScan(s, frame) ==
    /\ scan[s] = NoScan
    /\ \E kept \in Seen(frame) :
          scan' = [scan EXCEPT ![s] =
             [kept |-> kept, at |-> now, knew |-> log,
              verdict |-> [n \in Expected |-> LookedFor(n, {r.name : r \in kept})]]]
    /\ said' = Nothing
    /\ UNCHANGED <<now, log>>

\* One _carried_check: a query of the log.
AskCarried(s, n) ==
    /\ scan[s] # NoScan
    /\ scan[s].verdict[n].is = "open"
    /\ \E v \in Checked(n, scan[s].at) : scan' = [scan EXCEPT ![s].verdict[n] = v]
    /\ said' = Nothing
    /\ UNCHANGED <<now, log>>

\* One _last_seen_hint: another query, after the last _carried_check.
AskHint(s, n) ==
    /\ scan[s] # NoScan
    /\ \A m \in Expected : scan[s].verdict[m].is # "open"
    /\ scan[s].verdict[n].is = "absent"
    /\ \E v \in Hinted(n) : scan' = [scan EXCEPT ![s].verdict[n] = v]
    /\ said' = Nothing
    /\ UNCHANGED <<now, log>>

\* add_observations: all that is in the frame, and the departure; then it is told.
FileScan(s, departure) ==
    /\ scan[s] # NoScan
    /\ \A n \in Expected : scan[s].verdict[n].is \notin {"open", "absent"}
    /\ Commit(FrameRows(scan[s].kept, scan[s].at)
              \cup {OtherRow("did", departure, scan[s].at)})
    /\ said' = [what |-> "scan", seen |-> {r.name : r \in scan[s].kept},
                at |-> scan[s].at, knew |-> scan[s].knew, verdict |-> scan[s].verdict]
    /\ scan' = [scan EXCEPT ![s] = NoScan]

\* Cut off at an await.
ScanDies(s) ==
    /\ scan[s] # NoScan
    /\ scan' = [scan EXCEPT ![s] = NoScan]
    /\ said' = Nothing
    /\ UNCHANGED <<now, log>>

\* record_observation, of an item; confidence 0.9.
TellItem(saying) ==
    \E t \in Dates :
        /\ Commit({ItemRow(saying.name, saying.detail, 9, "voice", t)})
        /\ said' = Nothing /\ UNCHANGED scan

\* record_observation, of anything else.
TellDoing(doing) ==
    \E t \in Dates :
        /\ Commit({OtherRow("did", doing, t)})
        /\ said' = Nothing /\ UNCHANGED scan

-------------------------------------------------------------------------------
(* task_evening_recap: read and post.  Rows that come in between are not in it. *)

\* An empty day is posted like any other.
EveningRecapAlways ==
    \E entries \in DailyTimeline(DayOf(now)) :
        /\ said' \in {Nothing} \cup DailyRecap(DayOf(now), entries)
        /\ UNCHANGED <<now, log, scan>>

\* Slack takes it, refuses it, or there is no channel; an empty day is not posted.
EveningRecap ==
    \E entries \in DailyTimeline(DayOf(now)) :
        /\ said' \in {Nothing} \cup IF entries = <<>> THEN {}
                                   ELSE DailyRecap(DayOf(now), entries)
        /\ UNCHANGED <<now, log, scan>>

Next ==
    \/ Tick
    \/ \E frame \in Frames : WatchLogs(frame)
    \/ \E s \in Scans :
          \/ \E frame \in Frames : BeginScan(s, frame)
          \/ \E n \in Expected : AskCarried(s, n) \/ AskHint(s, n)
          \/ \E departure \in Doings : FileScan(s, departure)
          \/ ScanDies(s)
    \/ \E saying \in Sayings : TellItem(saying)
    \/ \E doing \in Doings : TellDoing(doing)
    \/ EveningRecap

Spec == Init /\ [][Next]_vars

-------------------------------------------------------------------------------
(* Properties *)

Confusable(n) ==
    \/ \E m \in Names \ {n} : <<n, m>> \in Within \/ <<m, n>> \in Within
    \/ \E d \in Details : n \in Mentions[d]

Sightings(rows, n) == {o \in rows : o.kind = "item" /\ o.subject = n}

SurelyOnBody(o, t) ==
    o.detail \in OnPerson /\ Certainty(o) >= 140 /\ 2 * (t - o.at) <= HalfLife

\* The verdict of a leave scan rests on the frame and on the log (_is_present,
\* _carried_check, _last_seen_hint), whoever writes between its questions.  What is
\* found is in the frame.  What is excused as carried was on the body at a sighting
\* that is in the log, less than two half-lives old, and no older than any of the very
\* item that the scan could know when it began.  So is the sighting what is missing is
\* told by; and of that item there is one, no older than those, that did not have it
\* surely on the body within half a half-life.  Another item may stand in for it only
\* if one name is part of the other's, or of a detail.
VerdictOnEvidence ==
    said.what = "scan" => \A n \in Expected :
        LET v == said.verdict[n]
            known == Sightings(said.knew, n)
        IN /\ v.is = "found" => n \in said.seen \/ Confusable(n)
           /\ v.is # "found" =>
                /\ n \notin said.seen
                /\ v.by = NoRow => known = {}
                /\ v.by # NoRow =>
                     /\ v.by \in log
                     /\ \A o \in known : o.at <= v.by.at
                     /\ v.by.subject = n \/ Confusable(n)
           /\ v.is = "carried" =>
                v.by.detail \in OnPerson /\ said.at - v.by.at < 2 * HalfLife
           /\ v.is = "missing" /\ known # {} /\ ~Confusable(n) =>
                \E o \in Sightings(log, n) :
                    /\ \A p \in known : p.at <= o.at
                    /\ ~SurelyOnBody(o, said.at)

ToldBy(o, e) ==
    \/ e = o
    \/ /\ o.kind = "item" /\ e.kind = "item" /\ o.subject = e.subject
       /\ e.at <= o.at /\ o.at - e.at < Window

\* observations_between reads the oldest Limit rows of a day.
Crowded(o) ==
    Cardinality({p \in log : Midnight[DayOf(o.at)] <= p.at /\ p.at <= o.at}) > Limit

\* Every row is told on its own local day and on no other (daily_timeline), by an
\* entry of its own or by one of the same item less than Window before it, whatever
\* the length of the day, unless the day has more rows than are read.
ToldOnItsDay ==
    \A d \in Days : \A entries \in DailyTimeline(d) : \A o \in log :
        IF d = DayOf(o.at)
          THEN Crowded(o) \/ \E i \in DOMAIN entries : ToldBy(o, entries[i])
          ELSE o \notin ToSet(entries)

RowsOf(d) == {o \in log : DayOf(o.at) = d}

\* The bullet tells of the row, by name or as one of the "more".
BulletTells(b, o) ==
    /\ \E e \in RowsOf(DayOf(o.at)) : ToldBy(o, e) /\ b.group = Group(e)
    /\ o.subject \in ToSet(b.names) \/ b.more > 0

News(rows, group) == {o.subject : o \in {p \in rows : Group(p) = group}}

Told(b) == Cardinality(ToSet(b.names)) + b.more

\* What a bullet names and counts are different things, each of them logged at its
\* minute, and all that was noticed to leave or to be done then.
BulletAccounts(b, rows) ==
    /\ Len(b.names) = Cardinality(ToSet(b.names)) /\ b.names # <<>>
    /\ ToSet(b.names) \subseteq News(rows, b.group)
    /\ b.group[2] # "seen" /\ Cardinality(rows) <= Limit =>
         Told(b) = Cardinality(News(rows, b.group))

\* It counts no more than was logged at its minute, and names it or a part of its name.
BulletIsPart(b, rows) ==
    /\ Told(b) <= Cardinality(News(rows, b.group))
    /\ \A n \in ToSet(b.names) : \E m \in News(rows, b.group) :
         n = m \/ <<n, m>> \in Within

\* What is posted of a day (daily_recap, bullets_from_lines, _names, to_mrkdwn) is what
\* was logged: one bullet for a minute and a kind of news, which accounts for that, and
\* every row of the day in a bullet, unless the day has more rows than are read or the
\* message is too long.  That shows by the footer: without it rows may be missing, and
\* of the last bullet there may be a part.
RecapAccountsForAll ==
    said.what = "recap" =>
        LET rows == RowsOf(said.day)
        IN /\ \A i, j \in DOMAIN said.bullets :
                said.bullets[i].group = said.bullets[j].group => i = j
           /\ \A i \in DOMAIN said.bullets :
                /\ BulletIsPart(said.bullets[i], rows)
                /\ said.footer # NoFooter \/ i < Len(said.bullets) =>
                     BulletAccounts(said.bullets[i], rows)
           /\ \/ Cardinality(rows) > Limit \/ said.footer = NoFooter
              \/ \A o \in rows : \E i \in DOMAIN said.bullets :
                   BulletTells(said.bullets[i], o)
===============================================================================
