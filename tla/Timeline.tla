-------------------------------- MODULE Timeline --------------------------------
(***************************************************************************)
(* A day read back from the log (daily_timeline) and worded for the evening *)
(* (notify_format.daily_recap, SlackNotifier).  Days are of the user's time *)
(* zone, so a day may be longer or shorter than the one before, and the wall *)
(* clock may show one minute for two moments, within a minute or in the     *)
(* autumn an hour apart.                                                    *)
(***************************************************************************)
EXTENDS Recall, Sequences, SequencesExt

CONSTANTS
    DayLengths,    \* DayLengths[d]: moments from midnight to midnight
    WallClock,     \* WallClock[t]: the time of day that is printed
    Limit,         \* observations_between: 500
    Window,        \* ITEM_DEDUPE_WINDOW_SECONDS
    MaxNames,      \* MAX_NAMES_PER_BULLET
    MaxBullets     \* the bullets that MAX_TEXT has room for whole

ASSUME DaysAssumption ==
    /\ DayLengths \in Seq(Nat \ {0}) /\ DayLengths # <<>>
    /\ DOMAIN WallClock = Moments
ASSUME LimitsAssumption ==
    /\ Limit \in Nat \ {0} /\ Window \in Nat
    /\ MaxNames \in Nat \ {0} /\ MaxBullets \in Nat \ {0}

Days == DOMAIN DayLengths

\* The moment a day begins: its local midnight in UTC.
Midnight[d \in Days] == IF d = 1 THEN 0 ELSE Midnight[d - 1] + DayLengths[d - 1]

\* The first day's length for every day.
DayEndNominal(d) == Midnight[d] + DayLengths[1]

\* Wall-clock arithmetic: start + timedelta(days=1) is the next midnight.
DayEnd(d) == Midnight[d] + DayLengths[d]

\* The calendar reaches as far as the clock.
ASSUME CalendarAssumption == MaxTime < DayEnd(Len(DayLengths))

\* The date the moment has in the user's time zone.
DayOf(t) == CHOOSE d \in Days :
    Midnight[d] <= t /\ \A e \in Days : Midnight[e] <= t => e <= d

FirstN(s, n) == SubSeq(s, 1, IF Len(s) < n THEN Len(s) ELSE n)

\* ORDER BY observed_at ASC LIMIT: rows of one date in any order.
ObservationsBetween(start, end) ==
    LET rows == {o \in log : start <= o.at /\ o.at < end}
    IN {FirstN(s, Limit) : s \in {r \in SetToSeqs(rows) :
                                    IsSorted(r, LAMBDA o, p : o.at <= p.at)}}

-------------------------------------------------------------------------------
(* daily_timeline *)

\* A repeat of an item that was told less than Window ago is not told again.
Repeats(o, told) ==
    /\ o.kind = "item"
    /\ \E i \in DOMAIN told :
         /\ told[i].kind = "item" /\ told[i].subject = o.subject
         /\ o.at - told[i].at < Window

Entries(rows) ==
    FoldLeft(LAMBDA told, o : IF Repeats(o, told) THEN told ELSE Append(told, o),
             <<>>, rows)

\* The timelines a day may have.
DailyTimeline(d) == {Entries(rows) : rows \in ObservationsBetween(Midnight[d], DayEnd(d))}

-------------------------------------------------------------------------------
(* notify_format *)

Bucket(o) == CASE o.kind = "item" -> "seen" [] o.kind = "left" -> "gone" [] OTHER -> "did"

\* The (time_str, bucket) an entry is grouped by.
Group(o) == <<WallClock[o.at], Bucket(o)>>

\* dict.fromkeys: each once, in the order they first come.
Unique(s) == FoldLeft(LAMBDA u, x : IF Contains(u, x) THEN u ELSE Append(u, x), <<>>, s)

\* Repeats in the list take the room of other names, and count.
NamesShownAll(subjects) ==
    LET shown == FirstN(subjects, MaxNames)
    IN [names |-> shown, more |-> Len(subjects) - Len(shown)]

\* _names: so many, and how many more.
NamesShown(subjects) ==
    LET unique == Unique(subjects)
        shown == FirstN(unique, MaxNames)
    IN [names |-> shown, more |-> Len(unique) - Len(shown)]

\* by_time: what the entries of a group are about, in their order.
Subjects(group, entries) ==
    FoldLeft(LAMBDA told, o : IF Group(o) = group THEN Append(told, o.subject) ELSE told,
             <<>>, entries)

Bullet(group, entries) ==
    LET shown == NamesShown(Subjects(group, entries))
    IN [group |-> group, names |-> shown.names, more |-> shown.more]

BulletsFromLines(entries) ==
    LET groups == Unique([i \in DOMAIN entries |-> Group(entries[i])])
    IN [g \in DOMAIN groups |-> Bullet(groups[g], entries)]

\* A bullet whose line is cut off: its count is shorter, or names are gone, and of the
\* name that was cut what is left may be a name as well.
CutShort(b) ==
    LET cut(names, more) == [group |-> b.group, names |-> names, more |-> more]
        before(i) == FirstN(b.names, i - 1)
    IN {cut(b.names, m) : m \in 0 .. b.more}
       \cup {cut(before(i), 0) : i \in DOMAIN b.names}
       \cup UNION {{cut(Append(before(i), n), 0) : n \in {m \in Names : <<m, b.names[i]>> \in Within}} :
                      i \in DOMAIN b.names}

\* What arrives of it: text past MAX_TEXT is cut off, and the footer is at the end.
NoFooter == -1
Recap(day, bullets, footer) ==
    [what |-> "recap", day |-> day, bullets |-> bullets, footer |-> footer]

Arrives(day, bullets, count) ==
    LET whole == FirstN(bullets, MaxBullets)
    IN CASE Len(bullets) < MaxBullets -> {Recap(day, bullets, count)}
         [] Len(bullets) = MaxBullets -> {Recap(day, bullets, f) : f \in {count, NoFooter}}
         [] OTHER -> {Recap(day, whole, NoFooter)}
                     \cup {Recap(day, Append(whole, b), NoFooter) :
                             b \in CutShort(bullets[MaxBullets + 1])}

DailyRecap(day, entries) == Arrives(day, BulletsFromLines(entries), Len(entries))
===============================================================================
