--------------------------------- MODULE Recall ---------------------------------
(***************************************************************************)
(* The log of observations and what is asked of it about an item            *)
(* (Store.find_by_subject, item_recall, _carried_check, _last_seen_hint and *)
(* the question of the morning brief).                                      *)
(*                                                                         *)
(* The log is a set of rows: every query orders by observed_at, and rows    *)
(* with one date, as those of one frame are, come in any order, so a query  *)
(* has a set of answers.  Names and details are model values; that one text *)
(* is part of another is a relation.  A time is a number of moments.        *)
(***************************************************************************)
EXTENDS Integers, FiniteSets

CONSTANTS
    Names,        \* items, after normalize_subject
    Within,       \* <<n, m>>: the text n is part of the text m
    Details,      \* where in the scene an item was
    Mentions,     \* Mentions[d]: the names that are part of the text d
    OnPerson,     \* the details that _ON_PERSON_RE finds to be about the body
    Doings,       \* subjects of the activities and locations that are logged
    HalfLife,     \* RECALL_STALE_AFTER_HOURS
    MaxTime       \* bound: the clock

ASSUME NamesAssumption ==
    /\ IsFiniteSet(Names)
    /\ \A n \in Names : <<n, n>> \in Within
    /\ Within \subseteq Names \X Names
    /\ Mentions \in [Details -> SUBSET Names]
    /\ OnPerson \subseteq Details
    /\ Names \cap Doings = {}
ASSUME ClockAssumption == HalfLife \in Nat \ {0} /\ MaxTime \in Nat

VARIABLES now, log

Moments == 0 .. MaxTime

\* confidence is in tenths, the weights of METHOD_WEIGHT in twentieths.
Methods == {"visual", "voice", "inferred"}
Weight(method) ==
    CASE method = "visual" -> 20 [] method = "voice" -> 17 [] OTHER -> 11

\* Of the activities, "... left view" is told apart: the recap words it so.
ItemRows == [kind : {"item"}, subject : Names, detail : Details,
             conf : 0 .. 10, method : Methods, at : Moments]
OtherRows == [kind : {"left"}, subject : Names, at : Moments]
             \cup [kind : {"did"}, subject : Doings, at : Moments]

ItemRow(n, d, c, m, t) ==
    [kind |-> "item", subject |-> n, detail |-> d, conf |-> c, method |-> m, at |-> t]
OtherRow(k, n, t) == [kind |-> k, subject |-> n, at |-> t]

-------------------------------------------------------------------------------
(* find_by_subject *)

\* Item rows only: the departure of a scan names what was missing.
Matches(o, term) ==
    /\ o.kind = "item"
    /\ \/ <<term, o.subject>> \in Within
       \/ <<o.subject, term>> \in Within
       \/ term \in Mentions[o.detail]

Matching(term) == {o \in log : Matches(o, term)}

\* ORDER BY observed_at DESC LIMIT 1: each of these may be the row.
LastSeen(term) ==
    {o \in Matching(term) : \A p \in Matching(term) : p.at <= o.at}

-------------------------------------------------------------------------------
(* score_confidence and _label *)

Age(o, t) == IF t > o.at THEN t - o.at ELSE 0

Certainty(o) == o.conf * Weight(o.method)

\* b to the power of n, as a function that recurs.
Power(b, n) == LET p[k \in 0 .. n] == IF k = 0 THEN 1 ELSE b * p[k - 1] IN p[n]

\* confidence * weight * 2^(-age / half-life) >= threshold / 200, without roots.
Reaches(o, t, threshold) ==
    Power(Certainty(o), HalfLife) >= Power(threshold, HalfLife) * Power(2, Age(o, t))

Label(o, t) ==
    CASE Reaches(o, t, 140) -> "high"
      [] ~Reaches(o, t, 140) /\ Reaches(o, t, 80) -> "medium"
      [] ~Reaches(o, t, 80) /\ o.conf > 0 -> "low"
      [] OTHER -> "none"

-------------------------------------------------------------------------------
(* What is made of the newest row, at the time t *)

\* item_recall: an item without a row has no answer.
ItemRecall(term, t) ==
    {[sighting |-> o, label |-> Label(o, t)] : o \in LastSeen(term)}

IsOnPerson(detail) == detail \in OnPerson

Vouches(answer) == answer.label \notin {"none", "low"}

\* Any row of its history that has it on the body.
CarriedCheckEver(n, t) ==
    {o \in Matching(n) : IsOnPerson(o.detail) /\ Label(o, t) \notin {"none", "low"}}

\* The rows by which _carried_check may excuse a missing item.
CarriedCheck(n, t) ==
    {answer.sighting : answer \in
        {a \in ItemRecall(n, t) : IsOnPerson(a.sighting.detail) /\ Vouches(a)}}

-------------------------------------------------------------------------------
(* leave_detection, up to its result *)

NoRow == [kind |-> "none"]

\* "airpods case" satisfies an expected "airpods".
IsPresent(want, found) == \E got \in found : <<want, got>> \in Within \/ <<got, want>> \in Within

\* _last_seen_hint
LastSeenHint(n) == IF Matching(n) = {} THEN {NoRow} ELSE LastSeen(n)

Verdict(is, o) == [is |-> is, by |-> o]

\* Of what the frame does not show the log is asked.
LookedFor(n, found) == Verdict(IF IsPresent(n, found) THEN "found" ELSE "open", NoRow)

\* The answers to the question whether it is on the user.
Checked(n, t) ==
    LET carried == CarriedCheck(n, t)
    IN {Verdict("carried", o) : o \in carried}
       \cup IF LastSeen(n) \subseteq carried /\ carried # {} THEN {}
            ELSE {Verdict("absent", NoRow)}

\* The answers to the question where it was.
Hinted(n) == {Verdict("missing", o) : o \in LastSeenHint(n)}
===============================================================================
