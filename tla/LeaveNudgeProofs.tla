--------------------------- MODULE LeaveNudgeProofs ---------------------------
(***************************************************************************)
(* The safety of LeaveNudge for every number of items, scans and drain      *)
(* runs, every delay and batch limit, every number of crashes.              *)
(***************************************************************************)
EXTENDS LeaveNudge, TLAPS

-------------------------------------------------------------------------------
(* Type correctness.  What a handler does to its own locals, scan and drain,   *)
(* is shown first; the rest of the state follows without opening the records.  *)

LEMMA InitTypeOK == Init => TypeOK
<1> SUFFICES ASSUME Init PROVE TypeOK
  OBVIOUS
<1>1. clock \in Moments /\ seen \in [Items -> Sightings]
  BY NumbersAssumption DEF Init, Moments, Sightings
<1>2. scan \in [Scans -> ScanStates]
  BY NumbersAssumption DEF Init, ScanStates, Moments
<1>3. drain \in [Drains -> DrainStates]
  BY NumbersAssumption DEF Init, DrainStates, IdleDrain, Moments
<1>4. /\ queued \in SUBSET Scans /\ sent \in SUBSET Scans /\ cancelled \in SUBSET Scans
      /\ deliveries \in [Scans -> Nat] /\ raced \in SUBSET Scans
      /\ crashes \in 0 .. MaxCrashes
  BY NumbersAssumption DEF Init
<1>5. \A d \in Drains : drain[d].cur # NoNudge <=> drain[d].pc \in {"asking", "sent"}
  BY DEF Init, IdleDrain
<1>. QED
  BY <1>1, <1>2, <1>3, <1>4, <1>5 DEF TypeOK

LEMMA ScanLocalsTyped ==
  ASSUME TypeOK, NEW s \in Scans, ScanStep(s) \/ ScanDies(s)
  PROVE  scan' \in [Scans -> ScanStates]
<1>0. scan \in [Scans -> ScanStates] /\ clock \in Moments
  BY DEF TypeOK
<1>1. CASE BeginScan(s)
  BY <1>0, <1>1 DEF BeginScan, ScanStates
<1>2. ASSUME NEW found \in SUBSET Items, Look(s, found) PROVE scan' \in [Scans -> ScanStates]
  BY <1>0, <1>2 DEF Look, ScanStates
<1>3. ASSUME NEW i \in Items, AskLog(s, i) PROVE scan' \in [Scans -> ScanStates]
  BY <1>0, <1>3 DEF AskLog, ScanStates
<1>4. CASE LookBlind(s) \/ RecordScan(s) \/ AllPresent(s)
  BY <1>0, <1>4 DEF LookBlind, RecordScan, AllPresent, AdvanceScan, ScanStates
<1>5. ASSUME NEW worn \in SUBSET scan[s].found, LogFound(s, worn)
      PROVE  scan' \in [Scans -> ScanStates]
  BY <1>0, <1>5 DEF LogFound, AdvanceScan, ScanStates
<1>6. CASE EnqueueNudge(s)
  BY <1>0, <1>6 DEF EnqueueNudge, ScanStates
<1>7. CASE ScanDies(s)
  BY <1>0, <1>7 DEF ScanDies, ScanStates
<1>. QED
  BY <1>1, <1>2, <1>3, <1>4, <1>5, <1>6, <1>7 DEF ScanStep

\* A run has a row in hand exactly while it asks about it or has posted it.
HandOK == \A d \in Drains : drain[d].cur # NoNudge <=> drain[d].pc \in {"asking", "sent"}

LEMMA DrainLocalsTyped ==
  ASSUME TypeOK, NEW d \in Drains, DrainStep(d) \/ DrainDies(d)
  PROVE  drain' \in [Drains -> DrainStates] /\ HandOK'
<1> DEFINE Goal == drain' \in [Drains -> DrainStates] /\ HandOK'
<1>0. drain \in [Drains -> DrainStates] /\ HandOK /\ clock \in Moments /\ 0 \in Moments
  BY NumbersAssumption DEF TypeOK, HandOK, Moments
<1>a. drain[d] \in DrainStates
  BY <1>0
<1>1. CASE DrainBegin(d)
  BY <1>0, <1>1 DEF DrainBegin, DrainStates, HandOK
<1>2. CASE DrainRead(d)
  <2>1. PICK B \in SUBSET Due(d) :
          drain' = [drain EXCEPT ![d].pc = "working", ![d].todo = B]
    BY <1>2 DEF DrainRead
  <2>2. B \subseteq Scans
    BY DEF Due, TypeOK
  <2>3. drain[d].pc = "begun"
    BY <1>2 DEF DrainRead
  <2>. QED
    BY <1>0, <2>1, <2>2, <2>3 DEF DrainStates, HandOK
<1>3. ASSUME NEW n \in Scans, DrainTake(d, n) PROVE Goal
  <2> DEFINE known == {i \in scan[n].missing : SeenSince(n, i)}
             r == [drain[d] EXCEPT !.pc = "asking", !.cur = n, !.todo = @ \ {n},
                       !.unasked = scan[n].missing, !.still = {}, !.known = known]
  <2>1. scan[n].missing \in SUBSET Items /\ known \in SUBSET Items
    BY DEF TypeOK, ScanStates
  <2> HIDE DEF known
  <2>2. r \in DrainStates /\ r.pc = "asking" /\ r.cur = n
    BY <1>a, <2>1 DEF DrainStates
  <2>3. drain' = [drain EXCEPT ![d] = r]
    BY <1>3 DEF DrainTake, known
  <2> HIDE DEF r
  <2>. QED
    BY <1>0, <2>2, <2>3, NoNudgeAssumption DEF HandOK
<1>4. ASSUME NEW i \in Items, Recheck(d, i) PROVE Goal
  BY <1>0, <1>4 DEF Recheck, DrainStates, HandOK
<1>5. CASE Cancel(d) \/ CloseSent(d)
  BY <1>0, <1>5 DEF Cancel, CloseSent, PutDown, DrainStates, HandOK
<1>6. CASE Send(d)
  BY <1>0, <1>6 DEF Send, DrainStates, HandOK
<1>7. CASE DrainEnd(d) \/ DrainDies(d)
  BY <1>0, <1>7 DEF DrainEnd, DrainDies, IdleDrain, DrainStates, HandOK
<1>. QED
  BY <1>1, <1>2, <1>3, <1>4, <1>5, <1>6, <1>7 DEF DrainStep

LEMMA StepTypeOK == TypeOK /\ [Next]_vars => TypeOK'
<1> SUFFICES ASSUME TypeOK, [Next]_vars PROVE TypeOK'
  OBVIOUS
<1>1. CASE Tick
  BY <1>1, NumbersAssumption DEF Tick, TypeOK, Moments
<1>2. ASSUME NEW i \in Items, NEW at \in 0 .. clock, NEW worn \in BOOLEAN, Sight(i, at, worn)
      PROVE TypeOK'
  <2>1. at \in Moments
    BY NumbersAssumption DEF TypeOK, Moments
  <2>2. seen' \in [Items -> Sightings]
    BY <1>2, <2>1 DEF Sight, TypeOK, Sightings
  <2>. QED
    BY <1>2, <2>2 DEF Sight, TypeOK
<1>3. ASSUME NEW s \in Scans, ScanStep(s) PROVE TypeOK'
  <2>1. scan' \in [Scans -> ScanStates]
    BY <1>3, ScanLocalsTyped
  <2>2. seen' \in [Items -> Sightings]
    <3>1. ASSUME NEW worn \in SUBSET scan[s].found, LogFound(s, worn)
          PROVE  seen' \in [Items -> Sightings]
      <4>1. scan[s].at \in Moments /\ seen \in [Items -> Sightings]
        BY DEF TypeOK, ScanStates
      <4>. QED
        BY <3>1, <4>1 DEF LogFound, Sightings
    <3>. QED
      BY <1>3, <3>1 DEF ScanStep, BeginScan, LookBlind, Look, AskLog, RecordScan, AllPresent,
                        EnqueueNudge, TypeOK
  <2>3. /\ UNCHANGED <<clock, sent, cancelled, drain, deliveries, raced, crashes>>
        /\ queued' \in {queued, queued \cup {s}}
    BY <1>3 DEF ScanStep, BeginScan, LookBlind, Look, AskLog, LogFound, RecordScan,
                AllPresent, EnqueueNudge, AdvanceScan
  <2>. QED
    BY <2>1, <2>2, <2>3 DEF TypeOK
<1>4. ASSUME NEW s \in Scans, ScanDies(s) PROVE TypeOK'
  <2>1. scan' \in [Scans -> ScanStates]
    BY <1>4, ScanLocalsTyped
  <2>. QED
    BY <1>4, <2>1, NumbersAssumption DEF ScanDies, TypeOK
<1>5. ASSUME NEW d \in Drains, DrainStep(d) \/ DrainDies(d) PROVE TypeOK'
  <2>1. drain' \in [Drains -> DrainStates] /\ HandOK'
    BY <1>5, DrainLocalsTyped
  <2>2. /\ \A e \in Drains : Held(e) \subseteq Scans
        /\ drain[d].pc \in {"asking", "sent"} => drain[d].cur \in Scans
    BY DEF TypeOK, DrainStates, Held
  <2>3. UNCHANGED <<clock, seen, scan, queued>>
    BY <1>5 DEF DrainStep, DrainBegin, DrainRead, DrainTake, Recheck, Cancel, Send,
                CloseSent, DrainEnd, DrainDies
  <2>4. raced' \in SUBSET Scans
    <3>1. CASE DrainRead(d)
      <4>1. PICK B \in SUBSET Due(d) :
              raced' = raced \cup UNION {B \cap Held(e) : e \in Drains \ {d}}
        BY <3>1 DEF DrainRead
      <4>. QED
        BY <4>1, <2>2 DEF TypeOK
    <3>2. CASE DrainDies(d)
      BY <3>2, <2>2 DEF DrainDies, TypeOK
    <3>. QED
      BY <1>5, <3>1, <3>2 DEF DrainStep, DrainBegin, DrainTake, Recheck, Cancel, Send,
                              CloseSent, DrainEnd, TypeOK
  <2>5. sent' \in SUBSET Scans /\ cancelled' \in SUBSET Scans
    <3>1. CASE Cancel(d)
      BY <3>1, <2>2 DEF Cancel, TypeOK
    <3>2. CASE CloseSent(d)
      BY <3>2, <2>2 DEF CloseSent, TypeOK
    <3>. QED
      BY <1>5, <3>1, <3>2 DEF DrainStep, DrainBegin, DrainRead, DrainTake, Recheck, Send,
                              DrainEnd, DrainDies, TypeOK
  <2>6. deliveries' \in [Scans -> Nat] /\ crashes' \in 0 .. MaxCrashes
    <3>1. CASE Send(d)
      BY <3>1, <2>2 DEF Send, TypeOK
    <3>2. CASE DrainDies(d)
      BY <3>2, NumbersAssumption DEF DrainDies, TypeOK
    <3>. QED
      BY <1>5, <3>1, <3>2 DEF DrainStep, DrainBegin, DrainRead, DrainTake, Recheck, Cancel,
                              CloseSent, DrainEnd, TypeOK
  <2>. QED
    BY <2>1, <2>3, <2>4, <2>5, <2>6 DEF TypeOK, HandOK
<1>6. CASE UNCHANGED vars
  BY <1>6 DEF vars, TypeOK
<1>. QED
  BY <1>1, <1>2, <1>3, <1>4, <1>5, <1>6 DEF Next

(* Every reachable state of the model is well typed, and a run has a row in    *)
(* hand exactly while it is asking about it or has posted it.                  *)
THEOREM TypeCorrect == Spec => []TypeOK
  BY InitTypeOK, StepTypeOK, PTL DEF Spec

-------------------------------------------------------------------------------
(* The inductive invariant.  The properties of LeaveNudge speak of rows; a     *)
(* step preserves them because of what each run knows about the row in its     *)
(* hand, and because no two runs share a row that has not been marked raced.   *)

InHand(d) == drain[d].pc \in {"asking", "sent"}

\* A row is written by a scan that is over: its payload no longer changes.
RowsFixed == \A n \in queued : scan[n].pc = "done"

\* What a run holds are rows, each once, and only while it works on them.
RunsHoldRows ==
    \A d \in Drains :
        /\ Held(d) \subseteq queued
        /\ drain[d].cur \notin drain[d].todo
        /\ drain[d].pc \in {"idle", "begun"} => drain[d].todo = {}

\* What a run holds was due by its own clock, which is not ahead of time.
RunsAreDue ==
    /\ \A d \in Drains :
        /\ drain[d].now <= clock
        /\ \A n \in Held(d) : DueAt(n) <= drain[d].now
    /\ \A n \in Scans : deliveries[n] > 0 => n \in queued /\ DueAt(n) <= clock

\* Every item of the row in hand is unasked, still missing, or seen since.
RunsAsk ==
    \A d \in Drains :
        /\ InHand(d) => \A i \in scan[drain[d].cur].missing :
                          i \in drain[d].unasked \cup drain[d].still \/ SeenSince(drain[d].cur, i)
        /\ InHand(d) => \A i \in drain[d].known : SeenSince(drain[d].cur, i)
        /\ ~InHand(d) => drain[d].known = {} /\ drain[d].still = {}

\* A row not marked raced is held by one run at most, is open while it is held,
\* and was posted once: by the run about to close it, or by the one that has.
Unraced(n) ==
    /\ \A d, e \in Drains : n \in Held(d) /\ n \in Held(e) => d = e
    /\ \A d \in Drains : n \in Held(d) => ~Closed(n)
    /\ deliveries[n] > 0 => Closed(n) \/ \E d \in Drains : drain[d].pc = "sent" /\ drain[d].cur = n
    /\ deliveries[n] <= 1
    /\ n \notin sent \cap cancelled
RacesMarked == \A n \in Scans : n \notin raced => Unraced(n)

\* Only rows are cancelled, and a run that is about to close a row has posted it.
ClosedForCause ==
    /\ cancelled \subseteq queued
    /\ \A d \in Drains : drain[d].pc = "sent" => deliveries[drain[d].cur] > 0

IInv ==
    /\ TypeOK /\ RowsFixed /\ RunsHoldRows /\ RunsAreDue /\ RunsAsk /\ RacesMarked
    /\ ClosedForCause /\ CancelledWereSeen /\ NamedItemsWereUnseen

-------------------------------------------------------------------------------
(* What a step of a run does to the locals of the runs, field by field.        *)

LEMMA OtherRuns ==
  ASSUME TypeOK, NEW d \in Drains, DrainStep(d) \/ DrainDies(d)
  PROVE  /\ UNCHANGED <<clock, seen, scan, queued>>
         /\ \A e \in Drains \ {d} : drain'[e] = drain[e]
<1>1. drain \in [Drains -> DrainStates]
  BY DEF TypeOK
<1>. QED
  BY <1>1 DEF DrainStep, DrainBegin, DrainRead, DrainTake, Recheck, Cancel, Send,
              CloseSent, DrainEnd, DrainDies, PutDown

\* The fields of run d that a step leaves alone.
SameHolding(d) == drain'[d].todo = drain[d].todo /\ drain'[d].cur = drain[d].cur
SameAnswers(d) == /\ drain'[d].unasked = drain[d].unasked
                  /\ drain'[d].still = drain[d].still
                  /\ drain'[d].known = drain[d].known
NoAnswers(d) == drain'[d].still = {} /\ drain'[d].known = {}
Emptied(d) == /\ drain'[d].pc = "idle" /\ drain'[d].todo = {} /\ drain'[d].cur = NoNudge
              /\ drain'[d].now = 0 /\ NoAnswers(d)
PutAside(d) == /\ drain'[d].pc = "working" /\ drain'[d].cur = NoNudge
               /\ drain'[d].todo = drain[d].todo /\ drain'[d].now = drain[d].now
               /\ NoAnswers(d)

LEMMA BeginEffect ==
  ASSUME TypeOK, NEW d \in Drains, DrainBegin(d)
  PROVE  drain'[d].pc = "begun" /\ drain'[d].now = clock /\ SameHolding(d) /\ SameAnswers(d)
<1>1. drain \in [Drains -> DrainStates]
  BY DEF TypeOK
<1>. QED
  BY <1>1 DEF DrainBegin, DrainStates, SameHolding, SameAnswers

LEMMA ReadEffect ==
  ASSUME TypeOK, NEW d \in Drains, DrainRead(d)
  PROVE  /\ drain'[d].pc = "working" /\ drain'[d].now = drain[d].now
         /\ drain'[d].cur = drain[d].cur /\ SameAnswers(d)
         /\ drain'[d].todo \subseteq Due(d)
         /\ raced' = raced \cup UNION {drain'[d].todo \cap Held(e) : e \in Drains \ {d}}
<1>1. drain \in [Drains -> DrainStates]
  BY DEF TypeOK
<1>2. PICK B \in SUBSET Due(d) :
        /\ drain' = [drain EXCEPT ![d].pc = "working", ![d].todo = B]
        /\ raced' = raced \cup UNION {B \cap Held(e) : e \in Drains \ {d}}
  BY DEF DrainRead
<1>3. drain'[d].todo = B
  BY <1>1, <1>2 DEF DrainStates
<1>. QED
  BY <1>1, <1>2, <1>3 DEF DrainStates, SameAnswers

LEMMA TakeEffect ==
  ASSUME TypeOK, NEW d \in Drains, NEW n \in Scans, DrainTake(d, n)
  PROVE  /\ drain'[d].pc = "asking" /\ drain'[d].now = drain[d].now
         /\ drain'[d].cur = n /\ drain'[d].todo = drain[d].todo \ {n}
         /\ drain'[d].unasked = scan[n].missing /\ drain'[d].still = {}
         /\ \A i \in drain'[d].known : i \in scan[n].missing /\ SeenSince(n, i)
<1> DEFINE known == {i \in scan[n].missing : SeenSince(n, i)}
<1>1. drain \in [Drains -> DrainStates]
  BY DEF TypeOK
<1>2. drain' = [drain EXCEPT ![d].pc = "asking", ![d].cur = n, ![d].todo = @ \ {n},
                    ![d].unasked = scan[n].missing, ![d].still = {}, ![d].known = known]
  BY DEF DrainTake
<1>3. \A i \in known : i \in scan[n].missing /\ SeenSince(n, i)
  OBVIOUS
<1> HIDE DEF known
<1>. QED
  BY <1>1, <1>2, <1>3 DEF DrainStates

LEMMA RecheckEffect ==
  ASSUME TypeOK, NEW d \in Drains, NEW i \in Items, Recheck(d, i)
  PROVE  /\ drain'[d].pc = "asking" /\ drain'[d].now = drain[d].now /\ SameHolding(d)
         /\ drain'[d].unasked = drain[d].unasked \ {i}
         /\ drain'[d].known = drain[d].known
         /\ drain'[d].still = IF SeenSince(drain[d].cur, i) THEN drain[d].still
                              ELSE drain[d].still \cup {i}
<1>1. drain \in [Drains -> DrainStates]
  BY DEF TypeOK
<1>. QED
  BY <1>1 DEF Recheck, DrainStates, SameHolding

LEMMA SendEffect ==
  ASSUME TypeOK, NEW d \in Drains, Send(d)
  PROVE  /\ drain'[d].pc = "sent" /\ drain'[d].now = drain[d].now
         /\ SameHolding(d) /\ SameAnswers(d)
<1>1. drain \in [Drains -> DrainStates]
  BY DEF TypeOK
<1>. QED
  BY <1>1 DEF Send, DrainStates, SameHolding, SameAnswers

LEMMA CloseEffect ==
  ASSUME TypeOK, NEW d \in Drains, Cancel(d) \/ CloseSent(d)
  PROVE  PutAside(d)
<1>1. drain \in [Drains -> DrainStates]
  BY DEF TypeOK
<1>. QED
  BY <1>1 DEF Cancel, CloseSent, PutDown, DrainStates, PutAside, NoAnswers

LEMMA EndEffect ==
  ASSUME TypeOK, NEW d \in Drains, DrainEnd(d) \/ DrainDies(d)
  PROVE  Emptied(d)
<1>1. drain \in [Drains -> DrainStates]
  BY DEF TypeOK
<1>. QED
  BY <1>1 DEF DrainEnd, DrainDies, IdleDrain, DrainStates, Emptied, NoAnswers

-------------------------------------------------------------------------------
(* Time, evidence and rows only grow. *)

LEMMA OnlyGrows ==
  ASSUME TypeOK, RowsFixed, [Next]_vars
  PROVE  /\ clock' >= clock
         /\ \A i \in Items : seen'[i].at >= seen[i].at
         /\ queued \subseteq queued' /\ sent \subseteq sent' /\ cancelled \subseteq cancelled'
         /\ \A n \in queued : scan'[n] = scan[n]
         /\ RowsFixed'
<1> USE DEF TypeOK
<1>1. \A i \in Items : seen[i].at \in Int
  BY NumbersAssumption DEF Sightings, Moments
<1>2. Tick => /\ clock' >= clock /\ UNCHANGED <<queued, sent, cancelled, scan, seen>>
              /\ RowsFixed'
              /\ \A i \in Items : seen'[i].at >= seen[i].at
  BY <1>1, NumbersAssumption DEF Tick, RowsFixed, Moments
<1>3. ASSUME NEW i \in Items, NEW at \in 0 .. clock, NEW worn \in BOOLEAN, Sight(i, at, worn)
      PROVE  /\ clock' = clock /\ queued' = queued /\ sent' = sent
             /\ cancelled' = cancelled /\ scan' = scan
             /\ \A j \in Items : seen'[j].at >= seen[j].at
  BY <1>1, <1>3 DEF Sight, Sightings
<1>4. ASSUME NEW s \in Scans, ScanStep(s) \/ ScanDies(s)
      PROVE  /\ UNCHANGED <<clock, sent, cancelled>>
             /\ queued' \subseteq queued \cup {s} /\ queued \subseteq queued'
             /\ \A i \in Items : seen'[i].at >= seen[i].at
             /\ \A n \in queued : scan'[n] = scan[n]
             /\ RowsFixed'
  <2>0. scan \in [Scans -> ScanStates]
    OBVIOUS
  <2>1. \A n \in Scans \ {s} : scan'[n] = scan[n]
    BY <1>4, <2>0 DEF ScanStep, BeginScan, LookBlind, Look, AskLog, LogFound, RecordScan,
                AllPresent, EnqueueNudge, ScanDies, AdvanceScan
  <2>2. scan[s].pc # "done"
    BY <1>4 DEF ScanStep, BeginScan, LookBlind, Look, AskLog, LogFound, RecordScan,
                AllPresent, EnqueueNudge, ScanDies, AdvanceScan
  <2>3. s \notin queued
    BY <2>2 DEF RowsFixed
  <2>4. /\ UNCHANGED <<clock, sent, cancelled>>
        /\ queued' = queued \/ (queued' = queued \cup {s} /\ scan'[s].pc = "done")
    BY <1>4, <2>0 DEF ScanStep, BeginScan, LookBlind, Look, AskLog, LogFound, RecordScan,
                AllPresent, EnqueueNudge, ScanDies, AdvanceScan, ScanStates
  <2>5. \A i \in Items : seen'[i].at >= seen[i].at
    <3>1. ASSUME NEW worn \in SUBSET scan[s].found, LogFound(s, worn)
          PROVE  \A i \in Items : seen'[i].at >= seen[i].at
      <4>1. scan[s].at \in Int
        BY <2>0, NumbersAssumption DEF ScanStates, Moments
      <4>. QED
        BY <1>1, <3>1, <4>1 DEF LogFound
    <3>2. UNCHANGED seen \/ \E worn \in SUBSET scan[s].found : LogFound(s, worn)
      BY <1>4 DEF ScanStep, BeginScan, LookBlind, Look, AskLog, RecordScan,
                AllPresent, EnqueueNudge, ScanDies
    <3>3. CASE UNCHANGED seen
      BY <1>1, <3>3
    <3>. QED
      BY <3>1, <3>2, <3>3
  <2>. QED
    BY <2>1, <2>3, <2>4, <2>5 DEF RowsFixed
<1>5. ASSUME NEW d \in Drains, DrainStep(d) \/ DrainDies(d)
      PROVE  /\ UNCHANGED <<clock, seen, scan, queued>>
             /\ sent \subseteq sent' /\ cancelled \subseteq cancelled'
  <2>1. UNCHANGED <<clock, seen, scan, queued>>
    BY <1>5, OtherRuns
  <2>2. sent \subseteq sent' /\ cancelled \subseteq cancelled'
    BY <1>5 DEF DrainStep, DrainBegin, DrainRead, DrainTake, Recheck, Cancel, Send,
                CloseSent, DrainEnd, DrainDies
  <2>. QED
    BY <2>1, <2>2
<1>6. UNCHANGED vars => UNCHANGED <<clock, seen, scan, queued, sent, cancelled>>
  BY DEF vars
<1>7. clock \in Int
  BY NumbersAssumption DEF Moments
<1> DEFINE Goal == /\ clock' >= clock
                   /\ \A i \in Items : seen'[i].at >= seen[i].at
                   /\ queued \subseteq queued' /\ sent \subseteq sent'
                   /\ cancelled \subseteq cancelled'
                   /\ \A n \in queued : scan'[n] = scan[n]
                   /\ RowsFixed'
<1>8. ASSUME NEW i \in Items, NEW at \in 0 .. clock, NEW worn \in BOOLEAN, Sight(i, at, worn)
      PROVE Goal
  BY <1>3, <1>7, <1>8 DEF RowsFixed
<1>9. ASSUME NEW s \in Scans, ScanStep(s) \/ ScanDies(s) PROVE Goal
  BY <1>4, <1>7, <1>9
<1>10. ASSUME NEW d \in Drains, DrainStep(d) \/ DrainDies(d) PROVE Goal
  BY <1>1, <1>5, <1>7, <1>10 DEF RowsFixed
<1>11. CASE Tick
  BY <1>2, <1>11
<1>12. CASE UNCHANGED vars
  BY <1>1, <1>6, <1>7, <1>12 DEF RowsFixed
<1>. QED
  BY <1>8, <1>9, <1>10, <1>11, <1>12 DEF Next

\* Every step is a step of a run or leaves what runs do alone.
LEMMA RunOrNot ==
  ASSUME [Next]_vars
  PROVE  \/ \E d \in Drains : DrainStep(d) \/ DrainDies(d)
         \/ UNCHANGED <<drain, deliveries, raced, sent, cancelled>>
BY DEF Next, vars, Tick, Sight, ScanStep, BeginScan, LookBlind, Look, AskLog, LogFound,
       RecordScan, AllPresent, EnqueueNudge, ScanDies, AdvanceScan

\* What a row said it goes on saying, and a sighting since stays one.
LEMMA RowsKeep ==
  ASSUME TypeOK, RowsFixed, [Next]_vars
  PROVE  \A n \in queued : /\ n \in queued'
                           /\ scan'[n] = scan[n]
                           /\ DueAt(n)' = DueAt(n)
                           /\ \A i \in Items : SeenSince(n, i) => SeenSince(n, i)'
<1>1. \A i \in Items : seen[i].at \in Int /\ seen'[i].at \in Int
  BY StepTypeOK, NumbersAssumption DEF TypeOK, Sightings, Moments
<1>2. \A n \in queued : scan[n].at \in Int
  BY NumbersAssumption DEF TypeOK, ScanStates, Moments
<1>3. \A n \in queued : n \in queued' /\ scan'[n] = scan[n]
  BY OnlyGrows
<1>4. \A i \in Items : seen'[i].at >= seen[i].at
  BY OnlyGrows
<1>. QED
  BY <1>1, <1>2, <1>3, <1>4 DEF DueAt, SeenSince

-------------------------------------------------------------------------------
(* Each part of the invariant, step by step. *)

LEMMA StepRunsHoldRows ==
  TypeOK /\ RowsFixed /\ RunsHoldRows /\ [Next]_vars => RunsHoldRows'
<1> SUFFICES ASSUME TypeOK, RowsFixed, RunsHoldRows, [Next]_vars PROVE RunsHoldRows'
  OBVIOUS
<1>1. queued \subseteq queued' /\ HandOK
  BY OnlyGrows DEF TypeOK, HandOK
<1>2. CASE UNCHANGED <<drain, deliveries, raced, sent, cancelled>>
  BY <1>1, <1>2 DEF RunsHoldRows, Held
<1>3. ASSUME NEW d \in Drains, DrainStep(d) \/ DrainDies(d) PROVE RunsHoldRows'
  <2> DEFINE OK == /\ drain'[d].todo \subseteq queued
                   /\ drain'[d].cur \in queued \cup {NoNudge}
                   /\ drain'[d].cur \notin drain'[d].todo
                   /\ drain'[d].pc \in {"idle", "begun"} => drain'[d].todo = {}
  <2>0. /\ drain[d].todo \subseteq queued /\ drain[d].cur \in queued \cup {NoNudge}
        /\ drain[d].cur \notin drain[d].todo
        /\ drain[d].pc \in {"idle", "begun"} => drain[d].todo = {}
        /\ NoNudge \notin queued
    BY NoNudgeAssumption DEF RunsHoldRows, Held, TypeOK
  <2>1. ASSUME DrainBegin(d) PROVE OK
    BY <2>0, <2>1, BeginEffect DEF DrainBegin, SameHolding
  <2>2. ASSUME DrainRead(d) PROVE OK
    <3>1. drain[d].cur = NoNudge
      BY <1>1, <2>2 DEF DrainRead, HandOK
    <3>2. Due(d) \subseteq queued
      BY DEF Due
    <3>. QED
      BY <2>0, <2>2, <3>1, <3>2, ReadEffect
  <2>3. ASSUME NEW n \in Scans, DrainTake(d, n) PROVE OK
    <3>1. n \in drain[d].todo
      BY <2>3 DEF DrainTake
    <3>. QED
      BY <2>0, <2>3, <3>1, TakeEffect
  <2>4. ASSUME NEW i \in Items, Recheck(d, i) PROVE OK
    BY <2>0, <2>4, RecheckEffect DEF SameHolding
  <2>5. ASSUME Cancel(d) \/ CloseSent(d) PROVE OK
    BY <2>0, <2>5, CloseEffect DEF PutAside
  <2>6. ASSUME Send(d) PROVE OK
    BY <2>0, <2>6, SendEffect DEF SameHolding
  <2>7. ASSUME DrainEnd(d) \/ DrainDies(d) PROVE OK
    BY <2>0, <2>7, EndEffect DEF Emptied
  <2>8. OK
    BY <1>3, <2>1, <2>2, <2>3, <2>4, <2>5, <2>6, <2>7 DEF DrainStep
  <2>9. \A e \in Drains \ {d} : drain'[e] = drain[e]
    BY <1>3, OtherRuns
  <2>. QED
    BY <1>1, <2>8, <2>9 DEF RunsHoldRows, Held
<1>. QED
  BY <1>2, <1>3, RunOrNot

LEMMA StepRunsAreDue ==
  TypeOK /\ RowsFixed /\ RunsHoldRows /\ RunsAreDue /\ [Next]_vars => RunsAreDue'
<1> SUFFICES ASSUME TypeOK, RowsFixed, RunsHoldRows, RunsAreDue, [Next]_vars PROVE RunsAreDue'
  OBVIOUS
<1>1. clock' >= clock /\ clock \in Int /\ clock' \in Int /\ 0 <= clock'
  BY OnlyGrows, StepTypeOK, NumbersAssumption DEF TypeOK, Moments
<1>2. \A n \in queued : n \in queued' /\ DueAt(n)' = DueAt(n) /\ DueAt(n) \in Int
  BY RowsKeep, NumbersAssumption DEF TypeOK, ScanStates, Moments, DueAt
<1>3. \A d \in Drains : drain[d].now \in Int /\ drain[d].now <= clock
  BY NumbersAssumption DEF TypeOK, DrainStates, Moments, RunsAreDue
<1>4. CASE UNCHANGED <<drain, deliveries, raced, sent, cancelled>>
  BY <1>1, <1>2, <1>3, <1>4 DEF RunsAreDue, RunsHoldRows, Held
<1>5. ASSUME NEW d \in Drains, DrainStep(d) \/ DrainDies(d) PROVE RunsAreDue'
  <2> DEFINE OK == /\ drain'[d].now <= clock /\ Held(d)' \subseteq queued
                   /\ \A n \in Held(d)' : DueAt(n) <= drain'[d].now
  <2>0. \A n \in Held(d) : n \in queued /\ DueAt(n) <= drain[d].now
    BY DEF RunsAreDue, RunsHoldRows
  <2>a. Held(d)' \subseteq queued
    BY <1>5, StepRunsHoldRows, OtherRuns DEF RunsHoldRows
  <2>1. ASSUME DrainBegin(d) PROVE OK
    <3>1. Held(d)' = {}
      BY <2>1, BeginEffect DEF DrainBegin, SameHolding, RunsHoldRows, Held, TypeOK
    <3>. QED
      BY <1>1, <2>1, <3>1, BeginEffect
  <2>2. ASSUME DrainRead(d) PROVE OK
    <3>1. drain[d].cur = NoNudge
      BY <2>2 DEF DrainRead, TypeOK
    <3>2. Held(d)' \subseteq Due(d)
      BY <2>2, <3>1, ReadEffect DEF Held
    <3>3. \A n \in Due(d) : DueAt(n) <= drain[d].now
      BY DEF Due
    <3>. QED
      BY <1>3, <2>2, <2>a, <3>2, <3>3, ReadEffect
  <2>3. ASSUME NEW n \in Scans, DrainTake(d, n) PROVE OK
    <3>1. n \in drain[d].todo
      BY <2>3 DEF DrainTake
    <3>2. Held(d)' \subseteq Held(d)
      BY <2>3, <3>1, TakeEffect DEF Held
    <3>. QED
      BY <1>3, <2>0, <2>a, <2>3, <3>2, TakeEffect
  <2>4. ASSUME NEW i \in Items, Recheck(d, i) PROVE OK
    BY <1>3, <2>0, <2>a, <2>4, RecheckEffect DEF SameHolding, Held
  <2>5. ASSUME Cancel(d) \/ CloseSent(d) PROVE OK
    BY <1>3, <2>0, <2>a, <2>5, CloseEffect DEF PutAside, Held
  <2>6. ASSUME Send(d) PROVE OK
    BY <1>3, <2>0, <2>a, <2>6, SendEffect DEF SameHolding, Held
  <2>7. ASSUME DrainEnd(d) \/ DrainDies(d) PROVE OK
    BY <1>1, <1>5, <2>a, <2>7, EndEffect, OtherRuns DEF Emptied, Held
  <2>8. OK
    BY <1>5, <2>1, <2>2, <2>3, <2>4, <2>5, <2>6, <2>7 DEF DrainStep
  <2>9. UNCHANGED <<clock, seen, scan, queued>> /\ \A e \in Drains \ {d} : drain'[e] = drain[e]
    BY <1>5, OtherRuns
  <2>10. \A n \in Scans : deliveries'[n] > 0 => n \in queued /\ DueAt(n) <= clock
    <3>1. CASE Send(d)
      <4>1. drain[d].cur \in Held(d)
        BY <3>1 DEF Send, Held, TypeOK
      <4>2. DueAt(drain[d].cur) <= clock
        BY <1>2, <1>3, <1>1, <2>0, <4>1
      <4>. QED
        BY <2>0, <3>1, <4>1, <4>2 DEF Send, RunsAreDue, TypeOK
    <3>2. CASE UNCHANGED deliveries
      BY <3>2 DEF RunsAreDue
    <3>. QED
      BY <1>5, <3>1, <3>2 DEF DrainStep, DrainBegin, DrainRead, DrainTake, Recheck, Cancel,
                              CloseSent, DrainEnd, DrainDies
  <2>11. \A e \in Drains \ {d} : Held(e)' = Held(e) /\ drain'[e].now = drain[e].now
    BY <2>9 DEF Held
  <2>12. \A n \in queued : DueAt(n)' = DueAt(n)
    BY <1>2
  <2>. QED
    BY <1>3, <2>8, <2>9, <2>10, <2>11, <2>12 DEF RunsAreDue, RunsHoldRows
<1>. QED
  BY <1>4, <1>5, RunOrNot

LEMMA StepRunsAsk ==
  TypeOK /\ RowsFixed /\ RunsHoldRows /\ RunsAsk /\ [Next]_vars => RunsAsk'
<1> SUFFICES ASSUME TypeOK, RowsFixed, RunsHoldRows, RunsAsk, [Next]_vars PROVE RunsAsk'
  OBVIOUS
<1> DEFINE Asks(d) ==
        /\ InHand(d) => \A i \in scan[drain[d].cur].missing :
                          i \in drain[d].unasked \cup drain[d].still \/ SeenSince(drain[d].cur, i)
        /\ InHand(d) => \A i \in drain[d].known : SeenSince(drain[d].cur, i)
        /\ ~InHand(d) => drain[d].known = {} /\ drain[d].still = {}
<1>1. \A n \in queued : scan'[n] = scan[n] /\ \A i \in Items : SeenSince(n, i) => SeenSince(n, i)'
  BY RowsKeep
<1>2. \A d \in Drains : /\ InHand(d) => drain[d].cur \in queued
                        /\ drain[d].known \subseteq Items
                        /\ drain[d].cur \in Scans => scan[drain[d].cur].missing \subseteq Items
  BY DEF InHand, TypeOK, RunsHoldRows, Held, DrainStates, ScanStates
<1>3. \A d \in Drains : drain'[d] = drain[d] => Asks(d)'
  <2> SUFFICES ASSUME NEW d \in Drains, drain'[d] = drain[d] PROVE Asks(d)'
    OBVIOUS
  <2>1. Asks(d)
    BY DEF RunsAsk
  <2>2. CASE ~InHand(d)
    BY <2>1, <2>2 DEF InHand
  <2>3. CASE InHand(d)
    <3> DEFINE n == drain[d].cur
    <3>1. n \in queued /\ n \in Scans
      BY <1>2, <2>3 DEF TypeOK
    <3>2. scan'[n] = scan[n] /\ \A i \in Items : SeenSince(n, i) => SeenSince(n, i)'
      BY <1>1, <3>1
    <3>. QED
      BY <1>2, <2>1, <2>3, <3>1, <3>2 DEF InHand, SeenSince
  <2>. QED
    BY <2>2, <2>3
<1>4. CASE UNCHANGED <<drain, deliveries, raced, sent, cancelled>>
  BY <1>3, <1>4 DEF RunsAsk
<1>5. ASSUME NEW d \in Drains, DrainStep(d) \/ DrainDies(d) PROVE RunsAsk'
  <2>0. /\ UNCHANGED <<clock, seen, scan, queued>>
        /\ \A e \in Drains \ {d} : drain'[e] = drain[e]
        /\ Asks(d)
    BY <1>5, OtherRuns DEF RunsAsk
  <2>1. ASSUME DrainBegin(d) \/ DrainRead(d) PROVE Asks(d)'
    <3>1. ~InHand(d) /\ SameAnswers(d) /\ drain'[d].pc \in {"begun", "working"}
      BY <2>1, BeginEffect, ReadEffect DEF InHand, DrainBegin, DrainRead
    <3>. QED
      BY <2>0, <3>1 DEF InHand, SameAnswers
  <2>3. ASSUME NEW n \in Scans, DrainTake(d, n) PROVE Asks(d)'
    BY <2>0, <2>3, TakeEffect DEF InHand, SeenSince
  <2>4. ASSUME NEW i \in Items, Recheck(d, i) PROVE Asks(d)'
    <3>1. InHand(d)
      BY <2>4 DEF Recheck, InHand
    <3>2. drain'[d].cur = drain[d].cur /\ scan' = scan /\ seen' = seen
      BY <2>0, <2>4, RecheckEffect DEF SameHolding
    <3>3. \A j \in scan[drain[d].cur].missing :
            j \in drain'[d].unasked \cup drain'[d].still \/ SeenSince(drain[d].cur, j)
      BY <2>0, <2>4, <3>1, RecheckEffect
    <3>4. \A j \in drain'[d].known : SeenSince(drain[d].cur, j)
      BY <2>0, <2>4, <3>1, RecheckEffect
    <3>5. InHand(d)'
      BY <2>4, RecheckEffect DEF InHand
    <3>. QED
      BY <3>2, <3>3, <3>4, <3>5 DEF SeenSince
  <2>5. ASSUME Send(d) PROVE Asks(d)'
    <3>1. InHand(d)
      BY <2>5 DEF Send, InHand
    <3>. QED
      BY <2>0, <2>5, <3>1, SendEffect DEF InHand, SeenSince, SameHolding, SameAnswers
  <2>6. ASSUME Cancel(d) \/ CloseSent(d) PROVE Asks(d)'
    BY <2>6, CloseEffect DEF PutAside, NoAnswers, InHand
  <2>7. ASSUME DrainEnd(d) \/ DrainDies(d) PROVE Asks(d)'
    BY <2>7, EndEffect DEF Emptied, NoAnswers, InHand
  <2>8. Asks(d)'
    BY <1>5, <2>1, <2>3, <2>4, <2>5, <2>6, <2>7 DEF DrainStep
  <2>. QED
    BY <1>3, <2>0, <2>8 DEF RunsAsk
<1>. QED
  BY <1>4, <1>5, RunOrNot

LEMMA StepNamedItemsWereUnseen ==
  TypeOK /\ RunsHoldRows /\ RunsAsk /\ NamedItemsWereUnseen /\ [Next]_vars
    => NamedItemsWereUnseen'
<1> SUFFICES ASSUME TypeOK, RunsHoldRows, RunsAsk, NamedItemsWereUnseen, [Next]_vars
             PROVE  NamedItemsWereUnseen'
  OBVIOUS
<1>1. CASE UNCHANGED <<drain, deliveries, raced, sent, cancelled>>
  BY <1>1 DEF NamedItemsWereUnseen
<1>2. ASSUME NEW d \in Drains, DrainStep(d) \/ DrainDies(d) PROVE NamedItemsWereUnseen'
  <2> DEFINE OK == drain'[d].still \cap drain'[d].known = {}
  <2>0. drain[d].still \cap drain[d].known = {}
    BY DEF NamedItemsWereUnseen
  <2>1. ASSUME DrainBegin(d) \/ DrainRead(d) \/ Send(d) PROVE OK
    BY <2>0, <2>1, BeginEffect, ReadEffect, SendEffect DEF SameAnswers
  <2>2. ASSUME NEW n \in Scans, DrainTake(d, n) PROVE OK
    BY <2>2, TakeEffect
  <2>3. ASSUME NEW i \in Items, Recheck(d, i) PROVE OK
    <3>1. \A j \in drain[d].known : SeenSince(drain[d].cur, j)
      BY <2>3 DEF Recheck, RunsAsk, InHand
    <3>. QED
      BY <2>0, <2>3, <3>1, RecheckEffect
  <2>4. ASSUME Cancel(d) \/ CloseSent(d) \/ DrainEnd(d) \/ DrainDies(d) PROVE OK
    BY <2>4, CloseEffect, EndEffect DEF PutAside, Emptied, NoAnswers
  <2>5. OK
    BY <1>2, <2>1, <2>2, <2>3, <2>4 DEF DrainStep
  <2>. QED
    BY <1>2, <2>5, OtherRuns DEF NamedItemsWereUnseen
<1>. QED
  BY <1>1, <1>2, RunOrNot

LEMMA StepCancelledWereSeen ==
  TypeOK /\ RowsFixed /\ RunsHoldRows /\ RunsAsk /\ cancelled \subseteq queued
    /\ CancelledWereSeen /\ [Next]_vars => CancelledWereSeen' /\ (cancelled \subseteq queued)'
<1> SUFFICES ASSUME TypeOK, RowsFixed, RunsHoldRows, RunsAsk, cancelled \subseteq queued,
                    CancelledWereSeen, [Next]_vars
             PROVE  CancelledWereSeen' /\ (cancelled \subseteq queued)'
  OBVIOUS
<1>1. \A n \in queued : /\ n \in queued' /\ scan'[n] = scan[n] /\ scan[n].missing \subseteq Items
                        /\ \A i \in Items : SeenSince(n, i) => SeenSince(n, i)'
  BY RowsKeep DEF TypeOK, ScanStates
<1>2. \A n \in cancelled : \A i \in scan[n].missing : SeenSince(n, i)
  BY DEF CancelledWereSeen, SeenSince
<1>3. \/ cancelled' = cancelled
      \/ \E d \in Drains : Cancel(d)
  <2>1. ASSUME NEW d \in Drains, DrainStep(d) \/ DrainDies(d)
        PROVE  cancelled' = cancelled \/ Cancel(d)
    BY <2>1 DEF DrainStep, DrainBegin, DrainRead, DrainTake, Recheck, Send, CloseSent,
                DrainEnd, DrainDies
  <2>. QED
    BY <2>1, RunOrNot
<1>4. \A n \in cancelled' : n \in queued /\ \A i \in scan[n].missing : SeenSince(n, i)
  <2>1. ASSUME NEW d \in Drains, Cancel(d)
        PROVE  \A n \in cancelled' : n \in queued /\ \A i \in scan[n].missing : SeenSince(n, i)
    <3>1. InHand(d) /\ drain[d].unasked = {} /\ drain[d].still = {}
          /\ cancelled' = cancelled \cup {drain[d].cur}
      BY <2>1 DEF Cancel, InHand
    <3>2. drain[d].cur \in queued
      BY <3>1 DEF InHand, RunsHoldRows, Held, TypeOK
    <3>3. \A i \in scan[drain[d].cur].missing : SeenSince(drain[d].cur, i)
      BY <3>1 DEF RunsAsk
    <3>. QED
      BY <1>2, <3>1, <3>2, <3>3
  <2>. QED
    BY <1>2, <1>3, <2>1
<1>. QED
  BY <1>1, <1>4 DEF CancelledWereSeen, SeenSince

\* What a run that neither reads rows nor posts or closes one does to an unraced row.
LEMMA QuietUnraced ==
  ASSUME TypeOK, NEW n \in Scans, Unraced(n), NEW d \in Drains,
         \A e \in Drains \ {d} : drain'[e] = drain[e],
         Held(d)' \subseteq Held(d),
         ~(drain[d].pc = "sent" /\ drain[d].cur = n),
         UNCHANGED <<sent, cancelled, deliveries>>
  PROVE  Unraced(n)'
<1>1. \A e \in Drains : n \in Held(e)' => n \in Held(e)
  BY DEF Held
<1>2. deliveries[n] > 0 => Closed(n)' \/ \E e \in Drains : drain'[e].pc = "sent" /\ drain'[e].cur = n
  BY DEF Unraced, Closed
<1>. QED
  BY <1>1, <1>2 DEF Unraced, Closed

LEMMA StepRacesMarked ==
  TypeOK /\ RunsHoldRows /\ RacesMarked /\ [Next]_vars => RacesMarked'
<1> SUFFICES ASSUME TypeOK, RunsHoldRows, RacesMarked, [Next]_vars PROVE RacesMarked'
  OBVIOUS
<1>1. CASE UNCHANGED <<drain, deliveries, raced, sent, cancelled>>
  BY <1>1 DEF RacesMarked, Unraced, Held, Closed
<1>2. ASSUME NEW d \in Drains, DrainStep(d) \/ DrainDies(d), NEW n \in Scans, n \notin raced'
      PROVE  Unraced(n)'
  <2>1. \A e \in Drains \ {d} : drain'[e] = drain[e] /\ Held(e)' = Held(e)
    BY <1>2, OtherRuns DEF Held
  <2>2. raced \subseteq raced'
    BY <1>2 DEF DrainStep, DrainBegin, DrainRead, DrainTake, Recheck, Cancel, Send, CloseSent,
                DrainEnd, DrainDies
  <2>3. Unraced(n)
    BY <1>2, <2>2 DEF RacesMarked
  <2>4. n # NoNudge /\ drain[d].cur \notin drain[d].todo
        /\ (drain[d].cur # NoNudge <=> drain[d].pc \in {"asking", "sent"})
    BY NoNudgeAssumption DEF RunsHoldRows, TypeOK
  <2>5. ASSUME DrainBegin(d) PROVE Unraced(n)'
    <3>1. Held(d)' \subseteq Held(d) /\ drain[d].pc # "sent"
      BY <2>5, BeginEffect DEF DrainBegin, SameHolding, Held
    <3>. QED
      BY <2>1, <2>3, <2>5, <3>1, QuietUnraced DEF DrainBegin
  <2>6. ASSUME DrainRead(d) PROVE Unraced(n)'
    <3>1. drain[d].pc = "begun" /\ drain'[d].pc = "working" /\ Held(d)' \subseteq Due(d)
          /\ Held(d)' = drain'[d].todo
      BY <2>4, <2>6, ReadEffect DEF DrainRead, Held
    <3>2. n \in Held(d)' => ~Closed(n)
      BY <3>1 DEF Due
    <3>3. \A e \in Drains \ {d} : ~(n \in Held(d)' /\ n \in Held(e))
      BY <1>2, <2>6, <3>1, ReadEffect
    <3>4. UNCHANGED <<sent, cancelled, deliveries>>
      BY <2>6 DEF DrainRead
    <3>5. deliveries[n] > 0 =>
            Closed(n)' \/ \E e \in Drains : drain'[e].pc = "sent" /\ drain'[e].cur = n
      BY <2>1, <2>3, <3>1, <3>4 DEF Unraced, Closed
    <3>6. \A e, f \in Drains : n \in Held(e)' /\ n \in Held(f)' => e = f
      BY <2>1, <2>3, <3>3 DEF Unraced
    <3>7. \A e \in Drains : n \in Held(e)' => ~Closed(n)'
      BY <2>1, <2>3, <3>2, <3>4 DEF Unraced, Closed
    <3>. QED
      BY <2>3, <3>4, <3>5, <3>6, <3>7 DEF Unraced
  <2>7. ASSUME NEW m \in Scans, DrainTake(d, m) PROVE Unraced(n)'
    <3>0. m \in drain[d].todo /\ drain[d].pc = "working"
      BY <2>7 DEF DrainTake
    <3>1. Held(d)' \subseteq Held(d) /\ drain[d].pc # "sent"
      BY <2>7, <3>0, TakeEffect DEF Held
    <3>. QED
      BY <2>1, <2>3, <2>7, <3>1, QuietUnraced DEF DrainTake
  <2>8. ASSUME NEW i \in Items, Recheck(d, i) PROVE Unraced(n)'
    <3>1. Held(d)' \subseteq Held(d) /\ drain[d].pc # "sent"
      BY <2>8, RecheckEffect DEF Recheck, SameHolding, Held
    <3>. QED
      BY <2>1, <2>3, <2>8, <3>1, QuietUnraced DEF Recheck
  <2>9. ASSUME DrainEnd(d) PROVE Unraced(n)'
    <3>1. Held(d)' \subseteq Held(d) /\ drain[d].pc # "sent"
      BY <2>9, EndEffect DEF DrainEnd, Emptied, Held
    <3>. QED
      BY <2>1, <2>3, <2>9, <3>1, QuietUnraced DEF DrainEnd
  <2>10. ASSUME DrainDies(d) PROVE Unraced(n)'
    <3>1. Held(d)' \subseteq Held(d)
      BY <2>10, EndEffect DEF Emptied, Held
    <3>2. ~(drain[d].pc = "sent" /\ drain[d].cur = n)
      BY <1>2, <2>10 DEF DrainDies
    <3>. QED
      BY <2>1, <2>3, <2>10, <3>1, <3>2, QuietUnraced DEF DrainDies
  <2>11. ASSUME Send(d) PROVE Unraced(n)'
    <3>1. Held(d)' = Held(d) /\ drain[d].pc = "asking" /\ drain'[d].pc = "sent"
          /\ drain'[d].cur = drain[d].cur
      BY <2>11, SendEffect DEF Send, SameHolding, Held
    <3>2. UNCHANGED <<sent, cancelled>>
          /\ deliveries' = [deliveries EXCEPT ![drain[d].cur] = @ + 1]
      BY <2>11 DEF Send
    <3>3. CASE drain[d].cur # n
      <4>1. deliveries'[n] = deliveries[n]
        BY <3>2, <3>3 DEF TypeOK
      <4>. QED
        BY <2>1, <2>3, <3>1, <3>2, <3>3, <4>1 DEF Unraced, Closed
    <3>4. CASE drain[d].cur = n
      <4>1. n \in Held(d)
        BY <2>4, <3>4 DEF Held
      <4>2. \A e \in Drains : ~(drain[e].pc = "sent" /\ drain[e].cur = n)
        BY <2>3, <2>4, <3>1, <4>1 DEF Unraced, Held
      <4>3. deliveries[n] = 0
        BY <2>3, <4>1, <4>2 DEF Unraced, TypeOK
      <4>4. deliveries'[n] = 1
        BY <3>2, <3>4, <4>3 DEF TypeOK
      <4>. QED
        BY <2>1, <2>3, <3>1, <3>2, <3>4, <4>4 DEF Unraced, Closed
    <3>. QED
      BY <3>3, <3>4
  <2>12. ASSUME Cancel(d) \/ CloseSent(d) PROVE Unraced(n)'
    <3>1. drain[d].pc \in {"asking", "sent"} /\ drain'[d].pc = "working"
          /\ Held(d)' = Held(d) \ {drain[d].cur} /\ drain[d].cur \in Held(d)
      BY <2>4, <2>12, CloseEffect DEF Cancel, CloseSent, PutAside, Held
    <3>2. /\ UNCHANGED deliveries
          /\ \/ sent' = sent \cup {drain[d].cur} /\ UNCHANGED cancelled
             \/ cancelled' = cancelled \cup {drain[d].cur} /\ UNCHANGED sent
      BY <2>12 DEF Cancel, CloseSent
    <3>3. CASE drain[d].cur # n
      <4>1. Closed(n)' <=> Closed(n)
        BY <3>2, <3>3 DEF Closed
      <4>2. deliveries[n] > 0 =>
              Closed(n)' \/ \E e \in Drains : drain'[e].pc = "sent" /\ drain'[e].cur = n
        BY <2>1, <2>3, <3>3, <4>1 DEF Unraced
      <4>. QED
        BY <2>1, <2>3, <3>1, <3>2, <3>3, <4>1, <4>2 DEF Unraced
    <3>4. CASE drain[d].cur = n
      <4>1. \A e \in Drains : n \notin Held(e)'
        BY <2>1, <2>3, <3>1, <3>4 DEF Unraced
      <4>2. Closed(n)' /\ n \notin sent' \cap cancelled'
        BY <2>3, <3>1, <3>2, <3>4 DEF Unraced, Closed
      <4>. QED
        BY <2>3, <3>2, <4>1, <4>2 DEF Unraced
    <3>. QED
      BY <3>3, <3>4
  <2>. QED
    BY <1>2, <2>5, <2>6, <2>7, <2>8, <2>9, <2>10, <2>11, <2>12 DEF DrainStep
<1>. QED
  BY <1>1, <1>2, RunOrNot DEF RacesMarked

LEMMA StepClosedForCause ==
  TypeOK /\ ClosedForCause /\ [Next]_vars
    => (\A d \in Drains : drain[d].pc = "sent" => deliveries[drain[d].cur] > 0)'
<1> SUFFICES ASSUME TypeOK, ClosedForCause, [Next]_vars, NEW e \in Drains, drain'[e].pc = "sent"
             PROVE  deliveries'[drain'[e].cur] > 0
  OBVIOUS
<1>1. CASE UNCHANGED <<drain, deliveries, raced, sent, cancelled>>
  BY <1>1 DEF ClosedForCause
<1>2. ASSUME NEW d \in Drains, DrainStep(d) \/ DrainDies(d) PROVE deliveries'[drain'[e].cur] > 0
  <2>1. \A f \in Drains : drain[f].pc = "sent" => drain[f].cur \in Scans
    BY DEF TypeOK, DrainStates
  <2>2. deliveries \in [Scans -> Nat]
    BY DEF TypeOK
  <2>3. CASE Send(d)
    <3>1. drain[d].pc = "asking" /\ drain'[d].cur = drain[d].cur /\ drain[d].cur \in Scans
          /\ deliveries' = [deliveries EXCEPT ![drain[d].cur] = @ + 1]
      BY <2>3, SendEffect DEF Send, SameHolding, TypeOK, DrainStates
    <3>2. \A n \in Scans : deliveries'[n] >= deliveries[n]
      BY <2>2, <3>1
    <3>3. CASE e = d
      BY <2>2, <3>1, <3>3
    <3>4. CASE e # d
      <4>1. drain'[e] = drain[e] /\ drain[e].cur \in Scans /\ deliveries[drain[e].cur] > 0
        BY <1>2, <2>1, <3>4, OtherRuns DEF ClosedForCause
      <4>2. deliveries'[drain[e].cur] \in Nat
        BY StepTypeOK, <4>1 DEF TypeOK
      <4>. QED
        BY <2>2, <3>2, <4>1, <4>2
    <3>. QED
      BY <3>3, <3>4
  <2>4. CASE ~Send(d)
    <3>1. UNCHANGED deliveries
      BY <1>2, <2>4 DEF DrainStep, DrainBegin, DrainRead, DrainTake, Recheck, Cancel, CloseSent,
                        DrainEnd, DrainDies
    <3>2. drain'[d].pc # "sent"
      BY <1>2, <2>4, BeginEffect, ReadEffect, TakeEffect, RecheckEffect, CloseEffect, EndEffect
      DEF DrainStep, PutAside, Emptied
    <3>. QED
      BY <1>2, <3>1, <3>2, OtherRuns DEF ClosedForCause
  <2>. QED
    BY <2>3, <2>4
<1>. QED
  BY <1>1, <1>2, RunOrNot

LEMMA InitIInv == Init => IInv
<1> SUFFICES ASSUME Init PROVE IInv
  OBVIOUS
<1>1. TypeOK
  BY InitTypeOK
<1>2. \A d \in Drains : drain[d] = IdleDrain /\ Held(d) = {}
  BY DEF Init, IdleDrain, Held
<1>3. RowsFixed /\ RunsHoldRows /\ ClosedForCause /\ CancelledWereSeen
  BY <1>2 DEF Init, RowsFixed, RunsHoldRows, ClosedForCause, CancelledWereSeen, IdleDrain
<1>4. RunsAreDue /\ RunsAsk /\ RacesMarked /\ NamedItemsWereUnseen
  BY <1>2 DEF Init, RunsAreDue, RunsAsk, InHand, RacesMarked, Unraced, NamedItemsWereUnseen,
              IdleDrain
<1>. QED
  BY <1>1, <1>3, <1>4 DEF IInv

LEMMA StepIInv == IInv /\ [Next]_vars => IInv'
<1> SUFFICES ASSUME IInv, [Next]_vars PROVE IInv'
  OBVIOUS
<1>1. TypeOK' /\ RowsFixed'
  BY StepTypeOK, OnlyGrows DEF IInv
<1>2. RunsHoldRows' /\ RunsAreDue' /\ RunsAsk' /\ RacesMarked'
  BY StepRunsHoldRows, StepRunsAreDue, StepRunsAsk, StepRacesMarked DEF IInv
<1>3. ClosedForCause' /\ CancelledWereSeen'
  BY StepCancelledWereSeen, StepClosedForCause DEF IInv, ClosedForCause
<1>4. NamedItemsWereUnseen'
  BY StepNamedItemsWereUnseen DEF IInv
<1>. QED
  BY <1>1, <1>2, <1>3, <1>4 DEF IInv

(* The conjunction above holds in every reachable state.                       *)
THEOREM Inductive == Spec => []IInv
  BY InitIInv, StepIInv, PTL DEF Spec

-------------------------------------------------------------------------------
(* The properties. *)

(* No reminder is cancelled unless every item it is about was seen after the   *)
(* scan that found it missing.                                                 *)
THEOREM CancelledOnEvidence == Spec => []CancelledWereSeen
<1>1. IInv => CancelledWereSeen
  BY DEF IInv
<1>. QED
  BY <1>1, Inductive, PTL

(* A second delivery, or a row stamped both ways, takes two runs that held the *)
(* row at once or a run that died between the post and the close.              *)
THEOREM OnceUnlessRaced == Spec => []DuplicateNeedsRace
<1>1. IInv => DuplicateNeedsRace
  <2> SUFFICES ASSUME IInv, NEW n \in Scans, n \notin raced
               PROVE  ~(deliveries[n] > 1 \/ n \in sent \cap cancelled)
    BY DEF DuplicateNeedsRace
  <2>1. Unraced(n) /\ deliveries[n] \in Nat
    BY DEF IInv, RacesMarked, TypeOK
  <2>. QED
    BY <2>1 DEF Unraced
<1>. QED
  BY <1>1, Inductive, PTL

(* A reminder never names an item that had a newer sighting when the run       *)
(* turned to it.                                                               *)
THEOREM NeverNamesTheSeen == Spec => []NamedItemsWereUnseen
<1>1. IInv => NamedItemsWereUnseen
  BY DEF IInv
<1>. QED
  BY <1>1, Inductive, PTL

(* No reminder is posted before its delay has passed.                          *)
THEOREM NotBeforeItsDelay == Spec => []NeverEarly
<1>1. IInv => NeverEarly
  BY DEF IInv, RunsAreDue, NeverEarly
<1>. QED
  BY <1>1, Inductive, PTL

(* A closed row that no run holds is never picked up or posted again.          *)
THEOREM RetiredForGood == Spec => RetiredStaysQuiet
<1>1. IInv /\ [Next]_vars => [QuietStep]_vars
  <2> SUFFICES ASSUME IInv, [Next]_vars, NEW n \in Scans, Retired(n)
               PROVE  Retired(n)' /\ deliveries'[n] = deliveries[n]
    BY DEF QuietStep
  <2>0. TypeOK /\ Closed(n)' /\ n # NoNudge /\ \A e \in Drains : n \notin Held(e)
    BY OnlyGrows, NoNudgeAssumption DEF IInv, Retired, Closed
  <2>1. CASE UNCHANGED <<drain, deliveries, raced, sent, cancelled>>
    BY <2>0, <2>1 DEF Retired, Held
  <2>2. ASSUME NEW d \in Drains, DrainStep(d) \/ DrainDies(d)
        PROVE  Retired(n)' /\ deliveries'[n] = deliveries[n]
    <3>1. n \notin drain[d].todo /\ n # drain[d].cur
      BY <2>0 DEF Held
    <3>2. n \notin Held(d)'
      <4>1. CASE DrainRead(d)
        <5>1. n \notin Due(d)
          BY DEF Due, Retired
        <5>. QED
          BY <2>0, <3>1, <4>1, <5>1, ReadEffect DEF Held
      <4>2. ASSUME NEW m \in Scans, DrainTake(d, m) PROVE n \notin Held(d)'
        <5>1. m \in drain[d].todo
          BY <4>2 DEF DrainTake
        <5>. QED
          BY <2>0, <3>1, <4>2, <5>1, TakeEffect DEF Held
      <4>3. ASSUME NEW i \in Items, Recheck(d, i) PROVE n \notin Held(d)'
        BY <2>0, <3>1, <4>3, RecheckEffect DEF Held, SameHolding
      <4>4. CASE DrainBegin(d) \/ Send(d)
        BY <2>0, <3>1, <4>4, BeginEffect, SendEffect DEF Held, SameHolding
      <4>5. CASE Cancel(d) \/ CloseSent(d)
        BY <2>0, <3>1, <4>5, CloseEffect DEF Held, PutAside
      <4>6. CASE DrainEnd(d) \/ DrainDies(d)
        BY <2>0, <4>6, EndEffect DEF Held, Emptied
      <4>. QED
        BY <2>2, <4>1, <4>2, <4>3, <4>4, <4>5, <4>6 DEF DrainStep
    <3>3. deliveries'[n] = deliveries[n]
      <4>1. CASE Send(d)
        BY <2>0, <3>1, <4>1 DEF Send, TypeOK
      <4>2. CASE ~Send(d)
        BY <2>2, <4>2 DEF DrainStep, DrainBegin, DrainRead, DrainTake, Recheck, Cancel,
                          CloseSent, DrainEnd, DrainDies
      <4>. QED
        BY <4>1, <4>2
    <3>4. \A e \in Drains \ {d} : n \notin Held(e)'
      BY <2>0, <2>2, OtherRuns DEF Held
    <3>. QED
      BY <2>0, <3>2, <3>3, <3>4 DEF Retired
  <2>. QED
    BY <2>1, <2>2, RunOrNot
<1>. QED
  BY <1>1, Inductive, PTL DEF Spec, RetiredStaysQuiet

-------------------------------------------------------------------------------
(* The reminder service is kept: every step is a step of Reminder or a stutter. *)

LEMMA InitPromise == Init => Promise!Init
BY DEF Init, Promise!Init, Vouched, Posted

LEMMA StepPromise == IInv /\ [Next]_vars => [Promise!Next]_Promise!vars
<1> SUFFICES ASSUME IInv, [Next]_vars PROVE [Promise!Next]_Promise!vars
  OBVIOUS
<1>0. TypeOK /\ RowsFixed /\ Vouched \subseteq queued /\ queued \subseteq Scans
  BY DEF IInv, Vouched, TypeOK
<1>1. Vouched \subseteq Vouched'
  <2>1. \A n \in queued : scan[n].missing \subseteq Items
    BY DEF IInv, TypeOK, ScanStates
  <2>. QED
    BY <1>0, <2>1, RowsKeep DEF Vouched
<1>2. ASSUME UNCHANGED <<queued, sent, cancelled, deliveries>>
      PROVE  [Promise!Next]_Promise!vars
  <2>1. Posted' = Posted /\ Vouched' \subseteq queued
    BY <1>2 DEF Posted, Vouched
  <2>2. Vouched' = Vouched \cup Vouched' /\ Vouched' \in SUBSET queued
    BY <1>1, <2>1
  <2>. QED
    BY <1>2, <2>1, <2>2 DEF Promise!Next, Promise!Vouch
<1>3. ASSUME NEW s \in Scans, EnqueueNudge(s) PROVE [Promise!Next]_Promise!vars
  <2>1. s \notin queued /\ queued' = queued \cup {s}
    BY <1>0, <1>3 DEF EnqueueNudge, RowsFixed
  <2>2. UNCHANGED <<seen, sent, cancelled, deliveries>> /\ Posted' = Posted
    BY <1>3 DEF EnqueueNudge, Posted
  <2>3. \A n \in queued : scan'[n] = scan[n]
    BY <1>0, OnlyGrows
  <2>4. Vouched' \subseteq Vouched \cup {s}
    BY <2>1, <2>2, <2>3 DEF Vouched, SeenSince
  <2>5. Vouched' \in {Vouched, Vouched \cup {s}}
    BY <1>1, <2>4
  <2>6. Promise!Raise(s)
    BY <2>1, <2>2, <2>5 DEF Promise!Raise
  <2>. QED
    BY <2>6 DEF Promise!Next
<1>4. ASSUME NEW d \in Drains, DrainStep(d) \/ DrainDies(d) PROVE [Promise!Next]_Promise!vars
  <2>1. UNCHANGED <<seen, scan, queued>> /\ Vouched' = Vouched
    BY <1>4, OtherRuns, <1>0 DEF Vouched, SeenSince
  <2>2. drain[d].pc \in {"asking", "sent"} => drain[d].cur \in queued /\ drain[d].cur \in Scans
    BY <1>0 DEF IInv, RunsHoldRows, Held, TypeOK
  <2>3. CASE Send(d)
    <3>1. drain[d].cur \in queued /\ drain[d].cur \in Scans
      BY <2>2, <2>3 DEF Send
    <3>2. Posted' = Posted \cup {drain[d].cur}
      BY <1>0, <2>3, <3>1 DEF Send, Posted, TypeOK
    <3>3. Promise!Post(drain[d].cur)
      BY <2>1, <2>3, <3>1, <3>2 DEF Send, Promise!Post
    <3>. QED
      BY <3>1, <3>3 DEF Promise!Next
  <2>4. CASE CloseSent(d)
    <3>1. drain[d].cur \in Posted
      BY <2>2, <2>4 DEF CloseSent, Posted, IInv, ClosedForCause
    <3>2. drain[d].cur \in Scans /\ Posted' = Posted
      BY <2>2, <2>4 DEF CloseSent, Posted
    <3>3. Promise!SettleSent(drain[d].cur)
      BY <2>1, <2>4, <3>1, <3>2 DEF CloseSent, Promise!SettleSent
    <3>. QED
      BY <3>2, <3>3 DEF Promise!Next
  <2>5. CASE Cancel(d)
    <3>1. InHand(d) /\ drain[d].unasked = {} /\ drain[d].still = {} /\ drain[d].cur \in queued
      BY <2>2, <2>5 DEF Cancel, InHand
    <3>2. \A i \in scan[drain[d].cur].missing : SeenSince(drain[d].cur, i)
      BY <3>1 DEF IInv, RunsAsk
    <3>3. drain[d].cur \in Vouched /\ drain[d].cur \in Scans /\ Posted' = Posted
      BY <1>0, <2>5, <3>1, <3>2 DEF Vouched, Cancel, Posted
    <3>4. Promise!SettleCancelled(drain[d].cur)
      BY <2>1, <2>5, <3>3 DEF Cancel, Promise!SettleCancelled
    <3>. QED
      BY <3>3, <3>4 DEF Promise!Next
  <2>6. CASE ~Send(d) /\ ~CloseSent(d) /\ ~Cancel(d)
    <3>1. UNCHANGED <<queued, sent, cancelled, deliveries>>
      BY <1>4, <2>6 DEF DrainStep, DrainBegin, DrainRead, DrainTake, Recheck, DrainEnd, DrainDies
    <3>. QED
      BY <1>2, <3>1
  <2>. QED
    BY <2>3, <2>4, <2>5, <2>6
<1>5. \/ \E d \in Drains : DrainStep(d) \/ DrainDies(d)
      \/ \E s \in Scans : EnqueueNudge(s)
      \/ UNCHANGED <<queued, sent, cancelled, deliveries>>
  BY DEF Next, vars, Tick, Sight, ScanStep, BeginScan, LookBlind, Look, AskLog, LogFound,
         RecordScan, AllPresent, ScanDies, AdvanceScan
<1>. QED
  BY <1>2, <1>3, <1>4, <1>5

(* Rows, overlapping runs and dying requests keep the promise of Reminder for  *)
(* every number of items, scans, runs and crashes.                             *)
THEOREM KeepsThePromise == Spec => ImplementsReminder
  BY InitPromise, StepPromise, Inductive, PTL
  DEF Spec, ImplementsReminder, Promise!SafeSpec
===============================================================================
