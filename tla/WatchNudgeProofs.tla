---------------------------- MODULE WatchNudgeProofs ---------------------------
(***************************************************************************)
(* The watch loop and the reminders on one log, for every number of items,  *)
(* requests, scans and drain runs and every choice of the delays.           *)
(*                                                                         *)
(* Each half keeps the invariant that was proved of it alone, although the  *)
(* other writes to the log: both are indifferent to a log that grows.  What *)
(* is new is between them: what a finished request saw and what a run finds *)
(* differ by less than RelogAfter.                                          *)
(***************************************************************************)
EXTENDS WatchNudge, LeaveNudgeProofs

WP == INSTANCE WatchProofs WITH sighted <- LogDates

\* What finished requests saw, and what was so when a run turned to its row, is in the
\* log with a date less than RelogAfter before.
FinishedOnRecord ==
    /\ \A i \in Items : finished[i] - seen[i].at < RelogAfter
    /\ \A d \in Drains : \A i \in Items : shown[d][i] - seen[i].at < RelogAfter

BothInv ==
    /\ IInv /\ WP!IInv
    /\ finished \in WP!Dates /\ shown \in [Drains -> WP!Dates]
    /\ FinishedOnRecord /\ LateSightingsCount

-------------------------------------------------------------------------------
(* Two instances of one module. *)

LEMMA WatchBegins == W!Init => WP!Init
BY DEF W!Init, WP!Init, W!IdleRequest, WP!IdleRequest, W!Nothing, WP!Nothing, W!Blank, WP!Blank,
       W!Never, WP!Never

LEMMA WatchSteps ==
  ASSUME NEW r \in Requests
  PROVE  /\ \A shows \in SUBSET Items : W!Post(r, "sent", shows) => WP!Next
         /\ W!Arrive(r) \/ W!SeeNothing(r) => WP!Next
         /\ \A sees \in SUBSET req[r].shows : W!Look(r, sees) => WP!Next
         /\ W!RequestDies(r) \/ W!MemoryLost \/ W!Tick => WP!Next
         /\ W!Log(r) => WP!Log(r) /\ WP!Next
         /\ W!Save(r) => WP!Save(r) /\ WP!Next
<1>1. \A shows \in SUBSET Items : W!Post(r, "sent", shows) => WP!Next
  BY DEF W!Post, W!IdleRequest, W!Nothing, W!Blank, W!Never, W!log, W!history,
         WP!Post, WP!IdleRequest, WP!Nothing, WP!Blank, WP!Never, WP!log, WP!history, WP!Next
<1>2. W!Arrive(r) \/ W!SeeNothing(r) => WP!Next
  BY DEF W!Arrive, W!SeeNothing, W!InService, W!IdleRequest, W!Nothing, W!Blank, W!Never,
         W!log, W!history, WP!Arrive, WP!SeeNothing, WP!InService, WP!IdleRequest, WP!Nothing,
         WP!Blank, WP!Never, WP!log, WP!history, WP!Next, WP!Server, WP!Serve
<1>3. \A sees \in SUBSET req[r].shows : W!Look(r, sees) => WP!Next
  BY DEF W!Look, W!log, WP!Look, WP!log, WP!Next, WP!Server, WP!Serve
<1>4. W!RequestDies(r) \/ W!MemoryLost \/ W!Tick => WP!Next
  BY DEF W!RequestDies, W!MemoryLost, W!Tick, W!IdleRequest, W!Nothing, W!Blank, W!Never,
         W!log, W!history, WP!RequestDies, WP!MemoryLost, WP!Tick, WP!IdleRequest, WP!Nothing,
         WP!Blank, WP!Never, WP!log, WP!history, WP!Next, WP!Server
<1>5. W!Log(r) => WP!Log(r) /\ WP!Next
  BY DEF W!Log, W!ToLog, W!LeftView, W!Later, W!Since, W!Never,
         WP!Log, WP!ToLog, WP!LeftView, WP!Later, WP!Since, WP!Never, WP!Next, WP!Server, WP!Serve
<1>6. W!Save(r) => WP!Save(r) /\ WP!Next
  BY DEF W!Save, W!Remembered, W!LoggedAt, W!ToLog, W!LeftView, W!Since, W!IdleRequest,
         W!Nothing, W!Blank, W!Never, W!log, W!history, WP!Save, WP!Remembered, WP!LoggedAt,
         WP!ToLog, WP!LeftView, WP!Since, WP!IdleRequest, WP!Nothing, WP!Blank, WP!Never,
         WP!log, WP!history, WP!Next, WP!Server, WP!Serve
<1>. QED
  BY <1>1, <1>2, <1>3, <1>4, <1>5, <1>6

-------------------------------------------------------------------------------
(* Each half is indifferent to a log that the other makes newer. *)

LEMMA LogTyped ==
  ASSUME TypeOK
  PROVE  /\ LogDates \in WP!Dates
         /\ \A i \in Items : LogDates[i] = seen[i].at /\ seen[i].at \in Int
BY NumbersAssumption DEF TypeOK, Sightings, Moments, LogDates, WP!Dates, WP!Moments, WP!Never

\* The log has grown newer, if it has changed.
LogGrew == /\ seen' \in [Items -> Sightings]
           /\ \A i \in Items : seen'[i].at >= seen[i].at

LEMMA NudgeStands ==
  ASSUME IInv, UNCHANGED <<clock, nudgeOnly>>, LogGrew
  PROVE  IInv'
<1>1. /\ UNCHANGED <<clock, scan, queued, sent, cancelled, drain, deliveries, raced, crashes>>
      /\ TypeOK
  BY DEF nudgeOnly, IInv
<1>2. TypeOK'
  BY <1>1 DEF TypeOK, LogGrew
<1>3. \A n \in Scans : \A i \in Items : SeenSince(n, i) => SeenSince(n, i)'
  <2> SUFFICES ASSUME NEW n \in Scans, NEW i \in Items, SeenSince(n, i)
               PROVE  SeenSince(n, i)'
    OBVIOUS
  <2>1. /\ seen[i].at \in Int /\ seen'[i].at \in Int /\ seen'[i].at >= seen[i].at
        /\ scan[n].at \in Int /\ scan'[n] = scan[n]
    BY <1>1, NumbersAssumption DEF LogGrew, TypeOK, Sightings, ScanStates, Moments
  <2>. QED
    BY <2>1 DEF SeenSince
<1>4. RowsFixed' /\ RunsHoldRows' /\ RunsAreDue'
  BY <1>1 DEF IInv, RowsFixed, RunsHoldRows, RunsAreDue, Held, DueAt
<1>5. RacesMarked' /\ ClosedForCause' /\ NamedItemsWereUnseen'
  BY <1>1 DEF IInv, RacesMarked, Unraced, Held, Closed, ClosedForCause, NamedItemsWereUnseen
<1>6. RunsAsk'
  <2> SUFFICES ASSUME NEW d \in Drains
               PROVE  /\ InHand(d) => \A i \in scan[drain[d].cur].missing :
                                        \/ i \in drain[d].unasked \cup drain[d].still
                                        \/ SeenSince(drain[d].cur, i)'
                      /\ InHand(d) => \A i \in drain[d].known : SeenSince(drain[d].cur, i)'
                      /\ ~InHand(d) => drain[d].known = {} /\ drain[d].still = {}
    BY <1>1 DEF RunsAsk, InHand
  <2>1. InHand(d) => /\ drain[d].cur \in Scans /\ drain[d].known \subseteq Items
                     /\ scan[drain[d].cur].missing \subseteq Items
    <3>1. InHand(d) => drain[d].cur \in Scans
      BY <1>1 DEF TypeOK, InHand, DrainStates
    <3>. QED
      BY <1>1, <3>1 DEF TypeOK, DrainStates, ScanStates
  <2>2. /\ InHand(d) => \A i \in scan[drain[d].cur].missing :
                          i \in drain[d].unasked \cup drain[d].still \/ SeenSince(drain[d].cur, i)
        /\ InHand(d) => \A i \in drain[d].known : SeenSince(drain[d].cur, i)
        /\ ~InHand(d) => drain[d].known = {} /\ drain[d].still = {}
    BY DEF IInv, RunsAsk
  <2>3. drain'[d].cur = drain[d].cur
    BY <1>1
  <2> DEFINE n == drain[d].cur
  <2>4. InHand(d) => \A i \in Items : SeenSince(n, i) => seen'[i].at > scan[n].at
    BY <1>1, <1>3, <2>1 DEF SeenSince
  <2>. QED
    BY <1>1, <2>1, <2>2, <2>3, <2>4 DEF SeenSince
<1>7. CancelledWereSeen'
  <2> SUFFICES ASSUME NEW n \in cancelled, NEW i \in scan[n].missing
               PROVE  seen'[i].at > scan[n].at
    BY <1>1 DEF CancelledWereSeen
  <2>1. n \in Scans /\ i \in Items
    BY <1>1 DEF TypeOK, ScanStates
  <2>2. SeenSince(n, i)
    BY DEF IInv, CancelledWereSeen, SeenSince
  <2>. QED
    BY <1>1, <1>3, <2>1, <2>2 DEF SeenSince
<1>. QED
  BY <1>2, <1>4, <1>5, <1>6, <1>7 DEF IInv

LEMMA WatchStands ==
  ASSUME WP!IInv, UNCHANGED <<clock, watchOnly>>, TypeOK, TypeOK', LogGrew
  PROVE  WP!IInv'
<1>1. /\ WP!TypeOK
      /\ UNCHANGED <<clock, req, memory, frame, departed, spotted, relogged, hasty, upset, mishaps>>
      /\ LogDates \in WP!Dates /\ LogDates' \in WP!Dates
      /\ \A i \in Items : /\ LogDates[i] \in Int /\ LogDates'[i] \in Int
                          /\ LogDates'[i] >= LogDates[i]
  <2>1. LogDates' \in WP!Dates /\ \A i \in Items : LogDates'[i] = seen'[i].at /\ seen'[i].at \in Int
    BY NumbersAssumption DEF TypeOK, Sightings, Moments, LogDates, WP!Dates, WP!Moments, WP!Never
  <2>. QED
    BY <2>1, LogTyped DEF watchOnly, LogGrew, WP!IInv
<1>2. WP!TypeOK'
  BY <1>1 DEF WP!TypeOK
<1>3. ASSUME NEW m \in WP!Memories, WP!Backed(m)
      PROVE  WP!BackedNext(m)
  BY <1>1, <1>2, <1>3, WP!BackedStays, WatchNumbersAssumption, NumbersAssumption
<1>4. WP!Backed(memory)'
  BY <1>1, <1>3 DEF WP!IInv, WP!TypeOK, WP!Backed, WP!BackedNext
<1>5. ASSUME NEW r \in Requests, req'[r].pc \in {"loaded", "logged"}
      PROVE  WP!Backed(req[r].was)'
  <2>1. WP!Backed(req[r].was) /\ req[r].was \in WP!Memories
    BY <1>1, <1>5 DEF WP!IInv, WP!TypeOK
  <2>. QED
    BY <1>1, <1>3, <2>1 DEF WP!Backed, WP!BackedNext
<1>6. ASSUME NEW r \in Requests, req'[r].pc = "logged"
      PROVE  WP!OnRecord(r)'
  <2>1. WP!OnRecord(r) /\ req[r].now \in Int /\ req[r].sees \subseteq Items
    BY <1>1, <1>6, NumbersAssumption DEF WP!IInv, WP!TypeOK, WP!Moments
  <2>2. WP!ToLog(r)' = WP!ToLog(r) /\ WP!ToLog(r) \subseteq Items
    BY <1>1, <2>1 DEF WP!ToLog, WP!Since, WP!Never
  <2>. QED
    BY <1>1, <2>1, <2>2 DEF WP!OnRecord
<1>. QED
  BY <1>2, <1>4, <1>5, <1>6 DEF WP!IInv


-------------------------------------------------------------------------------
(* What a step of the composition is to each half. *)

\* Steps of which the watch requests know nothing but that the log may have grown.
NudgeStep ==
    \/ \E s \in Scans : ScanWorks(s)
    \/ \E d \in Drains : DrainWorks(d) \/ \E n \in Scans : DrainTurns(d, n)
WatchStep ==
    \/ TimePasses
    \/ \E r \in Requests : WatchSaves(r) \/ \E worn \in BOOLEAN : WatchLogs(r, worn)
    \/ WatchWorks

LEMMA StepOfOneHalf == BothNext => NudgeStep \/ WatchStep
BY DEF BothNext, NudgeStep, WatchStep

LEMMA NudgeStepIsStep ==
  ASSUME NudgeStep
  PROVE  Next /\ UNCHANGED <<clock, watchOnly, finished>>
<1>1. ASSUME NEW s \in Scans, ScanWorks(s)
      PROVE  Next /\ UNCHANGED <<clock, watchOnly, finished>>
  <2>1. UNCHANGED clock
    BY <1>1 DEF ScanWorks, ScanStep, BeginScan, LookBlind, Look, AskLog, LogFound, RecordScan,
                AllPresent, EnqueueNudge, ScanDies, AdvanceScan
  <2>. QED
    BY <1>1, <2>1 DEF ScanWorks, Next
<1>2. ASSUME NEW d \in Drains, DrainWorks(d) \/ \E n \in Scans : DrainTurns(d, n)
      PROVE  Next /\ UNCHANGED <<clock, watchOnly, finished>>
  <2>1. DrainStep(d) \/ DrainDies(d)
    BY <1>2 DEF DrainWorks, DrainTurns, DrainStep
  <2>2. UNCHANGED clock
    BY <2>1 DEF DrainStep, DrainBegin, DrainRead, DrainTake, Recheck, Cancel, Send,
                CloseSent, DrainEnd, DrainDies
  <2>. QED
    BY <1>2, <2>1, <2>2 DEF DrainWorks, DrainTurns, Next
<1>. QED
  BY <1>1, <1>2 DEF NudgeStep

LEMMA WatchStepIsStep ==
  ASSUME WatchStep
  PROVE  WP!Next /\ shown' = shown
<1>1. CASE TimePasses
  <2>1. W!Tick /\ shown' = shown
    BY <1>1 DEF TimePasses
  <2>2. W!Tick => WP!Next
    BY DEF W!Tick, W!log, W!history, WP!Tick, WP!log, WP!history, WP!Next, WP!Server
  <2>. QED
    BY <2>1, <2>2
<1>2. ASSUME NEW r \in Requests, WatchSaves(r) \/ \E worn \in BOOLEAN : WatchLogs(r, worn)
      PROVE  WP!Next /\ shown' = shown
  BY <1>2, WatchSteps DEF WatchSaves, WatchLogs
<1>3. CASE WatchWorks
  <2>1. W!MemoryLost => WP!Next
    BY DEF W!MemoryLost, W!Nothing, W!Blank, W!Never, W!log, WP!MemoryLost, WP!Nothing,
           WP!Blank, WP!Never, WP!log, WP!Next, WP!Server
  <2>. QED
    BY <1>3, <2>1, WatchSteps DEF WatchWorks
<1>. QED
  BY <1>1, <1>2, <1>3 DEF WatchStep

LEMMA WatchStepGrows ==
  ASSUME TypeOK, WP!TypeOK, WatchStep
  PROVE  LogGrew /\ (Tick \/ UNCHANGED <<clock, nudgeOnly>>)
<1>1. seen \in [Items -> Sightings] /\ \A i \in Items : seen[i].at \in Int
  BY NumbersAssumption DEF TypeOK, Sightings, Moments
<1>2. CASE TimePasses
  BY <1>1, <1>2 DEF TimePasses, Tick, LogGrew
<1>3. ASSUME NEW r \in Requests, WatchSaves(r) PROVE LogGrew /\ UNCHANGED <<clock, nudgeOnly>>
  BY <1>1, <1>3 DEF WatchSaves, W!Save, LogGrew
<1>4. ASSUME NEW r \in Requests, NEW worn \in BOOLEAN, WatchLogs(r, worn)
      PROVE  LogGrew /\ UNCHANGED <<clock, nudgeOnly>>
  <2>1. req[r].now \in Moments /\ req[r].now \in Int
    BY NumbersAssumption DEF WP!TypeOK, WP!Moments, Moments
  <2>2. [at |-> req[r].now, worn |-> worn] \in Sightings
    BY <2>1 DEF Sightings
  <2>3. seen' = [i \in Items |-> IF i \in W!ToLog(r) /\ req[r].now >= seen[i].at
                                 THEN [at |-> req[r].now, worn |-> worn] ELSE seen[i]]
    BY <1>4 DEF WatchLogs
  <2>4. UNCHANGED <<clock, nudgeOnly>>
    BY <1>4 DEF WatchLogs, W!Log
  <2>. QED
    BY <1>1, <2>1, <2>2, <2>3, <2>4 DEF LogGrew
<1>5. CASE WatchWorks
  <2>1. UNCHANGED <<seen, nudgeOnly>>
    BY <1>5 DEF WatchWorks
  <2>2. UNCHANGED clock
    BY <1>5 DEF WatchWorks, W!Post, W!Arrive, W!SeeNothing, W!Look, W!RequestDies, W!MemoryLost
  <2>. QED
    BY <1>1, <2>1, <2>2 DEF LogGrew
<1>. QED
  BY <1>2, <1>3, <1>4, <1>5 DEF WatchStep, TimePasses

\* Both invariants are kept, and the log only grows.
LEMMA HalvesStand ==
  ASSUME IInv, WP!IInv, [BothNext]_bothVars
  PROVE  IInv' /\ WP!IInv' /\ \A i \in Items : seen'[i].at >= seen[i].at
<1>0. TypeOK /\ WP!TypeOK /\ RowsFixed
  BY DEF IInv, WP!IInv
<1>1. CASE NudgeStep
  <2>1. Next /\ UNCHANGED <<clock, watchOnly>>
    BY <1>1, NudgeStepIsStep
  <2>2. IInv' /\ \A i \in Items : seen'[i].at >= seen[i].at
    BY <1>0, <2>1, StepIInv, OnlyGrows
  <2>3. TypeOK' /\ LogGrew
    BY <2>2 DEF IInv, TypeOK, LogGrew
  <2>. QED
    BY <1>0, <2>1, <2>2, <2>3, WatchStands
<1>2. CASE WatchStep
  <2>1. LogGrew /\ (Tick \/ UNCHANGED <<clock, nudgeOnly>>)
    BY <1>0, <1>2, WatchStepGrows
  <2>2. IInv'
    BY <2>1, StepIInv, NudgeStands DEF Next
  <2>3. WP!IInv'
    BY <1>2, WatchStepIsStep, WP!StepIInv, WatchNumbersAssumption, NumbersAssumption
  <2>. QED
    BY <2>1, <2>2, <2>3 DEF LogGrew
<1>3. CASE UNCHANGED bothVars
  <2>1. UNCHANGED <<clock, nudgeOnly, watchOnly>> /\ LogGrew
    <3>1. UNCHANGED <<vars, watchOnly>>
      BY <1>3 DEF bothVars
    <3>2. \A i \in Items : seen[i].at \in Int
      BY <1>0, NumbersAssumption DEF TypeOK, Sightings, Moments
    <3>. QED
      BY <1>0, <3>1, <3>2 DEF vars, nudgeOnly, LogGrew, TypeOK
  <2>2. IInv'
    BY <2>1, NudgeStands
  <2>3. TypeOK'
    BY <2>2 DEF IInv
  <2>. QED
    BY <1>0, <2>1, <2>2, <2>3, WatchStands DEF LogGrew
<1>. QED
  BY <1>1, <1>2, <1>3, StepOfOneHalf


-------------------------------------------------------------------------------
(* What the two halves owe each other. *)

\* The history of the watch requests changes when one is done, and then by what it saw.
LEMMA FinishedStands ==
  ASSUME BothInv, [BothNext]_bothVars
  PROVE  /\ finished' \in WP!Dates /\ shown' \in [Drains -> WP!Dates]
         /\ FinishedOnRecord'
<1> DEFINE Dated == WP!Moments \cup {WP!Never}
<1>0. /\ IInv /\ WP!IInv /\ TypeOK /\ WP!TypeOK /\ TypeOK'
      /\ finished \in [Items -> Dated] /\ shown \in [Drains -> [Items -> Dated]]
      /\ RelogAfter \in Nat
      /\ \A k \in Dated : k \in Int
      /\ \A i \in Items : /\ seen[i].at \in Int /\ seen'[i].at \in Int
                          /\ seen'[i].at >= seen[i].at
  <2>1. IInv' /\ \A i \in Items : seen'[i].at >= seen[i].at
    BY HalvesStand DEF BothInv
  <2>2. TypeOK /\ TypeOK' /\ WP!TypeOK
    BY <2>1 DEF BothInv, IInv, WP!IInv
  <2>3. \A i \in Items : seen[i].at \in Int /\ seen'[i].at \in Int
    BY <2>2, NumbersAssumption DEF TypeOK, Sightings, Moments
  <2>4. \A k \in Dated : k \in Int
    BY NumbersAssumption DEF WP!Moments, WP!Never
  <2>. QED
    BY <2>1, <2>2, <2>3, <2>4, WatchNumbersAssumption DEF BothInv, WP!Dates
<1>1. /\ finished' \in [Items -> Dated]
      /\ \A i \in Items : finished'[i] - seen'[i].at < RelogAfter
  <2>1. CASE finished' = finished
    <3> SUFFICES ASSUME NEW i \in Items PROVE finished[i] - seen'[i].at < RelogAfter
      BY <1>0, <2>1
    <3>1. finished[i] - seen[i].at < RelogAfter /\ finished[i] \in Int
      BY <1>0 DEF BothInv, FinishedOnRecord
    <3> HIDE DEF Dated
    <3>. QED
      BY <1>0, <3>1
  <2>2. ASSUME NEW r \in Requests, WatchSaves(r)
        PROVE  /\ finished' \in [Items -> Dated]
               /\ \A i \in Items : finished'[i] - seen'[i].at < RelogAfter
    <3>1. /\ req[r].pc = "logged" /\ seen' = seen
          /\ finished' = [i \in Items |-> IF i \in req[r].sees /\ req[r].now > finished[i]
                                          THEN req[r].now ELSE finished[i]]
      BY <2>2 DEF WatchSaves, W!Save
    <3>2. req[r].now \in Dated
      BY <1>0 DEF WP!TypeOK
    <3>3. \A i \in req[r].sees : i \in Items => req[r].now - seen[i].at < RelogAfter
      <4>1. WP!SeenIsOnRecord
        BY <1>0, WP!OnRecordIsSeen, WatchNumbersAssumption, NumbersAssumption
      <4>. QED
        BY <1>0, <3>1, <4>1, LogTyped DEF WP!SeenIsOnRecord, WP!Since
    <3> HIDE DEF Dated
    <3>4. \A i \in Items : finished[i] - seen[i].at < RelogAfter
      BY DEF BothInv, FinishedOnRecord
    <3>. QED
      BY <1>0, <3>1, <3>2, <3>3, <3>4
  <2>3. finished' = finished \/ \E r \in Requests : WatchSaves(r)
    <3>1. CASE NudgeStep
      BY <3>1, NudgeStepIsStep
    <3>2. CASE WatchStep
      BY <3>2 DEF WatchStep, TimePasses, WatchLogs, WatchWorks
    <3>3. CASE UNCHANGED bothVars
      BY <3>3 DEF bothVars
    <3>. QED
      BY <3>1, <3>2, <3>3, StepOfOneHalf
  <2>. QED
    BY <2>1, <2>2, <2>3
<1>2. /\ shown' \in [Drains -> [Items -> Dated]]
      /\ \A d \in Drains : \A i \in Items : shown'[d][i] - seen'[i].at < RelogAfter
  <2>1. shown' = shown \/ \E d \in Drains : shown' = [shown EXCEPT ![d] = finished]
    BY StepOfOneHalf, WatchStepIsStep
       DEF NudgeStep, ScanWorks, DrainWorks, DrainTurns, bothVars
  <2>2. \A d \in Drains : shown'[d] = shown[d] \/ shown'[d] = finished
    BY <1>0, <2>1
  <2>3. shown' \in [Drains -> [Items -> Dated]]
    BY <1>0, <2>1
  <2>4. ASSUME NEW d \in Drains, NEW i \in Items
        PROVE  shown'[d][i] - seen'[i].at < RelogAfter
    <3>1. /\ shown[d][i] - seen[i].at < RelogAfter /\ finished[i] - seen[i].at < RelogAfter
          /\ shown[d][i] \in Int /\ finished[i] \in Int
      BY <1>0 DEF BothInv, FinishedOnRecord
    <3>2. shown'[d][i] = shown[d][i] \/ shown'[d][i] = finished[i]
      BY <2>2
    <3> HIDE DEF Dated
    <3>. QED
      BY <1>0, <3>1, <3>2
  <2>. QED
    BY <2>3, <2>4
<1>. QED
  BY <1>1, <1>2 DEF FinishedOnRecord, WP!Dates

\* A run that finds an item still missing has found no sighting after the scan, and what
\* it was shown of the item is not much later than what it found.
LEMMA LateStands ==
  ASSUME BothInv, [BothNext]_bothVars
  PROVE  LateSightingsCount'
<1>0. /\ IInv /\ TypeOK /\ RowsFixed /\ IInv'
      /\ \A d \in Drains : drain[d].still # {} => drain[d].cur \in queued
      /\ shown \in [Drains -> WP!Dates]
  <2>1. IInv /\ IInv'
    BY HalvesStand DEF BothInv
  <2>2. ASSUME NEW d \in Drains, drain[d].still # {} PROVE drain[d].cur \in queued
    <3>1. InHand(d)
      BY <2>1, <2>2 DEF IInv, RunsAsk
    <3>2. drain[d].cur # NoNudge /\ Held(d) \subseteq queued
      BY <2>1, <3>1 DEF IInv, TypeOK, InHand, RunsHoldRows
    <3>. QED
      BY <3>2 DEF Held
  <2>. QED
    BY <2>1, <2>2 DEF BothInv, IInv
<1>1. \A n \in queued : scan'[n] = scan[n]
  <2>1. CASE NudgeStep
    BY <1>0, <2>1, NudgeStepIsStep, OnlyGrows
  <2>2. CASE WatchStep
    <3>1. Tick \/ UNCHANGED <<clock, nudgeOnly>>
      BY <1>0, <2>2, WatchStepGrows DEF BothInv, WP!IInv
    <3>. QED
      BY <3>1 DEF Tick, nudgeOnly
  <2>3. CASE UNCHANGED bothVars
    BY <2>3 DEF bothVars, vars
  <2>. QED
    BY <2>1, <2>2, <2>3, StepOfOneHalf
<1>2. ASSUME NEW d \in Drains, drain'[d].still \subseteq drain[d].still,
             drain'[d].cur = drain[d].cur \/ drain'[d].still = {}, shown'[d] = shown[d]
      PROVE  \A i \in drain'[d].still : shown'[d][i] - scan'[drain'[d].cur].at < RelogAfter
  BY <1>0, <1>1, <1>2 DEF BothInv, LateSightingsCount
<1>3. ASSUME NEW d \in Drains, NEW i \in Items, Recheck(d, i), shown' = shown
      PROVE  \A j \in drain'[d].still : shown'[d][j] - scan'[drain'[d].cur].at < RelogAfter
  <2>1. /\ drain'[d].cur = drain[d].cur
        /\ drain'[d].still = IF SeenSince(drain[d].cur, i) THEN drain[d].still
                             ELSE drain[d].still \cup {i}
    BY <1>0, <1>3, RecheckEffect DEF SameHolding
  <2>2. drain[d].cur \in queued /\ drain[d].cur \in Scans
    <3>1. drain[d].cur # NoNudge /\ Held(d) \subseteq queued
      BY <1>0, <1>3 DEF IInv, TypeOK, Recheck, RunsHoldRows
    <3>. QED
      BY <1>0, <3>1 DEF Held, TypeOK
  <2>3. ASSUME ~SeenSince(drain[d].cur, i)
        PROVE  shown[d][i] - scan[drain[d].cur].at < RelogAfter
    <3>1. shown[d][i] - seen[i].at < RelogAfter
      BY DEF BothInv, FinishedOnRecord
    <3>2. seen[i].at \in Int /\ scan[drain[d].cur].at \in Int /\ shown[d][i] \in Int
      <4>1. shown[d][i] \in WP!Moments \cup {WP!Never}
        BY <1>0 DEF WP!Dates
      <4>. QED
        BY <1>0, <2>2, <4>1, NumbersAssumption
           DEF TypeOK, Sightings, ScanStates, Moments, WP!Moments, WP!Never
    <3>3. ~(seen[i].at > scan[drain[d].cur].at)
      BY <2>3 DEF SeenSince
    <3>. QED
      BY <3>1, <3>2, <3>3, WatchNumbersAssumption
  <2>4. \A j \in drain[d].still : shown[d][j] - scan[drain[d].cur].at < RelogAfter
    BY DEF BothInv, LateSightingsCount
  <2>. QED
    BY <1>1, <1>3, <2>1, <2>2, <2>3, <2>4
<1>4. ASSUME NEW d \in Drains, NEW e \in Drains,
             DrainWorks(e) \/ \E n \in Scans : DrainTurns(e, n)
      PROVE  \A i \in drain'[d].still : shown'[d][i] - scan'[drain'[d].cur].at < RelogAfter
  <2>1. DrainStep(e) \/ DrainDies(e)
    BY <1>4 DEF DrainWorks, DrainTurns, DrainStep
  <2>2. CASE d # e
    <3>1. drain'[d] = drain[d]
      BY <1>0, <2>1, <2>2, OtherRuns
    <3>2. shown'[d] = shown[d]
      BY <1>0, <1>4, <2>2 DEF DrainWorks, DrainTurns
    <3>. QED
      BY <1>2, <3>1, <3>2
  <2>3. CASE d = e
    <3>1. ASSUME NEW n \in Scans, DrainTurns(d, n) PROVE drain'[d].still = {}
      BY <1>0, <3>1, TakeEffect DEF DrainTurns
    <3>2. ASSUME DrainWorks(d), ~\E i \in Items : Recheck(d, i)
          PROVE  /\ drain'[d].still \subseteq drain[d].still /\ shown' = shown
                 /\ drain'[d].cur = drain[d].cur \/ drain'[d].still = {}
      <4>1. shown' = shown /\ \/ DrainBegin(d) \/ DrainRead(d) \/ Send(d)
                              \/ Cancel(d) \/ CloseSent(d)
                              \/ DrainEnd(d) \/ DrainDies(d)
        BY <3>2 DEF DrainWorks
      <4>2. CASE DrainBegin(d) \/ DrainRead(d) \/ Send(d)
        BY <1>0, <4>1, <4>2, BeginEffect, ReadEffect, SendEffect DEF SameHolding, SameAnswers
      <4>3. CASE Cancel(d) \/ CloseSent(d) \/ DrainEnd(d) \/ DrainDies(d)
        BY <1>0, <4>1, <4>3, CloseEffect, EndEffect DEF PutAside, Emptied, NoAnswers
      <4>. QED
        BY <4>1, <4>2, <4>3
    <3>3. DrainWorks(d) => shown' = shown
      BY DEF DrainWorks
    <3>. QED
      BY <1>2, <1>3, <1>4, <2>3, <3>1, <3>2, <3>3
  <2>. QED
    BY <2>2, <2>3
<1>5. ASSUME NEW d \in Drains, WatchStep \/ (\E s \in Scans : ScanWorks(s)) \/ UNCHANGED bothVars
      PROVE  drain'[d] = drain[d] /\ shown'[d] = shown[d]
  <2>1. CASE WatchStep
    <3>1. Tick \/ UNCHANGED <<clock, nudgeOnly>>
      BY <1>0, <2>1, WatchStepGrows DEF BothInv, WP!IInv
    <3>. QED
      BY <2>1, <3>1, WatchStepIsStep DEF Tick, nudgeOnly
  <2>2. CASE \E s \in Scans : ScanWorks(s)
    BY <2>2 DEF ScanWorks, ScanStep, BeginScan, LookBlind, Look, AskLog, LogFound, RecordScan,
                AllPresent, EnqueueNudge, ScanDies, AdvanceScan
  <2>3. CASE UNCHANGED bothVars
    BY <2>3 DEF bothVars, vars
  <2>. QED
    BY <1>5, <2>1, <2>2, <2>3
<1>6. ASSUME NEW d \in Drains
      PROVE  \A i \in drain'[d].still : shown'[d][i] - scan'[drain'[d].cur].at < RelogAfter
  <2>1. CASE WatchStep \/ (\E s \in Scans : ScanWorks(s)) \/ UNCHANGED bothVars
    BY <1>2, <1>5, <2>1
  <2>2. CASE \E e \in Drains : DrainWorks(e) \/ \E n \in Scans : DrainTurns(e, n)
    BY <1>4, <2>2
  <2>. QED
    BY <2>1, <2>2, StepOfOneHalf DEF NudgeStep
<1>. QED
  BY <1>6 DEF LateSightingsCount

LEMMA InitBothInv == BothInit => BothInv
<1> SUFFICES ASSUME BothInit PROVE BothInv
  OBVIOUS
<1>1. IInv /\ WP!IInv
  BY InitIInv, WatchBegins, WP!InitIInv, WatchNumbersAssumption, NumbersAssumption DEF BothInit
<1>2. \A i \in Items : W!Blank[i] = -1 /\ seen[i].at = -1
  BY DEF BothInit, Init, W!Blank, W!Never
<1>3. W!Blank \in WP!Dates
  BY DEF W!Blank, W!Never, WP!Dates, WP!Never
<1>4. finished = W!Blank /\ \A d \in Drains : shown[d] = W!Blank /\ drain[d].still = {}
  BY DEF BothInit, Init, IdleDrain
<1>5. finished \in WP!Dates /\ shown \in [Drains -> WP!Dates]
  BY <1>3 DEF BothInit
<1>6. FinishedOnRecord
  BY <1>2, <1>4, WatchNumbersAssumption DEF FinishedOnRecord
<1>7. LateSightingsCount
  BY <1>4 DEF LateSightingsCount
<1>. QED
  BY <1>1, <1>5, <1>6, <1>7 DEF BothInv

LEMMA StepBothInv == BothInv /\ [BothNext]_bothVars => BothInv'
BY HalvesStand, FinishedStands, LateStands DEF BothInv

\* What holds of each half alone holds of them together, and what they owe each other.
THEOREM BothInductive == BothSpec => []BothInv
<1>. QED
  BY InitBothInv, StepBothInv, PTL DEF BothSpec

\* A reminder never names what a watch request saw RelogAfter or more after the scan.
THEOREM LateSightingsAreHeard == BothSpec => []LateSightingsCount
<1>1. BothInv => LateSightingsCount
  BY DEF BothInv
<1>. QED
  BY <1>1, BothInductive, PTL

\* With the watch loop writing to the log, a reminder is still cancelled on evidence only.
THEOREM StillCancelledOnEvidence == BothSpec => []CancelledWereSeen
<1>1. BothInv => CancelledWereSeen
  BY DEF BothInv, IInv
<1>. QED
  BY <1>1, BothInductive, PTL


===============================================================================
