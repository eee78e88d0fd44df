------------------------------ MODULE WatchProofs ------------------------------
(***************************************************************************)
(* What the log is owed by the watch loop, for every number of items and of *)
(* requests in service at once, every choice of the two rests, and any      *)
(* number of requests that die and memories that are lost.                  *)
(***************************************************************************)
EXTENDS Watch, TLAPS

RequestStates == [pc : {"idle", "warming", "sent", "looking", "loaded", "logged"},
                  shows : SUBSET Items, now : Moments, sees : SUBSET Items, was : Memories]

LEMMA NothingTyped == Nothing \in Memories /\ 0 \in Moments /\ IdleRequest \in RequestStates
<1>1. 0 \in Moments /\ Blank \in Dates
  BY NumbersAssumption DEF Moments, Dates, Blank
<1>2. Nothing \in Memories
  BY <1>1 DEF Nothing, Memories
<1>. QED
  BY <1>1, <1>2 DEF IdleRequest, RequestStates

LEMMA InitTypeOK == Init => TypeOK
<1> SUFFICES ASSUME Init PROVE TypeOK
  OBVIOUS
<1>1. Blank \in Dates /\ Nothing \in Memories /\ 0 \in Moments /\ IdleRequest \in RequestStates
  BY NothingTyped, NumbersAssumption DEF Moments, Dates, Blank
<1>2. req \in [Requests -> RequestStates] /\ \A r \in Requests : req[r].sees \subseteq req[r].shows
  <2>1. IdleRequest.sees = {}
    BY DEF IdleRequest
  <2>. QED
    BY <1>1, <2>1 DEF Init
<1>3. upset \in BOOLEAN
  BY DEF Init
<1>4. mishaps \in 0 .. MaxMishaps
  BY NumbersAssumption DEF Init
<1>. QED
  BY <1>1, <1>2, <1>3, <1>4 DEF Init, TypeOK, RequestStates

\* The dates a request computes are dates.
LEMMA DatesTyped ==
  ASSUME TypeOK, NEW r \in Requests
  PROVE  /\ Remembered(r) \in Dates /\ LoggedAt(r) \in Dates
         /\ ToLog(r) \in SUBSET Items /\ LeftView(r) \in SUBSET Items
         /\ req[r].now \in Moments
<1>1. /\ req[r].now \in Moments /\ req[r].sees \in SUBSET Items
      /\ req[r].was.items \in Dates /\ req[r].was.logged \in Dates
  BY DEF TypeOK, Memories
<1>2. ToLog(r) \in SUBSET Items /\ LeftView(r) \in SUBSET Items
  BY <1>1 DEF ToLog, LeftView
<1>. QED
  BY <1>1, <1>2 DEF Remembered, LoggedAt, Dates

\* What a step makes of the requests.
RequestsOK == /\ req \in [Requests -> RequestStates]
              /\ \A r \in Requests : req[r].sees \subseteq req[r].shows

LEMMA RequestsTyped ==
  ASSUME TypeOK, [Next]_vars
  PROVE  RequestsOK'
<1>0. RequestsOK /\ clock \in Moments /\ memory \in Memories
  BY DEF TypeOK, RequestsOK, RequestStates
<1>i. IdleRequest \in RequestStates /\ IdleRequest.sees = {} /\ IdleRequest.shows = {}
  BY NothingTyped DEF IdleRequest
<1>1. ASSUME NEW r \in Requests, NEW pc \in {"sent", "warming"}, NEW shows \in SUBSET Items,
             Post(r, pc, shows)
      PROVE  RequestsOK'
  <2> DEFINE new == [IdleRequest EXCEPT !.pc = pc, !.shows = shows]
  <2>1. new \in RequestStates /\ new.sees = {}
    BY <1>i DEF IdleRequest, RequestStates
  <2>2. req' = [req EXCEPT ![r] = new]
    BY <1>1 DEF Post
  <2> HIDE DEF new
  <2>. QED
    BY <1>0, <2>1, <2>2 DEF RequestsOK
<1>2. ASSUME NEW r \in Requests, KeepWarm(r) \/ SeeNothing(r) \/ Save(r) \/ RequestDies(r)
      PROVE  RequestsOK'
  <2>1. req' = [req EXCEPT ![r] = IdleRequest]
    BY <1>2 DEF KeepWarm, SeeNothing, Save, RequestDies
  <2>. QED
    BY <1>0, <1>i, <2>1 DEF RequestsOK
<1>3. ASSUME NEW r \in Requests, Arrive(r) PROVE RequestsOK'
  BY <1>0, <1>3 DEF Arrive, RequestsOK, RequestStates
<1>4. ASSUME NEW r \in Requests, NEW sees \in SUBSET req[r].shows, Look(r, sees)
      PROVE  RequestsOK'
  <2>1. sees \in SUBSET Items
    BY <1>0 DEF RequestsOK, RequestStates
  <2>. QED
    BY <1>0, <1>4, <2>1 DEF Look, RequestsOK, RequestStates
<1>5. ASSUME NEW r \in Requests, Log(r) PROVE RequestsOK'
  BY <1>0, <1>5 DEF Log, RequestsOK, RequestStates
<1>6. CASE Tick \/ MemoryLost \/ FrameLost \/ UNCHANGED vars
  BY <1>0, <1>6 DEF Tick, MemoryLost, FrameLost, vars, RequestsOK
<1>. QED
  BY <1>1, <1>2, <1>3, <1>4, <1>5, <1>6 DEF Next, Server, Serve

LEMMA StepTypeOK == TypeOK /\ [Next]_vars => TypeOK'
<1> SUFFICES ASSUME TypeOK, [Next]_vars PROVE TypeOK'
  OBVIOUS
<1>0. RequestsOK'
  BY RequestsTyped
<1>1. CASE Tick
  <2>1. clock' \in Moments
    BY <1>1, NumbersAssumption DEF Tick, TypeOK, Moments
  <2>. QED
    BY <1>0, <1>1, <2>1 DEF Tick, log, history, TypeOK, RequestsOK, RequestStates
<1>2. ASSUME NEW r \in Requests, NEW pc \in {"sent", "warming"}, NEW shows \in SUBSET Items,
             Post(r, pc, shows)
      PROVE  TypeOK'
  BY <1>0, <1>2 DEF Post, log, history, TypeOK, RequestsOK, RequestStates
<1>3. ASSUME NEW r \in Requests, KeepWarm(r) \/ SeeNothing(r) PROVE TypeOK'
  <2>1. frame' \in SUBSET SUBSET Items
    BY <1>3 DEF KeepWarm, SeeNothing, TypeOK
  <2>. QED
    BY <1>0, <1>3, <2>1 DEF KeepWarm, SeeNothing, log, history, TypeOK, RequestsOK, RequestStates
<1>4. ASSUME NEW r \in Requests, Arrive(r) PROVE TypeOK'
  <2>1. frame' \in SUBSET SUBSET Items /\ upset' \in BOOLEAN
    BY <1>4 DEF Arrive, TypeOK
  <2>. QED
    BY <1>0, <1>4, <2>1 DEF Arrive, log, TypeOK, RequestsOK, RequestStates
<1>5. ASSUME NEW r \in Requests, NEW sees \in SUBSET req[r].shows, Look(r, sees) PROVE TypeOK'
  <2>1. spotted' \in Dates
    BY <1>5, DatesTyped DEF Look, TypeOK, Dates
  <2>. QED
    BY <1>0, <1>5, <2>1 DEF Look, log, TypeOK, RequestsOK, RequestStates
<1>6. ASSUME NEW r \in Requests, Log(r) PROVE TypeOK'
  <2>1. sighted' \in Dates /\ departed' \in Dates
    BY <1>6, DatesTyped DEF Log, TypeOK, Dates, Later
  <2>2. relogged' \subseteq Items /\ hasty' \subseteq Items
    BY <1>6, DatesTyped DEF Log, TypeOK
  <2>. QED
    BY <1>0, <1>6, <2>1, <2>2 DEF Log, TypeOK, RequestsOK, RequestStates
<1>7. ASSUME NEW r \in Requests, Save(r) PROVE TypeOK'
  <2>1. memory' \in Memories
    BY <1>7, DatesTyped DEF Save, Memories
  <2>. QED
    BY <1>0, <1>7, <2>1 DEF Save, log, history, TypeOK, RequestsOK, RequestStates
<1>8. ASSUME (\E r \in Requests : RequestDies(r)) \/ MemoryLost PROVE TypeOK'
  <2>1. mishaps' \in 0 .. MaxMishaps
    BY <1>8, NumbersAssumption DEF RequestDies, MemoryLost, TypeOK
  <2>2. memory' \in Memories
    BY <1>8, NothingTyped DEF RequestDies, MemoryLost, TypeOK
  <2>3. upset' \in BOOLEAN
    BY <1>8 DEF RequestDies, MemoryLost, TypeOK
  <2>. QED
    BY <1>0, <1>8, <2>1, <2>2, <2>3 DEF RequestDies, MemoryLost, log, TypeOK, RequestsOK, RequestStates
<1>9. CASE FrameLost \/ UNCHANGED vars
  BY <1>0, <1>9 DEF FrameLost, vars, log, history, TypeOK, RequestsOK, RequestStates
<1>. QED
  BY <1>1, <1>2, <1>3, <1>4, <1>5, <1>6, <1>7, <1>8, <1>9 DEF Next, Server, Serve

(* The model keeps to its types.                                               *)
THEOREM TypeCorrect == Spec => []TypeOK
<1>. QED
  BY InitTypeOK, StepTypeOK, PTL DEF Spec

-------------------------------------------------------------------------------
(* The inductive invariant.  A memory, in the cache or in a request's hands, is *)
(* backed by the log; and a request that has logged has everything it saw on    *)
(* record, at its own date or by the row its memory spoke of.                   *)

Backed(m) == \A i \in Items : /\ m.logged[i] <= sighted[i]
                              /\ m.items[i] # Never => sighted[i] # Never
BackedNext(m) == \A i \in Items : /\ m.logged[i] <= sighted'[i]
                                  /\ m.items[i] # Never => sighted'[i] # Never
OnRecord(r) == \A i \in ToLog(r) : sighted[i] >= req[r].now

IInv ==
  /\ TypeOK
  /\ Backed(memory)
  /\ \A r \in Requests : req[r].pc \in {"loaded", "logged"} => Backed(req[r].was)
  /\ \A r \in Requests : req[r].pc = "logged" => OnRecord(r)

LEMMA InitIInv == Init => IInv
<1> SUFFICES ASSUME Init PROVE IInv
  OBVIOUS
<1>1. \A i \in Items : Nothing.logged[i] = Never /\ Nothing.items[i] = Never /\ sighted[i] = Never
  BY DEF Init, Nothing, Blank
<1>2. Backed(memory)
  BY <1>1 DEF Init, Backed, Never
<1>3. \A r \in Requests : req[r].pc = "idle"
  BY DEF Init, IdleRequest
<1>. QED
  BY <1>2, <1>3, InitTypeOK DEF IInv

\* The log only ever grows newer, and with it what was backed stays backed.
LEMMA BackedStays ==
  ASSUME TypeOK, TypeOK', NEW m \in Memories, Backed(m),
         \A i \in Items : sighted'[i] >= sighted[i]
  PROVE  BackedNext(m)
<1>1. \A i \in Items : /\ sighted[i] \in Moments \cup {Never}
                       /\ sighted'[i] \in Moments \cup {Never}
                       /\ m.logged[i] \in Moments \cup {Never}
  BY DEF TypeOK, Dates, Memories
<1>. QED
  BY <1>1, NumbersAssumption DEF Backed, BackedNext, Moments, Never

LEMMA LogGrows ==
  ASSUME TypeOK, [Next]_vars
  PROVE  \A i \in Items : sighted'[i] >= sighted[i]
<1>0. \A i \in Items : sighted[i] \in Int
  BY DEF TypeOK, Dates, Moments, Never
<1>1. ASSUME NEW r \in Requests, Log(r) PROVE \A i \in Items : sighted'[i] >= sighted[i]
  <2>1. req[r].now \in Int
    BY DEF TypeOK, Moments
  <2>. QED
    BY <1>0, <1>1, <2>1 DEF Log, Later
<1>2. CASE sighted' = sighted
  BY <1>0, <1>2
<1>3. sighted' = sighted \/ \E r \in Requests : Log(r)
  BY DEF Next, Server, Serve, Tick, Post, KeepWarm, Arrive, SeeNothing, Look, Save, RequestDies,
         MemoryLost, FrameLost, vars, log
<1>. QED
  BY <1>1, <1>2, <1>3

\* A request that has logged remembers only what the log can show.
LEMMA SavedIsBacked ==
  ASSUME IInv, NEW r \in Requests, req[r].pc = "logged"
  PROVE  Backed([items |-> Remembered(r), logged |-> LoggedAt(r)])
<1> DEFINE was == req[r].was
<1>0. /\ \A i \in Items : /\ sighted[i] \in Moments \cup {Never}
                          /\ was.logged[i] \in Moments \cup {Never}
      /\ req[r].now \in Moments /\ Backed(was) /\ OnRecord(r)
      /\ req[r].sees \subseteq Items
  BY DEF IInv, TypeOK, Dates, Memories
<1>1. ASSUME NEW i \in Items PROVE LoggedAt(r)[i] <= sighted[i]
  <2>1. CASE i \in ToLog(r)
    BY <1>0, <2>1 DEF LoggedAt, OnRecord
  <2>2. CASE i \notin ToLog(r)
    BY <1>0, <2>2, NumbersAssumption DEF LoggedAt, Backed, Moments, Never
  <2>. QED
    BY <2>1, <2>2
<1>2. ASSUME NEW i \in Items, Remembered(r)[i] # Never PROVE sighted[i] # Never
  <2>1. CASE i \in req[r].sees /\ i \in ToLog(r)
    BY <1>0, <2>1 DEF OnRecord, Moments, Never
  <2>2. CASE i \in req[r].sees /\ i \notin ToLog(r)
    BY <1>0, <2>2 DEF ToLog, Backed, Moments, Never
  <2>3. CASE i \notin req[r].sees
    BY <1>0, <1>2, <2>3 DEF Remembered, Backed
  <2>. QED
    BY <2>1, <2>2, <2>3
<1>. QED
  BY <1>1, <1>2 DEF Backed

LEMMA StepIInv == IInv /\ [Next]_vars => IInv'
<1> SUFFICES ASSUME IInv, [Next]_vars PROVE IInv'
  OBVIOUS
<1>0. TypeOK /\ TypeOK' /\ \A i \in Items : sighted'[i] >= sighted[i]
  BY StepTypeOK, LogGrows DEF IInv
<1>1. \A r \in Requests : req[r].was \in Memories
  BY <1>0 DEF TypeOK
<1>2. \A m \in Memories : Backed(m) => BackedNext(m)
  BY <1>0, BackedStays
<1>3. Backed(memory)'
  <2>1. CASE memory' = memory
    BY <1>0, <1>2, <2>1 DEF IInv, TypeOK, Backed, BackedNext
  <2>2. ASSUME NEW r \in Requests, Save(r) PROVE Backed(memory)'
    BY <2>2, SavedIsBacked DEF Save, log, Backed
  <2>3. CASE MemoryLost
    <3>1. memory' = Nothing /\ sighted' = sighted
      BY <2>3 DEF MemoryLost, log
    <3>2. \A i \in Items : Nothing.logged[i] = Never /\ Nothing.items[i] = Never
      BY DEF Nothing, Blank
    <3>3. \A i \in Items : sighted[i] \in Moments \cup {Never}
      BY <1>0 DEF TypeOK, Dates
    <3>. QED
      BY <3>1, <3>2, <3>3 DEF Backed, Moments, Never
  <2>4. memory' = memory \/ (\E r \in Requests : Save(r)) \/ MemoryLost
    BY DEF Next, Server, Serve, Tick, Post, KeepWarm, Arrive, SeeNothing, Look, Log, RequestDies,
           FrameLost, vars
  <2>. QED
    BY <2>1, <2>2, <2>3, <2>4
<1>4. ASSUME NEW r \in Requests
      PROVE  /\ req'[r].pc \in {"loaded", "logged"} => BackedNext(req'[r].was)
             /\ req'[r].pc = "logged" => OnRecord(r)'
  <2>0. req \in [Requests -> RequestStates]
    BY <1>0 DEF TypeOK, RequestStates
  <2>1. CASE req'[r] = req[r]
    <3>1. req[r].pc \in {"loaded", "logged"} => BackedNext(req[r].was)
      BY <1>1, <1>2 DEF IInv
    <3>2. ToLog(r)' = ToLog(r) /\ ToLog(r) \in SUBSET Items
      BY <1>0, <2>1, DatesTyped DEF ToLog, Since
    <3>3. req[r].pc = "logged" => \A i \in ToLog(r) : sighted[i] >= req[r].now
      BY DEF IInv, OnRecord
    <3>4. /\ req[r].now \in Int
          /\ \A i \in Items : sighted[i] \in Int /\ sighted'[i] \in Int
      BY <1>0 DEF TypeOK, Dates, Moments, Never
    <3>5. req[r].pc = "logged" => OnRecord(r)'
      BY <1>0, <2>1, <3>2, <3>3, <3>4 DEF OnRecord
    <3>. QED
      BY <2>1, <3>1, <3>5
  <2>2. ASSUME NEW sees \in SUBSET req[r].shows, Look(r, sees)
        PROVE  req'[r].pc = "loaded" /\ BackedNext(req'[r].was)
    <3>1. req'[r].pc = "loaded" /\ req'[r].was = memory /\ sighted' = sighted
      BY <2>0, <2>2 DEF Look, log, RequestStates
    <3>. QED
      BY <3>1 DEF IInv, Backed, BackedNext
  <2>3. CASE Log(r)
    <3>1. /\ req[r].pc = "loaded" /\ req'[r].pc = "logged"
          /\ req'[r].was = req[r].was /\ req'[r].now = req[r].now /\ req'[r].sees = req[r].sees
          /\ \A i \in ToLog(r) : i \in Items => sighted'[i] = Later(req[r].now, sighted[i])
      BY <2>0, <2>3 DEF Log, RequestStates
    <3>2. BackedNext(req[r].was)
      BY <1>1, <1>2, <3>1 DEF IInv
    <3>3. ToLog(r)' = ToLog(r) /\ ToLog(r) \in SUBSET Items
      BY <1>0, <3>1, DatesTyped DEF ToLog, Since
    <3>4. req[r].now \in Int /\ \A i \in Items : sighted[i] \in Int
      BY <1>0 DEF TypeOK, Dates, Moments, Never
    <3>5. \A i \in ToLog(r) : sighted'[i] >= req[r].now
      BY <3>1, <3>3, <3>4 DEF Later
    <3>6. OnRecord(r)'
      BY <3>1, <3>3, <3>5 DEF OnRecord
    <3>. QED
      BY <3>1, <3>2, <3>6
  <2>4. \/ req'[r] = req[r] \/ req'[r].pc \notin {"loaded", "logged"}
        \/ (\E sees \in SUBSET req[r].shows : Look(r, sees)) \/ Log(r)
    <3>1. ASSUME NEW q \in Requests, NEW pc \in {"sent", "warming"},
                 NEW shows \in SUBSET Items, Post(q, pc, shows)
          PROVE  req'[r] = req[r] \/ req'[r].pc \notin {"loaded", "logged"}
      BY <2>0, <3>1 DEF Post, IdleRequest
    <3>2. ASSUME NEW q \in Requests,
                 KeepWarm(q) \/ Arrive(q) \/ SeeNothing(q) \/ Save(q) \/ RequestDies(q)
          PROVE  req'[r] = req[r] \/ req'[r].pc \notin {"loaded", "logged"}
      BY <2>0, <3>2 DEF KeepWarm, Arrive, SeeNothing, Save, RequestDies, IdleRequest, RequestStates
    <3>3. ASSUME NEW q \in Requests, q # r, Log(q) \/ \E sees \in SUBSET req[q].shows : Look(q, sees)
          PROVE  req'[r] = req[r]
      BY <2>0, <3>3 DEF Log, Look
    <3>4. CASE Tick \/ MemoryLost \/ FrameLost \/ UNCHANGED vars
      BY <3>4 DEF Tick, MemoryLost, FrameLost, vars
    <3>. QED
      BY <3>1, <3>2, <3>3, <3>4 DEF Next, Server, Serve
  <2>5. CASE req'[r].pc \notin {"loaded", "logged"}
    BY <2>5
  <2>. QED
    BY <2>1, <2>2, <2>3, <2>4, <2>5
<1>. QED
  BY <1>0, <1>3, <1>4 DEF IInv, Backed, BackedNext

(* The conjunction above holds in every reachable state.                       *)
THEOREM Inductive == Spec => []IInv
<1>. QED
  BY InitIInv, StepIInv, PTL DEF Spec

(* What the session remembers is never ahead of the log, whatever overlaps,    *)
(* dies or is lost: a cache that is wiped or stale never invents a sighting.   *)
THEOREM MemoryIsNeverAhead == Spec => []MemoryIsBacked
<1>1. IInv => MemoryIsBacked
  BY DEF IInv, Backed, MemoryIsBacked
<1>. QED
  BY <1>1, Inductive, PTL

LEMMA OnRecordIsSeen == IInv => SeenIsOnRecord
<1>1. ASSUME IInv, NEW r \in Requests, req[r].pc = "logged", NEW i \in req[r].sees
      PROVE  sighted[i] # Never /\ Since(r, sighted[i]) < RelogAfter
  <2>0. /\ i \in Items /\ req[r].now \in Moments /\ RelogAfter \in Nat \ {0}
        /\ sighted[i] \in Moments \cup {Never}
        /\ req[r].was.logged[i] \in Moments \cup {Never}
    <3>1. req[r].sees \subseteq Items /\ req[r].was \in Memories
      BY <1>1 DEF IInv, TypeOK
    <3>. QED
      BY <1>1, <3>1, NumbersAssumption DEF IInv, TypeOK, Dates, Memories
  <2>1. CASE i \in ToLog(r)
    BY <1>1, <2>0, <2>1 DEF IInv, OnRecord, Since, Moments, Never
  <2>2. CASE i \notin ToLog(r)
    <3>1. req[r].was.logged[i] # Never /\ Since(r, req[r].was.logged[i]) < RelogAfter
      BY <1>1, <2>0, <2>2 DEF ToLog, Since, Moments, Never
    <3>2. req[r].was.logged[i] <= sighted[i]
      BY <1>1, <2>0 DEF IInv, Backed
    <3>. QED
      BY <2>0, <3>1, <3>2 DEF Since, Moments, Never
  <2>. QED
    BY <2>1, <2>2
<1>. QED
  BY <1>1 DEF SeenIsOnRecord

(* Not logging what was logged a moment ago loses no sighting: when a request  *)
(* is done, all it saw is on record, less than RelogAfter old.                 *)
THEOREM SightingsAreKept == Spec => []SeenIsOnRecord
<1>. QED
  BY OnRecordIsSeen, Inductive, PTL

-------------------------------------------------------------------------------
(* The second inductive invariant: as long as nothing overlapped, died or was   *)
(* lost, one request is in service at a time, what the session remembers is what *)
(* the log and the frames say, and nobody reported anything too soon.           *)

\* Nothing is dated ahead of the clock.
Timely ==
  /\ \A i \in Items : sighted[i] <= clock /\ spotted[i] <= clock
  /\ \A r \in Requests : req[r].now <= clock

\* An item was last logged when the log says, or has left view since.
LoggedAgrees(logged) ==
  \A i \in Items : \/ logged[i] = sighted[i]
                   \/ logged[i] = Never /\ departed[i] >= sighted[i]

\* An item is remembered at the date it was last spotted, or not at all.
SpottedAgrees(items, S) == \A i \in S : items[i] \in {Never, spotted[i]}

Accurate(r) ==
  /\ req[r].pc \in {"looking", "loaded"} => \A i \in Items : sighted[i] <= req[r].now
  /\ req[r].pc = "looking" => \A i \in Items : spotted[i] <= req[r].now
  /\ req[r].pc = "loaded" => /\ LoggedAgrees(req[r].was.logged)
                             /\ SpottedAgrees(req[r].was.items, Items \ req[r].sees)
  /\ req[r].pc \in {"loaded", "logged"} => \A i \in req[r].sees : spotted[i] = req[r].now
  /\ req[r].pc = "logged" => /\ LoggedAgrees(LoggedAt(r))
                             /\ SpottedAgrees(Remembered(r), Items)

Calm ==
  /\ relogged = {} /\ hasty = {}
  /\ \A q, r \in Requests : InService(q) /\ InService(r) => q = r
  /\ \A r \in Requests : Accurate(r)
  /\ (\A r \in Requests : req[r].pc \notin {"loaded", "logged"})
       => LoggedAgrees(memory.logged) /\ SpottedAgrees(memory.items, Items)

CalmInv == TypeOK /\ Timely /\ (~upset => Calm)

LEMMA InitCalmInv == Init => CalmInv
<1> SUFFICES ASSUME Init PROVE CalmInv
  OBVIOUS
<1>1. /\ \A i \in Items : /\ sighted[i] = Never /\ spotted[i] = Never
                          /\ Nothing.logged[i] = Never /\ Nothing.items[i] = Never
      /\ \A r \in Requests : req[r].pc = "idle" /\ req[r].now = 0
  BY DEF Init, Blank, Nothing, IdleRequest
<1>2. Timely
  BY <1>1 DEF Init, Timely, Never
<1>3. LoggedAgrees(memory.logged) /\ SpottedAgrees(memory.items, Items)
  BY <1>1 DEF Init, LoggedAgrees, SpottedAgrees
<1>4. Calm
  BY <1>1, <1>3 DEF Init, Calm, Accurate, InService
<1>. QED
  BY <1>2, <1>4, InitTypeOK DEF CalmInv

LEMMA StepTimely ==
  ASSUME TypeOK, Timely, [Next]_vars
  PROVE  Timely'
<1>0. /\ req \in [Requests -> RequestStates] /\ clock \in Int
      /\ \A i \in Items : sighted[i] \in Int /\ spotted[i] \in Int
      /\ \A r \in Requests : req[r].now \in Int
      /\ IdleRequest.now = 0 /\ clock >= 0
  BY DEF TypeOK, RequestStates, Dates, Moments, Never, IdleRequest
<1>1. ASSUME NEW r \in Requests, Arrive(r) PROVE Timely'
  BY <1>0, <1>1 DEF Arrive, log, Timely, RequestStates
<1>2. ASSUME NEW r \in Requests, NEW sees \in SUBSET req[r].shows, Look(r, sees) PROVE Timely'
  BY <1>0, <1>2 DEF Look, log, Timely, RequestStates
<1>3. ASSUME NEW r \in Requests, Log(r) PROVE Timely'
  BY <1>0, <1>3 DEF Log, Later, Timely, RequestStates
<1>4. ASSUME NEW r \in Requests, NEW x \in RequestStates, x.now = 0,
             req' = [req EXCEPT ![r] = x], UNCHANGED <<clock, sighted, spotted>>
      PROVE  Timely'
  BY <1>0, <1>4 DEF Timely
<1>5. ASSUME NEW r \in Requests, NEW pc \in {"sent", "warming"}, NEW shows \in SUBSET Items,
             Post(r, pc, shows)
      PROVE  Timely'
  <2>1. [IdleRequest EXCEPT !.pc = pc, !.shows = shows] \in RequestStates
        /\ [IdleRequest EXCEPT !.pc = pc, !.shows = shows].now = 0
    BY NothingTyped DEF IdleRequest, RequestStates
  <2>. QED
    BY <1>4, <1>5, <2>1 DEF Post, log, history
<1>6. ASSUME NEW r \in Requests, KeepWarm(r) \/ SeeNothing(r) \/ Save(r) \/ RequestDies(r)
      PROVE  Timely'
  <2>1. req' = [req EXCEPT ![r] = IdleRequest] /\ UNCHANGED <<clock, sighted, spotted>>
    BY <1>6 DEF KeepWarm, SeeNothing, Save, RequestDies, log, history
  <2>. QED
    BY <1>0, <1>4, <2>1, NothingTyped
<1>7. CASE Tick
  BY <1>0, <1>7 DEF Tick, log, history, Timely
<1>8. CASE MemoryLost \/ FrameLost \/ UNCHANGED vars
  BY <1>8 DEF MemoryLost, FrameLost, vars, log, history, Timely
<1>. QED
  BY <1>1, <1>2, <1>3, <1>5, <1>6, <1>7, <1>8 DEF Next, Server, Serve

LEMMA UpsetStays == TypeOK /\ [Next]_vars /\ upset => upset'
BY DEF TypeOK, Next, Server, Serve, Tick, Post, KeepWarm, Arrive, SeeNothing, Look, Log, Save,
       RequestDies, MemoryLost, FrameLost, vars, history

\* What is said of a request is about its own locals, the log and the frames.
LEMMA AccurateStays ==
  ASSUME NEW q \in Requests, Accurate(q), req'[q] = req[q],
         UNCHANGED <<sighted, departed, spotted>>
  PROVE  Accurate(q)'
<1>1. ToLog(q)' = ToLog(q) /\ LeftView(q)' = LeftView(q)
  BY DEF ToLog, LeftView, Since
<1>2. LoggedAt(q)' = LoggedAt(q) /\ Remembered(q)' = Remembered(q)
  BY <1>1 DEF LoggedAt, Remembered
<1>. QED
  BY <1>2 DEF Accurate, LoggedAgrees, SpottedAgrees

\* A request that comes, goes or is turned away before it has looked.
LEMMA CalmComesAndGoes ==
  ASSUME TypeOK, Calm, NEW r \in Requests, NEW x,
         req' = [req EXCEPT ![r] = x], x.pc \notin {"looking", "loaded", "logged"},
         req[r].pc \notin {"loaded", "logged"},
         UNCHANGED <<memory, sighted, departed, spotted, relogged, hasty>>
  PROVE  Calm'
<1>0. req \in [Requests -> RequestStates]
  BY DEF TypeOK, RequestStates
<1>1. req'[r] = x /\ \A q \in Requests \ {r} : req'[q] = req[q]
  BY <1>0
<1>2. \A q \in Requests : InService(q)' => q # r /\ InService(q)
  BY <1>1 DEF InService
<1>3. \A q \in Requests \ {r} : Accurate(q)'
  BY <1>1, AccurateStays DEF Calm
<1>4. Accurate(r)'
  BY <1>1 DEF Accurate
<1>5. (\A q \in Requests : req'[q].pc \notin {"loaded", "logged"})
        => \A q \in Requests : req[q].pc \notin {"loaded", "logged"}
  BY <1>1
<1>. QED
  BY <1>2, <1>3, <1>4, <1>5 DEF Calm, LoggedAgrees, SpottedAgrees

\* While one request looks, logs or saves there is no other in service.
LEMMA AloneInService ==
  ASSUME TypeOK, Calm, NEW r \in Requests, InService(r),
         \A q \in Requests \ {r} : req'[q] = req[q]
  PROVE  \A q \in Requests \ {r} : ~InService(q) /\ ~InService(q)' /\ Accurate(q)'
BY DEF Calm, InService, Accurate

LEMMA CalmLook ==
  ASSUME TypeOK, Calm, NEW r \in Requests, NEW sees \in SUBSET req[r].shows, Look(r, sees)
  PROVE  Calm'
<1>0. req \in [Requests -> RequestStates] /\ sees \subseteq Items
  BY DEF TypeOK, RequestStates
<1>1. /\ req[r].pc = "looking" /\ req'[r].pc = "loaded" /\ req'[r].sees = sees
      /\ req'[r].was = memory /\ req'[r].now = req[r].now
      /\ UNCHANGED <<sighted, departed, relogged, hasty>>
      /\ \A q \in Requests \ {r} : req'[q] = req[q]
  BY <1>0 DEF Look, log, RequestStates
<1>2. InService(r) /\ \A q \in Requests \ {r} : ~InService(q) /\ ~InService(q)' /\ Accurate(q)'
  <2>1. InService(r)
    BY <1>1 DEF InService
  <2>. QED
    BY <1>1, <2>1, AloneInService
<1>3. LoggedAgrees(memory.logged) /\ SpottedAgrees(memory.items, Items)
  BY <1>1, <1>2 DEF Calm, InService
<1>4. \A i \in Items : /\ sighted[i] <= req[r].now /\ spotted[i] <= req[r].now
                       /\ spotted[i] \in Int /\ req[r].now \in Int
  <2>1. Accurate(r)
    BY DEF Calm
  <2>2. req[r].now \in Int /\ \A i \in Items : spotted[i] \in Int
    BY DEF TypeOK, Dates, Moments, Never
  <2>. QED
    BY <1>1, <2>1, <2>2 DEF Accurate
<1>5. \A i \in Items : spotted'[i] = IF i \in sees THEN req[r].now ELSE spotted[i]
  BY <1>4 DEF Look
<1>6. Accurate(r)'
  BY <1>0, <1>1, <1>3, <1>4, <1>5 DEF Accurate, LoggedAgrees, SpottedAgrees
<1>. QED
  BY <1>1, <1>2, <1>6 DEF Calm, InService

LEMMA CalmLog ==
  ASSUME TypeOK, Calm, NEW r \in Requests, Log(r)
  PROVE  Calm'
<1>0. req \in [Requests -> RequestStates]
  BY DEF TypeOK, RequestStates
<1>1. /\ req[r].pc = "loaded" /\ req'[r].pc = "logged" /\ req'[r].sees = req[r].sees
      /\ req'[r].was = req[r].was /\ req'[r].now = req[r].now /\ spotted' = spotted
      /\ \A q \in Requests \ {r} : req'[q] = req[q]
  BY <1>0 DEF Log, RequestStates
<1>2. InService(r) /\ \A q \in Requests \ {r} : ~InService(q) /\ ~InService(q)' /\ Accurate(q)'
  <2>1. InService(r)
    BY <1>1 DEF InService
  <2>. QED
    BY <1>1, <2>1, AloneInService
<1> DEFINE was == req[r].was
<1>3. /\ LoggedAgrees(was.logged) /\ SpottedAgrees(was.items, Items \ req[r].sees)
      /\ \A i \in Items : sighted[i] <= req[r].now
      /\ \A i \in req[r].sees : spotted[i] = req[r].now
  BY <1>1 DEF Calm, Accurate
<1>4. /\ req[r].now \in Int /\ req[r].sees \subseteq Items /\ RelogAfter \in Int /\ GoneAfter \in Int
      /\ \A i \in Items : /\ sighted[i] \in Int /\ departed[i] \in Int /\ spotted[i] \in Int
                          /\ was.logged[i] \in Int /\ was.items[i] \in Int
  BY NumbersAssumption DEF TypeOK, Dates, Memories, Moments, Never
<1>5. /\ \A i \in Items : /\ sighted'[i] = IF i \in ToLog(r) THEN req[r].now ELSE sighted[i]
                          /\ departed'[i] >= departed[i]
                          /\ i \in LeftView(r) => departed'[i] >= req[r].now
      /\ ToLog(r) \subseteq req[r].sees /\ LeftView(r) \cap req[r].sees = {}
      /\ LeftView(r) \subseteq Items
  <2>1. ToLog(r) \subseteq req[r].sees /\ LeftView(r) \subseteq Items \ req[r].sees
    BY DEF ToLog, LeftView
  <2>. QED
    BY <1>3, <1>4, <2>1 DEF Log, Later
<1>6. relogged' = {}
  <2>1. ASSUME NEW i \in ToLog(r), sighted[i] # Never, Since(r, sighted[i]) < RelogAfter,
               departed[i] < sighted[i]
        PROVE  FALSE
    <3>1. was.logged[i] = sighted[i]
      BY <1>3, <1>4, <1>5, <2>1 DEF LoggedAgrees
    <3>. QED
      BY <1>4, <1>5, <2>1, <3>1 DEF ToLog, Since
  <2>. QED
    BY <2>1 DEF Log, Calm
<1>7. hasty' = {}
  <2>1. ASSUME NEW i \in LeftView(r), Since(r, spotted[i]) < GoneAfter PROVE FALSE
    BY <1>3, <1>4, <1>5, <2>1 DEF LeftView, SpottedAgrees, Since
  <2>. QED
    BY <2>1 DEF Log, Calm
<1>8. /\ ToLog(r)' = ToLog(r) /\ LeftView(r)' = LeftView(r)
      /\ LoggedAt(r)' = LoggedAt(r) /\ Remembered(r)' = Remembered(r)
  <2>1. ToLog(r)' = ToLog(r) /\ LeftView(r)' = LeftView(r)
    BY <1>1 DEF ToLog, LeftView, Since
  <2>. QED
    BY <1>1, <2>1 DEF LoggedAt, Remembered
<1>9. ASSUME NEW i \in Items
      PROVE  \/ LoggedAt(r)[i] = sighted'[i]
             \/ LoggedAt(r)[i] = Never /\ departed'[i] >= sighted'[i]
  <2>1. CASE i \in ToLog(r)
    BY <1>5, <2>1 DEF LoggedAt
  <2>2. CASE i \notin ToLog(r) /\ i \in LeftView(r)
    <3>1. LoggedAt(r)[i] = Never /\ sighted'[i] = sighted[i] /\ departed'[i] >= req[r].now
          /\ departed'[i] \in Int
      BY <1>4, <1>5, <2>2 DEF LoggedAt, Log, Later
    <3>. QED
      BY <1>3, <1>4, <3>1
  <2>3. CASE i \notin ToLog(r) /\ i \notin LeftView(r)
    <3>1. LoggedAt(r)[i] = was.logged[i] /\ sighted'[i] = sighted[i]
          /\ departed'[i] = departed[i]
      BY <1>5, <2>3 DEF LoggedAt, Log
    <3>. QED
      BY <1>3, <3>1 DEF LoggedAgrees
  <2>. QED
    BY <2>1, <2>2, <2>3
<1>10. ASSUME NEW i \in Items PROVE Remembered(r)[i] \in {Never, spotted[i]}
  BY <1>3, <1>5 DEF Remembered, SpottedAgrees
<1>11. Accurate(r)'
  BY <1>1, <1>3, <1>8, <1>9, <1>10 DEF Accurate, LoggedAgrees, SpottedAgrees
<1>. QED
  BY <1>1, <1>2, <1>6, <1>7, <1>11 DEF Calm, InService

LEMMA CalmSave ==
  ASSUME TypeOK, Calm, NEW r \in Requests, Save(r)
  PROVE  Calm'
<1>0. req \in [Requests -> RequestStates]
  BY DEF TypeOK, RequestStates
<1>1. /\ req[r].pc = "logged" /\ req'[r] = IdleRequest
      /\ \A q \in Requests \ {r} : req'[q] = req[q]
      /\ memory' = [items |-> Remembered(r), logged |-> LoggedAt(r)]
      /\ UNCHANGED <<sighted, departed, spotted, relogged, hasty>>
  BY <1>0 DEF Save, log, history
<1>2. InService(r) /\ \A q \in Requests \ {r} : ~InService(q) /\ ~InService(q)' /\ Accurate(q)'
  <2>1. InService(r)
    BY <1>1 DEF InService
  <2>. QED
    BY <1>1, <2>1, AloneInService
<1>3. req'[r].pc = "idle"
  BY <1>1 DEF IdleRequest
<1>4. LoggedAgrees(memory'.logged) /\ SpottedAgrees(memory'.items, Items)
  BY <1>1 DEF Calm, Accurate
<1>5. LoggedAgrees(memory.logged)' /\ SpottedAgrees(memory.items, Items)'
  BY <1>1, <1>4 DEF LoggedAgrees, SpottedAgrees
<1>. QED
  BY <1>1, <1>2, <1>3, <1>5 DEF Calm, InService, Accurate

LEMMA StepCalmInv == CalmInv /\ [Next]_vars => CalmInv'
<1> SUFFICES ASSUME CalmInv, [Next]_vars PROVE CalmInv'
  OBVIOUS
<1>0. TypeOK /\ TypeOK' /\ Timely' /\ req \in [Requests -> RequestStates]
  BY StepTypeOK, StepTimely DEF CalmInv, TypeOK, RequestStates
<1> SUFFICES ASSUME ~upset' PROVE Calm'
  BY <1>0 DEF CalmInv
<1>1. Calm /\ Timely /\ ~upset
  BY <1>0, UpsetStays DEF CalmInv
<1>2. ASSUME NEW r \in Requests, NEW pc \in {"sent", "warming"}, NEW shows \in SUBSET Items,
             Post(r, pc, shows)
      PROVE  Calm'
  <2> DEFINE x == [IdleRequest EXCEPT !.pc = pc, !.shows = shows]
  <2>1. x.pc \notin {"looking", "loaded", "logged"}
    BY DEF IdleRequest
  <2>2. /\ req' = [req EXCEPT ![r] = x] /\ req[r].pc = "idle"
        /\ UNCHANGED <<memory, sighted, departed, spotted, relogged, hasty>>
    BY <1>2 DEF Post, log, history
  <2> HIDE DEF x
  <2>. QED
    BY <1>0, <1>1, <2>1, <2>2, CalmComesAndGoes
<1>3. ASSUME NEW r \in Requests, KeepWarm(r) \/ SeeNothing(r) \/ RequestDies(r) PROVE Calm'
  <2>1. /\ req' = [req EXCEPT ![r] = IdleRequest] /\ req[r].pc \notin {"loaded", "logged"}
        /\ UNCHANGED <<memory, sighted, departed, spotted, relogged, hasty>>
    BY <1>3 DEF KeepWarm, SeeNothing, RequestDies, log, history
  <2>2. IdleRequest.pc \notin {"looking", "loaded", "logged"}
    BY DEF IdleRequest
  <2>. QED
    BY <1>0, <1>1, <2>1, <2>2, CalmComesAndGoes
<1>4. ASSUME NEW r \in Requests, Arrive(r) PROVE Calm'
  <2>1. /\ \A q \in Requests : ~InService(q)
        /\ req'[r].pc = "looking" /\ req'[r].now = clock
        /\ \A q \in Requests \ {r} : req'[q] = req[q]
        /\ UNCHANGED <<memory, sighted, departed, spotted, relogged, hasty>>
    BY <1>0, <1>4 DEF Arrive, log, RequestStates
  <2>2. Accurate(r)'
    BY <1>1, <2>1 DEF Accurate, Timely
  <2>3. \A q \in Requests \ {r} : ~InService(q)' /\ Accurate(q)'
    BY <2>1 DEF InService, Accurate
  <2>4. LoggedAgrees(memory.logged)' /\ SpottedAgrees(memory.items, Items)'
    BY <1>1, <2>1 DEF Calm, InService, LoggedAgrees, SpottedAgrees
  <2>. QED
    BY <1>1, <2>1, <2>2, <2>3, <2>4 DEF Calm
<1>5. CASE Tick \/ FrameLost \/ UNCHANGED vars
  <2>1. UNCHANGED <<req, memory, sighted, departed, spotted, relogged, hasty>>
    BY <1>5 DEF Tick, FrameLost, vars, log, history
  <2>2. \A q \in Requests : Accurate(q)'
    BY <1>1, <2>1, AccurateStays DEF Calm
  <2>. QED
    BY <1>1, <2>1, <2>2 DEF Calm, InService, LoggedAgrees, SpottedAgrees
<1>6. ~MemoryLost
  BY DEF MemoryLost
<1>. QED
  BY <1>0, <1>1, <1>2, <1>3, <1>4, <1>5, <1>6, CalmLook, CalmLog, CalmSave DEF Next, Server, Serve

(* The conjunction above holds in every reachable state.                        *)
THEOREM CalmInductive == Spec => []CalmInv
<1>. QED
  BY InitCalmInv, StepCalmInv, PTL DEF Spec

(* An item that sits there is logged again too soon only after a mishap: with   *)
(* one request in service at a time, none of which dies, what the session       *)
(* remembers to have logged is what the log has.                                *)
THEOREM RelogsAreMishaps == Spec => []RelogNeedsMishap
<1>1. CalmInv => RelogNeedsMishap
  BY DEF CalmInv, Calm, RelogNeedsMishap
<1>. QED
  BY <1>1, CalmInductive, PTL

(* An item is reported gone too soon only after a mishap: with one request in   *)
(* service at a time, what the session remembers to have seen is when it was.   *)
THEOREM FalseDeparturesAreMishaps == Spec => []GoneNeedsMishap
<1>1. CalmInv => GoneNeedsMishap
  BY DEF CalmInv, Calm, GoneNeedsMishap
<1>. QED
  BY <1>1, CalmInductive, PTL
===============================================================================
