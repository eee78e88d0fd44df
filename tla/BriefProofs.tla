------------------------------ MODULE BriefProofs ------------------------------
(***************************************************************************)
(* The safety of the morning brief for every number of overlapping calls,   *)
(* days and failures, and every window and cadence.                         *)
(***************************************************************************)
EXTENDS Brief, TLAPS

CallStates == [pc : {"idle", "called", "gated", "briefing"}, forced : BOOLEAN, date : Days]

LEMMA InitTypeOK == Init => TypeOK
<1> SUFFICES ASSUME Init PROVE TypeOK
  OBVIOUS
<1>1. 0 \in Days /\ 0 \in Minutes /\ 0 \in 0 .. MaxFailures
  BY NumbersAssumption DEF Days, Minutes
<1>2. /\ call \in [Calls -> CallStates]
      /\ \A c \in Calls : call[c].pc = "gated" => ~call[c].forced
  BY <1>1 DEF Init, IdleCall, CallStates
<1>3. causes \in SUBSET {"blind", "leap"} /\ ticked \in BOOLEAN
  BY DEF Init
<1>4. briefs \in [Days -> Nat] /\ marks \in SUBSET Days /\ failed \in SUBSET Days
  BY DEF Init
<1>. QED
  BY <1>1, <1>2, <1>3, <1>4 DEF Init, TypeOK, CallStates

\* What a step makes of the calls.
LEMMA CallsTyped ==
  ASSUME TypeOK, NEW c \in Calls,
         CronCalls(c) \/ ForceCalls(c) \/ Endpoint(c) \/ DeliveryFails(c) \/ CallDies(c)
  PROVE  /\ call' \in [Calls -> CallStates]
         /\ \A e \in Calls : call'[e].pc = "gated" => ~call'[e].forced
<1> DEFINE Goal == /\ call' \in [Calls -> CallStates]
                   /\ \A e \in Calls : call'[e].pc = "gated" => ~call'[e].forced
<1>0. /\ call \in [Calls -> CallStates] /\ day \in Days /\ 0 \in Days
      /\ \A e \in Calls : call[e].pc = "gated" => ~call[e].forced
  BY NumbersAssumption DEF TypeOK, CallStates, Days
<1>i. IdleCall \in CallStates /\ IdleCall.pc = "idle"
  BY <1>0 DEF IdleCall, CallStates
<1>1. CASE CronCalls(c)
  BY <1>0, <1>1 DEF CronCalls, CallStates
<1>2. CASE ForceCalls(c)
  BY <1>0, <1>2 DEF ForceCalls, CallStates
<1>3. CASE Skip(c) \/ Deliver(c) \/ DeliveryFails(c) \/ CallDies(c)
  <2>1. call' = [call EXCEPT ![c] = IdleCall]
    BY <1>3 DEF Skip, Deliver, DeliveryFails, CallDies
  <2>. QED
    BY <1>0, <1>i, <2>1
<1>4. CASE Gate(c)
  BY <1>0, <1>4 DEF Gate, CallStates
<1>5. CASE Bypass(c)
  <2>1. CASE call' = [call EXCEPT ![c] = IdleCall]
    BY <1>0, <1>i, <2>1
  <2>2. CASE call' = [call EXCEPT ![c].pc = "briefing"]
    BY <1>0, <2>2 DEF CallStates
  <2>. QED
    BY <1>5, <2>1, <2>2 DEF Bypass
<1>6. CASE Claim(c)
  BY <1>0, <1>i, <1>6 DEF Claim, CallStates
<1>. QED
  BY <1>1, <1>2, <1>3, <1>4, <1>5, <1>6 DEF Endpoint

LEMMA StepTypeOK == TypeOK /\ [Next]_vars => TypeOK'
<1> SUFFICES ASSUME TypeOK, [Next]_vars PROVE TypeOK'
  OBVIOUS
<1>1. CASE NextMinute
  <2>1. minute' \in Minutes
    BY <1>1, NumbersAssumption DEF NextMinute, TypeOK, Minutes
  <2>2. ticked' \in BOOLEAN
    BY <1>1 DEF NextMinute
  <2>. QED
    BY <1>1, <2>1, <2>2 DEF NextMinute, TypeOK
<1>2. CASE Midnight
  <2>1. minute' \in Minutes /\ day' \in Days
    BY <1>2, NumbersAssumption DEF Midnight, TypeOK, Minutes, Days
  <2>2. ticked' \in BOOLEAN /\ causes' = {} /\ judged' = Unlearned
    BY <1>2 DEF Midnight
  <2>. QED
    BY <1>2, <2>1, <2>2 DEF Midnight, TypeOK
<1>3. ASSUME NEW t \in Minutes, Relearn(t) PROVE TypeOK'
  BY <1>3 DEF Relearn, clockVars, TypeOK
<1>6. CASE Shadow
  BY <1>6 DEF Shadow, clockVars, TypeOK
<1>4. ASSUME NEW c \in Calls,
             CronCalls(c) \/ ForceCalls(c) \/ Endpoint(c) \/ DeliveryFails(c) \/ CallDies(c)
      PROVE  TypeOK'
  <2>1. /\ call' \in [Calls -> CallStates]
        /\ \A e \in Calls : call'[e].pc = "gated" => ~call'[e].forced
    BY <1>4, CallsTyped
  <2>2. call[c].date \in Days
    BY DEF TypeOK
  <2>3. /\ UNCHANGED <<day, minute, typical>>
        /\ causes' \in {causes, causes \cup Met}
        /\ ticked' \in {ticked, TRUE} /\ judged' \in {judged, typical}
        /\ marks' \in {marks, marks \cup {call[c].date}}
        /\ briefs' \in {briefs, [briefs EXCEPT ![call[c].date] = @ + 1]}
        /\ failed' \in {failed, failed \cup {call[c].date}}
        /\ failures' = failures \/ (failures < MaxFailures /\ failures' = failures + 1)
    BY <1>4 DEF CronCalls, ForceCalls, Endpoint, Skip, Gate, Bypass, Claim, Deliver,
                DeliveryFails, CallDies, clockVars
  <2>4. failures' \in 0 .. MaxFailures
    BY <2>3, NumbersAssumption DEF TypeOK
  <2>5. briefs' \in [Days -> Nat]
    BY <2>2, <2>3 DEF TypeOK
  <2>6. causes' \in SUBSET {"blind", "leap"}
    BY <2>3 DEF TypeOK, Met
  <2>. QED
    BY <2>1, <2>2, <2>3, <2>4, <2>5, <2>6 DEF TypeOK, CallStates
<1>5. CASE UNCHANGED vars
  BY <1>5 DEF vars, TypeOK
<1>. QED
  BY <1>1, <1>2, <1>3, <1>4, <1>5, <1>6 DEF Next

(* The model keeps to its types.                                               *)
THEOREM TypeCorrect == Spec => []TypeOK
<1>. QED
  BY InitTypeOK, StepTypeOK, PTL DEF Spec

-------------------------------------------------------------------------------
(* The inductive invariant.  A day's claim is held by one call until its brief *)
(* is out: that call alone may post, and nobody posted before it.              *)

Works(c) == call[c].pc = "briefing" /\ ~call[c].forced
ClaimHeld == \A c \in Calls : Works(c) => call[c].date \in marks /\ briefs[call[c].date] = 0
ClaimUnique == \A c, e \in Calls :
                 Works(c) /\ Works(e) /\ call[c].date = call[e].date => c = e
BriefClaimed == \A d \in Days : briefs[d] # 0 => d \in marks

IInv ==
  /\ TypeOK
  /\ ClaimHeld
  /\ ClaimUnique
  /\ BriefClaimed
  /\ OneBriefADay
  /\ ClaimIsSpentWell

LEMMA InitIInv == Init => IInv
<1> SUFFICES ASSUME Init PROVE IInv
  OBVIOUS
<1>1. TypeOK
  BY InitTypeOK
<1>2. ~ \E c \in Calls : Works(c)
  BY DEF Init, IdleCall, Works
<1>3. marks = {} /\ \A d \in Days : briefs[d] = 0
  BY DEF Init
<1>. QED
  BY <1>1, <1>2, <1>3 DEF IInv, ClaimHeld, ClaimUnique, BriefClaimed, OneBriefADay,
                          ClaimIsSpentWell

\* A step that starts no brief, ends none, and touches neither claims nor briefs.
LEMMA IdleStep ==
  ASSUME IInv, TypeOK', UNCHANGED <<marks, briefs>>, failed \subseteq failed',
         \A c \in Calls : /\ Works(c)' <=> Works(c)
                          /\ Works(c) => call'[c].date = call[c].date
  PROVE  IInv'
<1>1. ClaimHeld' /\ ClaimUnique' /\ BriefClaimed' /\ OneBriefADay'
  BY DEF IInv, ClaimHeld, ClaimUnique, BriefClaimed, OneBriefADay
<1>2. ClaimIsSpentWell'
  BY DEF IInv, ClaimIsSpentWell, Works
<1>. QED
  BY <1>1, <1>2 DEF IInv

LEMMA ClaimStep ==
  ASSUME IInv, TypeOK', NEW c \in Calls, Claim(c)
  PROVE  IInv'
<1> DEFINE d == call[c].date
<1>0. call \in [Calls -> CallStates] /\ d \in Days
  BY DEF IInv, TypeOK, CallStates
<1>1. call[c].pc = "gated" /\ ~call[c].forced /\ UNCHANGED <<briefs, failed>>
  BY DEF Claim, IInv, TypeOK
<1>2. CASE d \in marks
  <2>1. marks' = marks /\ call' = [call EXCEPT ![c] = IdleCall]
    BY <1>2 DEF Claim
  <2>2. \A e \in Calls : (Works(e)' <=> Works(e)) /\ (Works(e) => call'[e].date = call[e].date)
    BY <1>0, <1>1, <2>1 DEF Works, IdleCall, CallStates
  <2>. QED
    BY <1>1, <2>1, <2>2, IdleStep
<1>3. CASE d \notin marks
  <2>1. /\ marks' = marks \cup {d}
        /\ call' = [call EXCEPT ![c] = [call[c] EXCEPT !.pc = "briefing"]]
    BY <1>3 DEF Claim
  <2>2. /\ Works(c)' /\ ~Works(c) /\ call'[c].date = d
        /\ \A e \in Calls \ {c} : call'[e] = call[e] /\ (Works(e)' <=> Works(e))
    BY <1>0, <1>1, <2>1 DEF Works, CallStates
  <2>3. briefs[d] = 0 /\ \A e \in Calls : Works(e) => call[e].date # d
    BY <1>0, <1>3 DEF IInv, BriefClaimed, ClaimHeld
  <2>4. ClaimHeld'
    BY <1>1, <2>1, <2>2, <2>3 DEF IInv, ClaimHeld
  <2>5. ClaimUnique'
    BY <2>2, <2>3 DEF IInv, ClaimUnique
  <2>6. BriefClaimed' /\ OneBriefADay'
    BY <1>1, <2>1 DEF IInv, BriefClaimed, OneBriefADay
  <2>7. ClaimIsSpentWell'
    BY <1>1, <2>1, <2>2 DEF IInv, ClaimIsSpentWell, Works
  <2>. QED
    BY <2>4, <2>5, <2>6, <2>7 DEF IInv
<1>. QED
  BY <1>2, <1>3

LEMMA DeliverStep ==
  ASSUME IInv, TypeOK', NEW c \in Calls, Deliver(c)
  PROVE  IInv'
<1> DEFINE d == call[c].date
<1>0. call \in [Calls -> CallStates] /\ d \in Days /\ briefs \in [Days -> Nat]
  BY DEF IInv, TypeOK, CallStates
<1>1. /\ call[c].pc = "briefing" /\ call' = [call EXCEPT ![c] = IdleCall]
      /\ UNCHANGED <<marks, failed>>
  BY DEF Deliver
<1>2. ~Works(c)' /\ \A e \in Calls \ {c} : call'[e] = call[e] /\ (Works(e)' <=> Works(e))
  BY <1>0, <1>1 DEF Works, IdleCall
<1>3. CASE call[c].forced
  <2>1. briefs' = briefs
    BY <1>3 DEF Deliver
  <2>2. ~Works(c)
    BY <1>3 DEF Works
  <2>. QED
    BY <1>1, <1>2, <2>1, <2>2, IdleStep
<1>4. CASE ~call[c].forced
  <2>1. Works(c) /\ d \in marks /\ briefs[d] = 0
    BY <1>1, <1>4 DEF Works, IInv, ClaimHeld
  <2>2. briefs'[d] = 1 /\ \A x \in Days \ {d} : briefs'[x] = briefs[x]
    BY <1>0, <1>4, <2>1 DEF Deliver
  <2>3. \A e \in Calls \ {c} : Works(e) => call[e].date # d
    BY <2>1 DEF IInv, ClaimUnique
  <2>4. ClaimHeld'
    BY <1>0, <1>1, <1>2, <2>2, <2>3 DEF IInv, ClaimHeld, CallStates
  <2>5. ClaimUnique'
    BY <1>2 DEF IInv, ClaimUnique
  <2>6. BriefClaimed' /\ OneBriefADay'
    BY <1>1, <2>1, <2>2 DEF IInv, BriefClaimed, OneBriefADay
  <2>7. ClaimIsSpentWell'
    BY <1>0, <1>1, <1>2, <2>1, <2>2 DEF IInv, ClaimIsSpentWell, Works, TypeOK
  <2>. QED
    BY <2>4, <2>5, <2>6, <2>7 DEF IInv
<1>. QED
  BY <1>3, <1>4

\* Slack refuses, or the call is cut off: its day is booked as a failure.
LEMMA FailStep ==
  ASSUME IInv, TypeOK', NEW c \in Calls, DeliveryFails(c) \/ CallDies(c)
  PROVE  IInv'
<1>0. call \in [Calls -> CallStates]
  BY DEF IInv, TypeOK, CallStates
<1>1. /\ call' = [call EXCEPT ![c] = IdleCall] /\ failed' = failed \cup {call[c].date}
      /\ UNCHANGED <<marks, briefs>>
  BY DEF DeliveryFails, CallDies
<1>2. ~Works(c)' /\ \A e \in Calls \ {c} : call'[e] = call[e] /\ (Works(e)' <=> Works(e))
  BY <1>0, <1>1 DEF Works, IdleCall
<1>3. ClaimHeld' /\ ClaimUnique' /\ BriefClaimed' /\ OneBriefADay'
  BY <1>1, <1>2 DEF IInv, ClaimHeld, ClaimUnique, BriefClaimed, OneBriefADay
<1>4. ClaimIsSpentWell'
  BY <1>1, <1>2 DEF IInv, ClaimIsSpentWell, Works
<1>. QED
  BY <1>3, <1>4 DEF IInv

LEMMA StepIInv == IInv /\ [Next]_vars => IInv'
<1> SUFFICES ASSUME IInv, [Next]_vars PROVE IInv'
  OBVIOUS
<1>0. TypeOK' /\ call \in [Calls -> CallStates]
  BY StepTypeOK DEF IInv, TypeOK, CallStates
<1> DEFINE Quiet == \A c \in Calls : /\ Works(c)' <=> Works(c)
                                     /\ Works(c) => call'[c].date = call[c].date
<1>1. CASE NextMinute \/ Midnight \/ (\E t \in Minutes : Relearn(t)) \/ Shadow \/ UNCHANGED vars
  <2>1. UNCHANGED <<call, marks, briefs, failed>>
    BY <1>1 DEF NextMinute, Midnight, Relearn, Shadow, vars
  <2>2. Quiet
    BY <2>1 DEF Works
  <2>. QED
    BY <1>0, <2>1, <2>2, IdleStep
<1>2. ASSUME NEW c \in Calls, CronCalls(c) \/ ForceCalls(c) \/ Skip(c) \/ Gate(c) \/ Bypass(c)
      PROVE  IInv'
  <2>1. UNCHANGED <<marks, briefs, failed>>
    BY <1>2 DEF CronCalls, ForceCalls, Skip, Gate, Bypass
  <2>2. ~Works(c) /\ ~Works(c)' /\ \A e \in Calls \ {c} : call'[e] = call[e]
    BY <1>0, <1>2 DEF CronCalls, ForceCalls, Skip, Gate, Bypass, Works, IdleCall, CallStates
  <2>3. Quiet
    BY <2>2 DEF Works
  <2>. QED
    BY <1>0, <2>1, <2>3, IdleStep
<1>3. ASSUME NEW c \in Calls, Claim(c) PROVE IInv'
  BY <1>0, <1>3, ClaimStep
<1>4. ASSUME NEW c \in Calls, Deliver(c) PROVE IInv'
  BY <1>0, <1>4, DeliverStep
<1>5. ASSUME NEW c \in Calls, DeliveryFails(c) \/ CallDies(c) PROVE IInv'
  BY <1>0, <1>5, FailStep
<1>. QED
  BY <1>1, <1>2, <1>3, <1>4, <1>5 DEF Next, Endpoint

(* The conjunction above holds in every reachable state.                       *)
THEOREM Inductive == Spec => []IInv
<1>. QED
  BY InitIInv, StepIInv, PTL DEF Spec

(* At most one unforced brief a day, for every schedule of overlapping, dying  *)
(* and repeated calls: the claim in agent_marks is what makes it so.           *)
THEOREM AtMostOneBrief == Spec => []OneBriefADay
<1>1. IInv => OneBriefADay
  BY DEF IInv
<1>. QED
  BY <1>1, Inductive, PTL

(* A claimed day has its brief, a call at work on it, or a failure to show.    *)
THEOREM ClaimNeverWasted == Spec => []ClaimIsSpentWell
<1>1. IInv => ClaimIsSpentWell
  BY DEF IInv
<1>. QED
  BY <1>1, Inductive, PTL
-------------------------------------------------------------------------------
(* Ticks of the scheduler: what the proof of the window needs of division.     *)

LEMMA Distribute == \A n, p, q \in Int : n * (p - q) = n * p - n * q
OBVIOUS

LEMMA MultipleAbove == \A n \in Nat \ {0}, k \in Int : k >= 1 => n * k >= n
OBVIOUS

LEMMA MultipleBelow == \A n \in Nat \ {0}, k \in Int : k <= -1 => n * k <= -n
OBVIOUS

LEMMA Division ==
  \A n \in Nat \ {0}, m \in Nat :
     m = n * (m \div n) + (m % n) /\ m % n \in 0 .. n - 1 /\ m \div n \in Nat
OBVIOUS

LEMMA RemainderUnique ==
  ASSUME NEW n \in Nat \ {0}, NEW p \in Int, NEW q \in Int,
         NEW r \in 0 .. n - 1, NEW s \in 0 .. n - 1, n * p + r = n * q + s
  PROVE  r = s
<1>1. n * (p - q) = n * p - n * q /\ n * p \in Int /\ n * q \in Int
  BY Distribute
<1>2. n * (p - q) = s - r
  BY <1>1
<1>3. /\ p - q >= 1 => n * (p - q) >= n
      /\ p - q <= -1 => n * (p - q) <= -n
  BY MultipleAbove, MultipleBelow
<1>4. p - q = 0 => n * (p - q) = 0
  OBVIOUS
<1>5. p - q >= 1 \/ p - q <= -1 \/ p - q = 0
  OBVIOUS
<1>. QED
  BY <1>2, <1>3, <1>4, <1>5

\* A minute that is a multiple away from 0 has remainder 0.
LEMMA NoRemainder ==
  ASSUME NEW n \in Nat \ {0}, NEW k \in Nat, NEW q \in Int, k = n * q
  PROVE  k % n = 0
<1>1. k = n * (k \div n) + (k % n) /\ k % n \in 0 .. n - 1 /\ k \div n \in Nat
  BY Division
<1>2. 0 \in 0 .. n - 1 /\ k = n * q + 0
  OBVIOUS
<1>. QED
  BY <1>1, <1>2, RemainderUnique

\* A tick is the first of its day, or has one CronEvery before it.
LEMMA TickBack ==
  ASSUME NEW m \in Nat, IsTick(m)
  PROVE  m = 0 \/ (m - CronEvery \in Nat /\ IsTick(m - CronEvery))
<1>0. CronEvery \in Nat \ {0}
  BY NumbersAssumption
<1>1. m = CronEvery * (m \div CronEvery) /\ m \div CronEvery \in Nat
  BY <1>0, Division DEF IsTick
<1>2. CASE m \div CronEvery = 0
  BY <1>0, <1>1, <1>2
<1>3. CASE m \div CronEvery >= 1
  <2> DEFINE q == m \div CronEvery
  <2>1. m - CronEvery = CronEvery * (q - 1)
    BY <1>0, <1>1, Distribute
  <2>2. m >= CronEvery
    BY <1>0, <1>1, <1>3, MultipleAbove
  <2>3. m - CronEvery \in Nat /\ q - 1 \in Int
    BY <1>0, <1>1, <2>2
  <2> HIDE DEF q
  <2>4. (m - CronEvery) % CronEvery = 0
    BY <1>0, <2>1, <2>3, NoRemainder
  <2>. QED
    BY <2>3, <2>4 DEF IsTick
<1>. QED
  BY <1>1, <1>2, <1>3

\* No stretch of CronEvery minutes is without a tick.
LEMMA TickBefore ==
  ASSUME NEW m \in Nat
  PROVE  \E k \in 0 .. m : IsTick(k) /\ m - k < CronEvery
<1>0. CronEvery \in Nat \ {0}
  BY NumbersAssumption
<1> DEFINE k == m - (m % CronEvery)
           q == m \div CronEvery
<1>1. /\ m = CronEvery * (m \div CronEvery) + (m % CronEvery)
      /\ m % CronEvery \in 0 .. CronEvery - 1 /\ m \div CronEvery \in Nat
  BY <1>0, Division
<1>2. CronEvery * (m \div CronEvery) \in Nat
  BY <1>0, <1>1
<1>3. k \in 0 .. m /\ k = CronEvery * (m \div CronEvery) /\ m - k < CronEvery
  BY <1>0, <1>1, <1>2
<1>4. k \in Nat /\ q \in Int /\ k = CronEvery * q
  BY <1>1, <1>3
<1> HIDE DEF k, q
<1>5. k % CronEvery = 0
  BY <1>0, <1>4, NoRemainder
<1>. QED
  BY <1>3, <1>5 DEF IsTick

-------------------------------------------------------------------------------
(* A learned day is not missed but by a cause.  While the day is unclaimed and *)
(* has met none, every tick judged lies before the window of the time it was   *)
(* last judged by; the next tick cannot lie after the window of a time that    *)
(* fell back by no more than Slack since, and the last tick of the day cannot  *)
(* lie before any window at all.                                               *)

CalledToday == \A c \in Calls : call[c].pc = "called" /\ ~call[c].forced
                                  => call[c].date = day /\ IsTick(minute)
GatedToday == \E c \in Calls : call[c].pc = "gated" /\ call[c].date = day
Missed == causes = {} /\ day \notin marks /\ day \notin failed /\ ~GatedToday
TicksBehind ==
  Missed => \A k \in 0 .. minute : IsTick(k) /\ (k < minute \/ MinuteDone) => k < Earliest(judged)

DayInv == TypeOK /\ CalledToday /\ TicksBehind

\* The tick at hand is never past the window of a time that has not leapt.
LEMMA NotPastWindow ==
  ASSUME DayInv, Missed, IsTick(minute), Met = {}
  PROVE  typical \in Minutes /\ minute <= Latest(typical)
<1>0. /\ minute \in Minutes /\ judged \in Minutes \cup {Unlearned}
      /\ CronEvery \in Nat \ {0} /\ Lead \in Nat /\ Grace \in Nat
      /\ DayLength \in Nat \ {0}
  BY NumbersAssumption DEF DayInv, TypeOK
<1>1. "blind" \notin Met /\ "leap" \notin Met
  OBVIOUS
<1>2. typical \in Minutes
  BY <1>1 DEF DayInv, TypeOK, Met
<1>3. judged # Unlearned => ~(judged - typical > Slack)
  BY <1>1 DEF Met
<1>4. CASE minute = 0
  BY <1>0, <1>2, <1>4 DEF Latest, Minutes
<1>5. CASE minute # 0
  <2> DEFINE k == minute - CronEvery
  <2>1. k \in Nat /\ IsTick(k) /\ k < minute
    BY <1>0, <1>5, TickBack DEF Minutes
  <2>2. k < Earliest(judged)
    BY <1>0, <2>1 DEF DayInv, TicksBehind, Minutes
  <2>3. judged # Unlearned /\ judged - Lead > k
    BY <1>0, <2>1, <2>2 DEF Earliest, Unlearned, Minutes
  <2>4. judged - typical <= Lead + Grace + 1 - CronEvery
    BY <1>0, <1>2, <1>3, <2>3 DEF Slack, Minutes, Unlearned
  <2>. QED
    BY <1>0, <1>2, <2>3, <2>4 DEF Latest, Minutes, Unlearned
<1>. QED
  BY <1>2, <1>4, <1>5

LEMMA InitDayInv == Init => DayInv
<1> SUFFICES ASSUME Init PROVE DayInv
  OBVIOUS
<1>1. TypeOK
  BY InitTypeOK
<1>3. CalledToday
  BY DEF Init, IdleCall, CalledToday
<1>4. \A k \in 0 .. minute : ~(k < minute) /\ (IsTick(k) => ~MinuteDone)
  BY NumbersAssumption DEF Init, MinuteDone, IsTick
<1>. QED
  BY <1>1, <1>3, <1>4 DEF DayInv, TicksBehind

\* A step that leaves the clock and the verdict alone, and makes neither the day
\* missed nor the minute done.
LEMMA QuietDay ==
  ASSUME DayInv, TypeOK', CalledToday', UNCHANGED <<day, minute, judged>>,
         Missed' => Missed, Missed' /\ MinuteDone' => MinuteDone
  PROVE  DayInv'
<1>1. TicksBehind'
  BY DEF DayInv, TicksBehind, Earliest
<1>. QED
  BY <1>1 DEF DayInv

LEMMA ClockSteps ==
  ASSUME DayInv, TypeOK', NextMinute \/ Midnight
  PROVE  DayInv'
<1>0. /\ minute \in Minutes /\ DayLength \in Nat \ {0}
      /\ UNCHANGED <<typical, call, marks, failed>>
  BY NumbersAssumption DEF DayInv, TypeOK, NextMinute, Midnight
<1>1. MinuteDone
  BY DEF NextMinute, Midnight
<1>2. CalledToday'
  BY <1>0, <1>1 DEF MinuteDone, CalledToday
<1>3. CASE NextMinute
  <2>1. /\ minute' = minute + 1 /\ UNCHANGED <<day, judged, causes>> /\ ticked' = FALSE
        /\ Missed' => Missed
    BY <1>0, <1>3 DEF NextMinute, Missed, GatedToday
  <2>3. ASSUME Missed', NEW k \in 0 .. minute', IsTick(k), k < minute' \/ MinuteDone'
        PROVE  k < Earliest(judged)
    <3>1. k \in 0 .. minute
      BY <1>0, <2>1, <2>3 DEF MinuteDone, Minutes
    <3>. QED
      BY <1>1, <2>1, <2>3, <3>1 DEF DayInv, TicksBehind
  <2>4. TicksBehind'
    BY <1>0, <2>1, <2>3 DEF TicksBehind, IsTick, Earliest
  <2>. QED
    BY <1>2, <2>4 DEF DayInv
<1>4. CASE Midnight
  <2>1. minute' = 0 /\ ticked' = FALSE
    BY <1>4 DEF Midnight
  <2>2. \A k \in 0 .. minute' : ~(k < minute') /\ (IsTick(k) => ~MinuteDone')
    BY <2>1 DEF MinuteDone, IsTick
  <2>3. TicksBehind'
    BY <2>2 DEF TicksBehind, IsTick
  <2>. QED
    BY <1>2, <2>3 DEF DayInv
<1>. QED
  BY <1>3, <1>4

\* A scan that moves the time, or a routine that hides it, alters no verdict.
LEMMA TimeMoves ==
  ASSUME DayInv, TypeOK', (\E t \in Minutes : Relearn(t)) \/ Shadow
  PROVE  DayInv'
<1>1. UNCHANGED <<day, minute, ticked, call, marks, judged, causes, failed>>
  BY DEF Relearn, Shadow, clockVars
<1>2. CalledToday' /\ (Missed' => Missed) /\ (MinuteDone' => MinuteDone)
  BY <1>1 DEF DayInv, CalledToday, Missed, GatedToday, MinuteDone, IsTick
<1>. QED
  BY <1>1, <1>2, QuietDay

LEMMA SkipStep ==
  ASSUME DayInv, TypeOK', NEW c \in Calls, Skip(c)
  PROVE  DayInv'
<1>0. /\ call \in [Calls -> CallStates] /\ typical \in Minutes \cup {Unlearned}
      /\ minute \in Minutes
  BY DEF DayInv, TypeOK, CallStates
<1>1. /\ judged' = typical /\ causes' = causes \cup Met /\ call' = [call EXCEPT ![c] = IdleCall]
      /\ UNCHANGED <<day, minute, ticked, typical, marks, failed>>
      /\ call[c].pc = "called" /\ ~InWindow(typical, minute)
  BY DEF Skip, clockVars
<1>2. CalledToday'
  BY <1>0, <1>1 DEF DayInv, CalledToday, IdleCall
<1>3. ASSUME Missed', NEW k \in 0 .. minute, IsTick(k), k < minute \/ MinuteDone'
      PROVE  k < Earliest(typical)
  <2>1. Missed /\ Met = {}
    BY <1>0, <1>1, <1>3 DEF Missed, GatedToday
  <2>3. IsTick(minute)
    BY <1>1 DEF DayInv, CalledToday, Skip
  <2>2. typical \in Minutes /\ minute <= Latest(typical)
    BY <2>1, <2>3, NotPastWindow
  <2>4. ~(Earliest(typical) <= minute)
    BY <1>1, <2>2 DEF InWindow, Minutes, Unlearned
  <2>5. Earliest(typical) \in Int /\ minute \in Int
    BY <1>0, <2>2, NumbersAssumption DEF Earliest, Minutes
  <2>. QED
    BY <1>3, <2>4, <2>5
<1>4. TicksBehind'
  BY <1>1, <1>3 DEF TicksBehind, IsTick, Earliest
<1>. QED
  BY <1>2, <1>4 DEF DayInv

LEMMA OtherCallSteps ==
  ASSUME DayInv, TypeOK', NEW c \in Calls,
         \/ CronCalls(c) \/ ForceCalls(c) \/ Gate(c) \/ Bypass(c)
         \/ Claim(c) \/ Deliver(c) \/ DeliveryFails(c) \/ CallDies(c)
  PROVE  DayInv'
<1>0. call \in [Calls -> CallStates] /\ CalledToday
  BY DEF DayInv, TypeOK, CallStates
<1>1. UNCHANGED <<day, minute, judged, causes>> /\ marks \subseteq marks'
      /\ failed \subseteq failed'
  BY DEF CronCalls, ForceCalls, Gate, Bypass, Claim, Deliver, DeliveryFails, CallDies, clockVars
<1>2. \A e \in Calls \ {c} : call'[e] = call[e]
  BY <1>0 DEF CronCalls, ForceCalls, Gate, Bypass, Claim, Deliver, DeliveryFails, CallDies
<1>3. CASE CronCalls(c)
  <2>1. /\ IsTick(minute) /\ call[c].pc = "idle"
        /\ call'[c].pc = "called" /\ ~call'[c].forced /\ call'[c].date = day
    BY <1>0, <1>3 DEF CronCalls
  <2>2. CalledToday' /\ ~MinuteDone'
    BY <1>0, <1>1, <1>2, <2>1 DEF CalledToday, MinuteDone, IsTick
  <2>3. Missed' => Missed
    BY <1>1, <1>2, <2>1 DEF Missed, GatedToday
  <2>. QED
    BY <1>1, <2>2, <2>3, QuietDay
<1>4. CASE ForceCalls(c) \/ Bypass(c) \/ Deliver(c) \/ DeliveryFails(c)
  <2>1. /\ call[c].pc \in {"idle", "called", "briefing"}
        /\ call[c].pc = "called" => call[c].forced
        /\ call'[c].pc \in {"idle", "called", "briefing"}
        /\ call'[c].pc = "called" => call'[c].forced
        /\ ticked' = ticked
    <3>1. CASE ForceCalls(c)
      BY <1>0, <3>1 DEF ForceCalls, clockVars
    <3>2. CASE Bypass(c)
      <4>1. CASE call' = [call EXCEPT ![c] = IdleCall]
        BY <1>0, <3>2, <4>1 DEF Bypass, IdleCall, clockVars
      <4>2. CASE call' = [call EXCEPT ![c].pc = "briefing"]
        BY <1>0, <3>2, <4>2 DEF Bypass, clockVars, CallStates
      <4>. QED
        BY <3>2, <4>1, <4>2 DEF Bypass
    <3>3. CASE Deliver(c) \/ DeliveryFails(c)
      BY <1>0, <3>3 DEF Deliver, DeliveryFails, IdleCall, clockVars
    <3>. QED
      BY <1>4, <3>1, <3>2, <3>3
  <2>2. CalledToday'
    BY <1>0, <1>1, <1>2, <2>1 DEF CalledToday, IsTick
  <2>3. Missed' => Missed
    BY <1>1, <1>2, <2>1 DEF Missed, GatedToday
  <2>4. MinuteDone' => MinuteDone
    BY <1>1, <1>2, <2>1 DEF MinuteDone, IsTick
  <2>. QED
    BY <1>1, <2>2, <2>3, <2>4, QuietDay
<1>5. CASE Gate(c)
  <2>1. call'[c].pc = "gated" /\ call'[c].date = day
    BY <1>0, <1>5 DEF Gate, CallStates
  <2>2. ~Missed'
    BY <1>1, <2>1 DEF Missed, GatedToday
  <2>3. CalledToday'
    BY <1>0, <1>1, <1>2, <2>1 DEF CalledToday, IsTick
  <2>. QED
    BY <1>1, <2>2, <2>3, QuietDay
<1>6. CASE Claim(c)
  <2>1. /\ call[c].pc = "gated" /\ call[c].date \in marks' /\ ticked' = ticked
        /\ call'[c].pc \in {"idle", "briefing"}
    BY <1>0, <1>6 DEF Claim, IdleCall, clockVars, CallStates
  <2>2. CalledToday'
    BY <1>0, <1>1, <1>2, <2>1 DEF CalledToday, IsTick
  <2>3. Missed' => Missed
    BY <1>1, <1>2, <2>1 DEF Missed, GatedToday
  <2>4. MinuteDone' => MinuteDone
    BY <1>1, <1>2, <2>1 DEF MinuteDone, IsTick
  <2>. QED
    BY <1>1, <2>2, <2>3, <2>4, QuietDay
<1>7. CASE CallDies(c)
  <2>1. call[c].date \in failed' /\ ticked' = ticked /\ call'[c].pc = "idle"
    BY <1>0, <1>7 DEF CallDies, IdleCall, clockVars
  <2>2. CalledToday'
    BY <1>0, <1>1, <1>2, <2>1 DEF CalledToday, IsTick
  <2>3. Missed' => Missed
    BY <1>1, <1>2, <2>1 DEF Missed, GatedToday
  <2>4. Missed' /\ MinuteDone' => MinuteDone
    BY <1>0, <1>1, <1>2, <2>1 DEF MinuteDone, IsTick, Missed, CalledToday
  <2>. QED
    BY <1>1, <2>2, <2>3, <2>4, QuietDay
<1>. QED
  BY <1>3, <1>4, <1>5, <1>6, <1>7

LEMMA StepDayInv == DayInv /\ [Next]_vars => DayInv'
<1> SUFFICES ASSUME DayInv, [Next]_vars PROVE DayInv'
  OBVIOUS
<1>0. TypeOK'
  BY StepTypeOK DEF DayInv
<1>1. CASE NextMinute \/ Midnight
  BY <1>0, <1>1, ClockSteps
<1>2. CASE (\E t \in Minutes : Relearn(t)) \/ Shadow
  BY <1>0, <1>2, TimeMoves
<1>3. ASSUME NEW c \in Calls, Skip(c) PROVE DayInv'
  BY <1>0, <1>3, SkipStep
<1>4. ASSUME NEW c \in Calls,
             \/ CronCalls(c) \/ ForceCalls(c) \/ Gate(c) \/ Bypass(c)
             \/ Claim(c) \/ Deliver(c) \/ DeliveryFails(c) \/ CallDies(c)
      PROVE  DayInv'
  BY <1>0, <1>4, OtherCallSteps
<1>5. CASE UNCHANGED vars
  <2>1. UNCHANGED <<day, minute, judged, causes, ticked, call, marks, failed>>
    BY <1>5 DEF vars
  <2>2. CalledToday' /\ (Missed' => Missed) /\ (MinuteDone' => MinuteDone)
    BY <2>1 DEF DayInv, CalledToday, Missed, GatedToday, MinuteDone, IsTick
  <2>. QED
    BY <1>0, <2>1, <2>2, QuietDay
<1>. QED
  BY <1>1, <1>2, <1>3, <1>4, <1>5 DEF Next, Endpoint

LEMMA LastTickIsBefore == DayInv => LearnedDayIsBriefed
<1> SUFFICES ASSUME DayInv, minute = DayLength - 1, MinuteDone, causes = {}, day \notin failed,
                    \A c \in Calls : call[c].pc # "gated", day \notin marks
             PROVE  FALSE
  BY DEF LearnedDayIsBriefed
<1>0. /\ minute \in Nat /\ judged \in Minutes \cup {Unlearned}
      /\ DayLength \in Nat \ {0} /\ Lead \in Nat /\ CronEvery \in Nat
  BY NumbersAssumption DEF DayInv, TypeOK, Minutes
<1>1. Missed
  BY DEF Missed, GatedToday
<1>2. PICK k \in 0 .. minute : IsTick(k) /\ minute - k < CronEvery
  BY <1>0, TickBefore
<1>3. k < Earliest(judged)
  <2>1. k < minute \/ MinuteDone
    OBVIOUS
  <2>. QED
    BY <1>1, <1>2, <2>1 DEF DayInv, TicksBehind
<1>4. k < judged - Lead /\ judged <= DayLength - 1
  BY <1>0, <1>2, <1>3 DEF Earliest, Unlearned, Minutes
<1>5. k \in Int /\ judged \in Int
  BY <1>0, <1>2 DEF Minutes, Unlearned
<1>6. k < DayLength - 1 - Lead
  BY <1>0, <1>4, <1>5
<1>7. DayLength - 1 - k < Lead + 1
  BY <1>0, <1>2, <1>5, CadenceAssumption
<1>. QED
  BY <1>0, <1>5, <1>6, <1>7

(* A day on which no call and no post failed is claimed by its end, unless a    *)
(* tick found no departure time or the time fell back by more than Slack       *)
(* between two ticks: a tick every CronEvery minutes finds the window, whenever *)
(* it is and however the time moves but for that (main.py:386-393).            *)
THEOREM LearnedDayNotMissed == Spec => []LearnedDayIsBriefed
<1>. QED
  BY InitDayInv, StepDayInv, LastTickIsBefore, PTL DEF Spec
===============================================================================
