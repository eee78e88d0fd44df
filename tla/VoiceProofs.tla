------------------------------ MODULE VoiceProofs ------------------------------
(***************************************************************************)
(* Who has the floor, for every bound: the promises of Voice are proved in  *)
(* every reachable state, whatever the order of clicks, timers, engine      *)
(* events, answers and permission prompts.                                  *)
(*                                                                         *)
(* A handler of Voice is an operator that takes a World and returns one.    *)
(* First what each returns, then what each step keeps.                      *)
(***************************************************************************)
EXTENDS Voice, TLAPS

Mics == [owner : {"none", "ear", "wake"},
         state : {"free", "starting", "running", "stopping", "ending", "faulted"},
         orphan : BOOLEAN]
Ears == [wanted : BOOLEAN, listening : BOOLEAN, announced : BOOLEAN, delivered : BOOLEAN,
         restarts : 0 .. MaxRestarts, partial : BOOLEAN,
         current : {"none", "held", "gone"}, startTimer : BOOLEAN, deadline : BOOLEAN,
         granted : BOOLEAN, onlyEnd : BOOLEAN, asks : [{"mic", "wake"} -> 0 .. MaxAsks]]
Standbys == [enabled : BOOLEAN, suspended : BOOLEAN, current : {"none", "held"},
             failures : 0 .. MaxFailures, retry : BOOLEAN, stray : 0 .. MaxStrays]
Pages == [turn : {"idle", "asking", "replied"}, resume : BOOLEAN,
          speech : {"none", "reply", "narration"}, due : BOOLEAN]
Worlds == [mic : Mics, ear : Ears, standby : Standbys, page : Pages, handed : 0 .. 2]

\* What an abort leaves of an engine.
Aborted(m, handle) ==
  IF handle = "held" /\ m.state # "faulted" THEN [m EXCEPT !.state = "ending"] ELSE m

\* Standby stood down, or it was down or off already.
StandsDown(w, v) ==
    \/ v.mic = w.mic /\ v.standby = w.standby
    \/ /\ w.standby.enabled
       /\ v.mic = Aborted(w.mic, w.standby.current)
       /\ v.standby = [w.standby EXCEPT !.suspended = TRUE, !.retry = FALSE,
                                        !.current = "none"]

-----------------------------------------------------------------------------
(* The inductive invariant.                                                *)

\* Only the engine that is held has a state, and only its owner a live handle on it.
Handles(m, e, s) ==
    /\ m.owner = "none" <=> m = Free
    /\ m.owner = "none" <=> m.state = "free"
    /\ e.current = "held" => m.owner = "ear"
    /\ s.current = "held" => m.owner = "wake"

Followed(m, e, s) ==
    Live(m) => \/ m.orphan
               \/ m.owner = "ear" /\ e.current = "held"
               \/ m.owner = "wake" /\ s.current = "held"

Alive(m, s) ==
    s.enabled /\ ~s.suspended => m.owner = "wake" \/ s.retry \/ s.stray > 0

\* Once its words were handed over, an engine of the Listener is mute, and no word of
\* it waits.
Once(m, e, h) ==
    /\ h <= 1
    /\ h = 1 => /\ ~Pending(e)
                /\ m.owner = "ear" => m.state \in {"ending", "faulted"}

\* A listen that goes on has its deadline, its announcement and its engine's handle.
Followable(m, e) ==
    /\ e.wanted => e.deadline /\ e.announced
    /\ e.wanted /\ m.owner = "ear" => e.current = "held"

\* An engine that may still bring words brings them to a listen that goes on, or to one
\* that waits for its onend; the watchdog of the start is off before the first word.
Awaited(m, e) ==
    /\ m.owner = "ear" /\ m.state \in {"starting", "running", "stopping"} =>
          e.delivered \/ e.wanted \/ e.onlyEnd
    /\ Pending(e) => e.wanted \/ e.onlyEnd
    /\ e.startTimer => /\ ~Pending(e)
                       /\ m.owner = "ear" => m.state \notin {"running", "stopping"}

Owed(e, s, p) ==
    s.enabled /\ s.suspended =>
        \/ p.resume
        \/ p.turn # "idle"
        \/ e.wanted
        \/ \E by \in {"mic", "wake"} : e.asks[by] > 0
        \/ p.speech = "narration" \/ p.due

Whole(w) ==
    /\ w \in Worlds
    /\ Handles(w.mic, w.ear, w.standby)
    /\ Followed(w.mic, w.ear, w.standby)
    /\ Once(w.mic, w.ear, w.handed)
    /\ Followable(w.mic, w.ear)
    /\ Awaited(w.mic, w.ear)

\* All but the debt: what every handler keeps, alone or inside another.
Sound(w) == Whole(w) /\ Alive(w.mic, w.standby)

IInv == Sound(World) /\ Owed(ear, standby, page)

-----------------------------------------------------------------------------
(* The engine, the floor and the voice.                                    *)

LEMMA Parts ==
  ASSUME NEW w \in Worlds
  PROVE  /\ w.mic \in Mics /\ w.ear \in Ears /\ w.standby \in Standbys /\ w.page \in Pages
         /\ w.handed \in 0 .. 2
         /\ w.mic.owner \in {"none", "ear", "wake"} /\ w.mic.orphan \in BOOLEAN
BY DEF Worlds, Mics

LEMMA ResumeWakeFx ==
  ASSUME NEW w \in Worlds
  PROVE  LET v == ResumeWake(w) IN
         /\ v \in Worlds /\ v.mic = w.mic /\ v.ear = w.ear /\ v.standby = w.standby
         /\ v.handed = w.handed
         /\ v.page = IF w.standby.enabled THEN [w.page EXCEPT !.resume = TRUE] ELSE w.page
BY DEF ResumeWake, Worlds, Pages, Standbys

LEMMA SetStateFx ==
  ASSUME NEW w \in Worlds, NEW active \in BOOLEAN
  PROVE  LET v == SetState(w, active)
             over == w.ear.announced /\ ~active /\ ~Busy(w)
         IN  /\ v \in Worlds /\ v.mic = w.mic /\ v.standby = w.standby /\ v.handed = w.handed
             /\ v.ear = [w.ear EXCEPT !.announced = active]
             /\ v.page = IF over /\ w.standby.enabled
                         THEN [w.page EXCEPT !.resume = TRUE] ELSE w.page
<1> DEFINE told == [w EXCEPT !.ear.announced = active]
<1>1. /\ told \in Worlds /\ told.mic = w.mic /\ told.standby = w.standby
      /\ told.handed = w.handed /\ told.page = w.page
      /\ told.ear = [w.ear EXCEPT !.announced = active]
  BY DEF Worlds, Ears
<1>2. w.ear.announced \in BOOLEAN /\ w.page \in Pages
  BY DEF Worlds, Ears
<1>3. SetState(w, active) = IF w.ear.announced # active /\ ~active /\ ~Busy(w)
                            THEN ResumeWake(told) ELSE told
  BY DEF SetState
<1> HIDE DEF told
<1>4. CASE w.ear.announced /\ ~active /\ ~Busy(w)
  <2> DEFINE r == ResumeWake(told)
  <2>1. /\ r \in Worlds /\ r.mic = told.mic /\ r.ear = told.ear /\ r.standby = told.standby
        /\ r.handed = told.handed
        /\ r.page = IF told.standby.enabled THEN [told.page EXCEPT !.resume = TRUE]
                                            ELSE told.page
    BY <1>1, ResumeWakeFx
  <2>2. SetState(w, active) = r
    BY <1>2, <1>3, <1>4
  <2> HIDE DEF r
  <2>. QED
    BY <1>1, <1>4, <2>1, <2>2
<1>5. CASE ~(w.ear.announced /\ ~active /\ ~Busy(w))
  BY <1>1, <1>2, <1>3, <1>5 DEF Pages
<1>. QED
  BY <1>4, <1>5

LEMMA AbortFx ==
  ASSUME NEW w \in Worlds, NEW handle
  PROVE  LET v == Abort(w, handle) IN
         /\ v \in Worlds /\ v.ear = w.ear /\ v.standby = w.standby /\ v.page = w.page
         /\ v.handed = w.handed /\ v.mic = Aborted(w.mic, handle)
BY DEF Abort, Aborted, Worlds, Mics

LEMMA SuspendFx ==
  ASSUME NEW w \in Worlds
  PROVE  LET v == Suspend(w)
             up == w.standby.enabled /\ ~w.standby.suspended
         IN  /\ v \in Worlds /\ v.ear = w.ear /\ v.page = w.page /\ v.handed = w.handed
             /\ ~up => v.mic = w.mic /\ v.standby = w.standby
             /\ up => /\ v.mic = Aborted(w.mic, w.standby.current)
                      /\ v.standby = [w.standby EXCEPT !.suspended = TRUE, !.retry = FALSE,
                                                       !.current = "none"]
<1> DEFINE a == Abort(w, w.standby.current)
<1>1. /\ a \in Worlds /\ a.ear = w.ear /\ a.standby = w.standby /\ a.page = w.page
      /\ a.handed = w.handed /\ a.mic = Aborted(w.mic, w.standby.current)
  BY AbortFx
<1> DEFINE t == [a EXCEPT !.standby.current = "none"]
           s == [t EXCEPT !.standby.suspended = TRUE, !.standby.retry = FALSE]
<1>2. Suspend(w) = IF ~w.standby.enabled \/ w.standby.suspended THEN w ELSE s
  BY DEF Suspend, Teardown
<1> HIDE DEF a
<1>3. /\ t \in Worlds /\ t.ear = w.ear /\ t.page = w.page /\ t.handed = w.handed
      /\ t.mic = a.mic /\ t.standby = [w.standby EXCEPT !.current = "none"]
  BY <1>1 DEF Worlds, Standbys
<1> HIDE DEF t
<1>4. /\ s \in Worlds /\ s.ear = w.ear /\ s.page = w.page /\ s.handed = w.handed
      /\ s.mic = a.mic /\ s.standby = [t.standby EXCEPT !.suspended = TRUE, !.retry = FALSE]
  BY <1>3 DEF Worlds, Standbys
<1>5. s.standby = [w.standby EXCEPT !.suspended = TRUE, !.retry = FALSE, !.current = "none"]
  BY <1>3, <1>4 DEF Worlds, Standbys
<1> HIDE DEF s
<1>. QED
  BY <1>1, <1>2, <1>4, <1>5

LEMMA DisableFx ==
  ASSUME NEW w \in Worlds
  PROVE  LET v == Disable(w) IN
         /\ v \in Worlds /\ v.ear = w.ear /\ v.page = w.page /\ v.handed = w.handed
         /\ v.mic = Aborted(w.mic, w.standby.current)
         /\ v.standby = [w.standby EXCEPT !.enabled = FALSE, !.retry = FALSE,
                                          !.current = "none"]
<1> DEFINE a == Abort(w, w.standby.current)
<1>1. /\ a \in Worlds /\ a.ear = w.ear /\ a.standby = w.standby /\ a.page = w.page
      /\ a.handed = w.handed /\ a.mic = Aborted(w.mic, w.standby.current)
  BY AbortFx
<1> DEFINE t == [a EXCEPT !.standby.current = "none"]
           s == [t EXCEPT !.standby.enabled = FALSE, !.standby.retry = FALSE]
<1>2. Disable(w) = s
  BY DEF Disable, Teardown
<1> HIDE DEF a
<1>3. /\ t \in Worlds /\ t.ear = w.ear /\ t.page = w.page /\ t.handed = w.handed
      /\ t.mic = a.mic /\ t.standby = [w.standby EXCEPT !.current = "none"]
  BY <1>1 DEF Worlds, Standbys
<1> HIDE DEF t
<1>4. /\ s \in Worlds /\ s.ear = w.ear /\ s.page = w.page /\ s.handed = w.handed
      /\ s.mic = a.mic /\ s.standby = [t.standby EXCEPT !.enabled = FALSE, !.retry = FALSE]
  BY <1>3 DEF Worlds, Standbys
<1>5. s.standby = [w.standby EXCEPT !.enabled = FALSE, !.retry = FALSE, !.current = "none"]
  BY <1>3, <1>4 DEF Worlds, Standbys
<1> HIDE DEF s
<1>. QED
  BY <1>1, <1>2, <1>4, <1>5

LEMMA ReleaseFx ==
  ASSUME NEW w \in Worlds
  PROVE  LET v == Release(w) IN
         /\ v \in Worlds /\ v.page = w.page /\ v.handed = w.handed /\ v.mic = Free
         /\ v.ear = [w.ear EXCEPT !.current = IF @ = "held" THEN "gone" ELSE @]
         /\ v.standby = [w.standby EXCEPT !.current = "none"]
BY DEF Release, Free, Worlds, Mics, Ears, Standbys

LEMMA HushFx ==
  ASSUME NEW w \in Worlds
  PROVE  LET v == Hush(w) IN
         /\ v \in Worlds /\ v.mic = w.mic /\ v.ear = w.ear /\ v.standby = w.standby
         /\ v.handed = w.handed
         /\ v.page = [w.page EXCEPT !.speech = "none",
                                    !.due = IF w.page.speech = "narration" THEN TRUE ELSE @]
BY DEF Hush, Worlds, Pages

LEMMA SpeakFx ==
  ASSUME NEW w \in Worlds, NEW what \in {"reply", "narration"}
  PROVE  LET v == Speak(w, what) IN
         /\ v \in Worlds /\ v.mic = w.mic /\ v.ear = w.ear /\ v.standby = w.standby
         /\ v.handed = w.handed
         /\ v.page = [w.page EXCEPT !.speech = what,
                                    !.due = IF w.page.speech = "narration" THEN TRUE ELSE @]
<1> DEFINE h == Hush(w)
           s == [h EXCEPT !.page.speech = what]
<1>1. Speak(w, what) = s
  BY DEF Speak
<1>2. /\ h \in Worlds /\ h.mic = w.mic /\ h.ear = w.ear /\ h.standby = w.standby
      /\ h.handed = w.handed
      /\ h.page = [w.page EXCEPT !.speech = "none", !.due = IF w.page.speech = "narration" THEN TRUE ELSE @]
  BY HushFx
<1> HIDE DEF h
<1>3. /\ s \in Worlds /\ s.mic = w.mic /\ s.ear = w.ear /\ s.standby = w.standby
      /\ s.handed = w.handed /\ s.page = [h.page EXCEPT !.speech = what]
  BY <1>2 DEF Worlds, Pages
<1>4. s.page = [w.page EXCEPT !.speech = what, !.due = IF w.page.speech = "narration" THEN TRUE ELSE @]
  BY <1>2, <1>3 DEF Worlds, Pages
<1> HIDE DEF s
<1>. QED
  BY <1>1, <1>3, <1>4

LEMMA SendFx ==
  ASSUME NEW w \in Worlds
  PROVE  LET v == Send(w) IN
         /\ v \in Worlds /\ v.ear = w.ear /\ v.handed = w.handed /\ StandsDown(w, v)
         /\ v.page = IF Busy(w) THEN w.page ELSE [w.page EXCEPT !.turn = "asking"]
<1> DEFINE a == [w EXCEPT !.page.turn = "asking"]
<1>1. /\ a \in Worlds /\ a.mic = w.mic /\ a.ear = w.ear /\ a.standby = w.standby
      /\ a.handed = w.handed /\ a.page = [w.page EXCEPT !.turn = "asking"]
  BY DEF Worlds, Pages
<1>2. Send(w) = IF Busy(w) THEN w ELSE Suspend(a)
  BY DEF Send
<1> HIDE DEF a
<1>3. /\ Suspend(a) \in Worlds /\ Suspend(a).ear = w.ear /\ Suspend(a).page = a.page
      /\ Suspend(a).handed = w.handed /\ StandsDown(w, Suspend(a))
  BY <1>1, SuspendFx DEF StandsDown
<1>. QED
  BY <1>1, <1>2, <1>3 DEF StandsDown

LEMMA HandOverFx ==
  ASSUME NEW w \in Worlds
  PROVE  LET v == HandOver(w) IN
         /\ v \in Worlds /\ v.ear = w.ear /\ StandsDown(w, v) /\ v.page.turn # "idle"
         /\ v.handed = IF w.handed < 2 THEN w.handed + 1 ELSE w.handed
<1> DEFINE a == [w EXCEPT !.handed = IF @ < 2 THEN @ + 1 ELSE @]
<1>1. /\ a \in Worlds /\ a.mic = w.mic /\ a.ear = w.ear /\ a.standby = w.standby
      /\ a.page = w.page /\ a.handed = IF w.handed < 2 THEN w.handed + 1 ELSE w.handed
  BY DEF Worlds
<1>2. HandOver(w) = Send(a)
  BY DEF HandOver
<1> HIDE DEF a
<1>3. w.page \in Pages
  BY DEF Worlds
<1>4. /\ Send(a) \in Worlds /\ Send(a).ear = a.ear /\ Send(a).handed = a.handed
      /\ StandsDown(a, Send(a))
      /\ Send(a).page = IF Busy(a) THEN a.page ELSE [a.page EXCEPT !.turn = "asking"]
  BY <1>1, SendFx
<1>5. Send(a).page.turn # "idle"
  BY <1>1, <1>3, <1>4 DEF Busy, Pages
<1>. QED
  BY <1>1, <1>2, <1>4, <1>5 DEF StandsDown

-----------------------------------------------------------------------------
(* The Listener.                                                           *)

LEMMA DeliverFx ==
  ASSUME NEW w \in Worlds
  PROVE  LET v == Deliver(w) IN
         /\ v \in Worlds /\ StandsDown(w, v) /\ v.page.turn # "idle"
         /\ v.handed = IF w.handed < 2 THEN w.handed + 1 ELSE w.handed
         /\ v.ear = [w.ear EXCEPT !.partial = FALSE, !.delivered = TRUE, !.wanted = FALSE,
                                  !.onlyEnd = FALSE, !.startTimer = FALSE,
                                  !.deadline = FALSE, !.announced = FALSE]
<1> DEFINE a == [w EXCEPT !.ear.partial = FALSE, !.ear.delivered = TRUE,
                          !.ear.wanted = FALSE, !.ear.onlyEnd = FALSE,
                          !.ear.startTimer = FALSE, !.ear.deadline = FALSE]
           b == SetState(a, FALSE)
<1>1. Deliver(w) = HandOver(b)
  BY DEF Deliver
<1>2. /\ a \in Worlds /\ a.mic = w.mic /\ a.standby = w.standby /\ a.page = w.page
      /\ a.handed = w.handed
      /\ a.ear = [w.ear EXCEPT !.partial = FALSE, !.delivered = TRUE, !.wanted = FALSE,
                               !.onlyEnd = FALSE, !.startTimer = FALSE, !.deadline = FALSE]
  BY DEF Worlds, Ears
<1> HIDE DEF a
<1>3. /\ b \in Worlds /\ b.mic = w.mic /\ b.standby = w.standby /\ b.handed = w.handed
      /\ b.ear = [a.ear EXCEPT !.announced = FALSE]
  BY <1>2, SetStateFx
<1> HIDE DEF b
<1>4. b.ear = [w.ear EXCEPT !.partial = FALSE, !.delivered = TRUE, !.wanted = FALSE,
                            !.onlyEnd = FALSE, !.startTimer = FALSE, !.deadline = FALSE,
                            !.announced = FALSE]
  BY <1>2, <1>3 DEF Worlds, Ears
<1>5. /\ HandOver(b) \in Worlds /\ HandOver(b).ear = b.ear /\ StandsDown(b, HandOver(b))
      /\ HandOver(b).page.turn # "idle"
      /\ HandOver(b).handed = IF b.handed < 2 THEN b.handed + 1 ELSE b.handed
  BY <1>3, HandOverFx
<1>. QED
  BY <1>1, <1>3, <1>4, <1>5 DEF StandsDown

LEMMA AbandonFx ==
  ASSUME NEW w \in Worlds
  PROVE  LET v == Abandon(w) IN
         /\ v \in Worlds /\ v.standby = w.standby /\ v.page = w.page /\ v.handed = w.handed
         /\ v.mic = Aborted(w.mic, w.ear.current)
         /\ v.ear = [w.ear EXCEPT !.current = "none", !.listening = FALSE,
                                  !.startTimer = FALSE, !.deadline = FALSE]
<1> DEFINE a == Abort(w, w.ear.current)
           v == [a EXCEPT !.ear.current = "none", !.ear.listening = FALSE,
                          !.ear.startTimer = FALSE, !.ear.deadline = FALSE]
<1>1. Abandon(w) = v
  BY DEF Abandon
<1>2. /\ a \in Worlds /\ a.ear = w.ear /\ a.standby = w.standby /\ a.page = w.page
      /\ a.handed = w.handed /\ a.mic = Aborted(w.mic, w.ear.current)
  BY AbortFx
<1> HIDE DEF a
<1>3. /\ v \in Worlds /\ v.standby = w.standby /\ v.page = w.page /\ v.handed = w.handed
      /\ v.mic = a.mic
      /\ v.ear = [w.ear EXCEPT !.current = "none", !.listening = FALSE,
                               !.startTimer = FALSE, !.deadline = FALSE]
  BY <1>2 DEF Worlds, Ears
<1> HIDE DEF v
<1>. QED
  BY <1>1, <1>2, <1>3

LEMMA CloseFx ==
  ASSUME NEW w \in Worlds
  PROVE  LET v == Close(w)
             over == w.ear.announced /\ ~Busy(w)
         IN  /\ v \in Worlds /\ v.mic = w.mic /\ v.standby = w.standby /\ v.handed = w.handed
             /\ v.ear = [w.ear EXCEPT !.wanted = FALSE, !.startTimer = FALSE,
                                      !.deadline = FALSE, !.announced = FALSE]
             /\ v.page = IF over /\ w.standby.enabled
                         THEN [w.page EXCEPT !.resume = TRUE] ELSE w.page
<1> DEFINE a == [w EXCEPT !.ear.wanted = FALSE, !.ear.startTimer = FALSE,
                          !.ear.deadline = FALSE]
           v == SetState(a, FALSE)
<1>1. Close(w) = v
  BY DEF Close
<1>2. /\ a \in Worlds /\ a.mic = w.mic /\ a.standby = w.standby /\ a.page = w.page
      /\ a.handed = w.handed /\ a.ear.announced = w.ear.announced
      /\ a.ear = [w.ear EXCEPT !.wanted = FALSE, !.startTimer = FALSE, !.deadline = FALSE]
  BY DEF Worlds, Ears
<1> HIDE DEF a
<1>3. /\ v \in Worlds /\ v.mic = w.mic /\ v.standby = w.standby /\ v.handed = w.handed
      /\ v.ear = [a.ear EXCEPT !.announced = FALSE]
      /\ v.page = IF (a.ear.announced /\ ~FALSE /\ ~Busy(a)) /\ a.standby.enabled
                  THEN [a.page EXCEPT !.resume = TRUE] ELSE a.page
  BY <1>2, SetStateFx
<1> HIDE DEF v
<1>4. v.ear = [w.ear EXCEPT !.wanted = FALSE, !.startTimer = FALSE, !.deadline = FALSE,
                            !.announced = FALSE]
  BY <1>2, <1>3 DEF Worlds, Ears
<1>5. Busy(a) <=> Busy(w)
  BY <1>2 DEF Busy
<1>. QED
  BY <1>1, <1>2, <1>3, <1>4, <1>5

\* With the engine free a listen starts; otherwise it is over, and standby is owed.
LEMMA SpinFx ==
  ASSUME NEW w \in Worlds
  PROVE  LET v == Spin(w) IN
         /\ v \in Worlds /\ v.standby = w.standby
         /\ w.mic = Free =>
              /\ v.mic = Fresh("ear") /\ v.handed = 0 /\ v.page = w.page
              /\ v.ear = [w.ear EXCEPT !.startTimer = TRUE, !.current = "held"]
         /\ w.mic # Free =>
              /\ v.mic = [w.mic EXCEPT !.orphan = IF w.mic.owner = "ear" THEN TRUE ELSE @]
              /\ v.handed = w.handed
              /\ v.ear = [w.ear EXCEPT !.startTimer = FALSE, !.current = "gone",
                                       !.wanted = FALSE, !.listening = FALSE,
                                       !.onlyEnd = TRUE, !.announced = FALSE]
              /\ v.page = IF w.standby.enabled THEN [w.page EXCEPT !.resume = TRUE]
                                               ELSE w.page
<1>1. CASE w.mic = Free
  <2> DEFINE x == [w EXCEPT !.mic = Fresh("ear")]
             y == [x EXCEPT !.handed = 0]
             v == [y EXCEPT !.ear.startTimer = TRUE, !.ear.current = "held"]
  <2>1. Spin(w) = v
    BY <1>1 DEF Spin, Worlds
  <2>2. /\ x \in Worlds /\ x.mic = Fresh("ear") /\ x.ear = w.ear
        /\ x.standby = w.standby /\ x.page = w.page
    BY DEF Worlds, Mics, Fresh
  <2> HIDE DEF x
  <2>3. /\ y \in Worlds /\ y.mic = Fresh("ear") /\ y.ear = w.ear
        /\ y.standby = w.standby /\ y.page = w.page /\ y.handed = 0
    BY <2>2 DEF Worlds
  <2> HIDE DEF y
  <2>4. /\ v \in Worlds /\ v.mic = Fresh("ear") /\ v.handed = 0 /\ v.page = w.page
        /\ v.standby = w.standby
        /\ v.ear = [w.ear EXCEPT !.startTimer = TRUE, !.current = "held"]
    BY <2>3 DEF Worlds, Ears
  <2> HIDE DEF v
  <2>. QED
    BY <1>1, <2>1, <2>4
<1>2. CASE w.mic # Free
  <2> DEFINE o == Orphaned(w, "ear")
             a == [o EXCEPT !.ear.startTimer = FALSE, !.ear.current = "gone",
                            !.ear.wanted = FALSE, !.ear.listening = FALSE,
                            !.ear.onlyEnd = TRUE]
             b == SetState(a, FALSE)
             v == ResumeWake(b)
  <2>1. Spin(w) = v
    BY <1>2 DEF Spin, OnError
  <2>2. /\ o \in Worlds /\ o.ear = w.ear /\ o.standby = w.standby /\ o.page = w.page
        /\ o.handed = w.handed
        /\ o.mic = [w.mic EXCEPT !.orphan = IF w.mic.owner = "ear" THEN TRUE ELSE @]
    BY DEF Orphaned, Worlds, Mics
  <2> HIDE DEF o
  <2>3. /\ a \in Worlds /\ a.mic = o.mic /\ a.standby = w.standby /\ a.page = w.page
        /\ a.handed = w.handed
        /\ a.ear = [w.ear EXCEPT !.startTimer = FALSE, !.current = "gone",
                                 !.wanted = FALSE, !.listening = FALSE, !.onlyEnd = TRUE]
    BY <2>2 DEF Worlds, Ears
  <2> HIDE DEF a
  <2>4. /\ b \in Worlds /\ b.mic = a.mic /\ b.standby = w.standby /\ b.handed = w.handed
        /\ b.ear = [a.ear EXCEPT !.announced = FALSE]
        /\ b.page = w.page \/ (w.standby.enabled /\ b.page = [w.page EXCEPT !.resume = TRUE])
    BY <2>3, SetStateFx
  <2> HIDE DEF b
  <2>5. b.ear = [w.ear EXCEPT !.startTimer = FALSE, !.current = "gone",
                              !.wanted = FALSE, !.listening = FALSE, !.onlyEnd = TRUE,
                              !.announced = FALSE]
    BY <2>3, <2>4 DEF Worlds, Ears
  <2>6. /\ v \in Worlds /\ v.mic = b.mic /\ v.ear = b.ear /\ v.standby = b.standby
        /\ v.handed = b.handed
        /\ v.page = IF b.standby.enabled THEN [b.page EXCEPT !.resume = TRUE] ELSE b.page
    BY <2>4, ResumeWakeFx
  <2> HIDE DEF v
  <2>7. v.page = IF w.standby.enabled THEN [w.page EXCEPT !.resume = TRUE] ELSE w.page
    <3>1. w.page \in Pages
      BY DEF Worlds
    <3>. QED
      BY <2>4, <2>6, <3>1 DEF Pages
  <2>. QED
    <3>1. /\ v.standby = w.standby /\ v.handed = w.handed /\ v \in Worlds
          /\ v.mic = [w.mic EXCEPT !.orphan = IF w.mic.owner = "ear" THEN TRUE ELSE @]
          /\ v.ear = [w.ear EXCEPT !.startTimer = FALSE, !.current = "gone",
                                   !.wanted = FALSE, !.listening = FALSE,
                                   !.onlyEnd = TRUE, !.announced = FALSE]
      BY <2>2, <2>3, <2>4, <2>5, <2>6
    <3>. QED
      BY <1>2, <2>1, <2>7, <3>1
<1>. QED
  BY <1>1, <1>2

LEMMA BeginFx ==
  ASSUME NEW w \in Worlds
  PROVE  LET v == Begin(w) IN
         /\ v \in Worlds /\ v.standby = w.standby
         /\ w.mic = Free =>
              /\ v.mic = Fresh("ear") /\ v.handed = 0 /\ v.page = w.page
              /\ v.ear = [w.ear EXCEPT !.wanted = TRUE, !.restarts = 0, !.delivered = FALSE,
                                       !.partial = FALSE, !.deadline = TRUE,
                                       !.onlyEnd = FALSE, !.announced = TRUE,
                                       !.startTimer = TRUE, !.current = "held"]
         /\ w.mic # Free =>
              /\ v.mic = [w.mic EXCEPT !.orphan = IF w.mic.owner = "ear" THEN TRUE ELSE @]
              /\ v.handed = w.handed
              /\ v.ear = [w.ear EXCEPT !.restarts = 0, !.delivered = FALSE,
                                       !.partial = FALSE, !.deadline = TRUE,
                                       !.startTimer = FALSE, !.current = "gone",
                                       !.wanted = FALSE, !.listening = FALSE,
                                       !.onlyEnd = TRUE, !.announced = FALSE]
              /\ v.page = IF w.standby.enabled THEN [w.page EXCEPT !.resume = TRUE]
                                               ELSE w.page
<1> DEFINE a == [w EXCEPT !.ear.wanted = TRUE, !.ear.restarts = 0, !.ear.delivered = FALSE,
                          !.ear.partial = FALSE, !.ear.deadline = TRUE,
                          !.ear.onlyEnd = FALSE]
           b == SetState(a, TRUE)
           v == Spin(b)
<1>1. Begin(w) = v
  BY DEF Begin
<1>2. /\ a \in Worlds /\ a.mic = w.mic /\ a.standby = w.standby /\ a.page = w.page
      /\ a.handed = w.handed
      /\ a.ear = [w.ear EXCEPT !.wanted = TRUE, !.restarts = 0, !.delivered = FALSE,
                               !.partial = FALSE, !.deadline = TRUE, !.onlyEnd = FALSE]
  <2>1. /\ a.mic = w.mic /\ a.standby = w.standby /\ a.page = w.page
        /\ a.handed = w.handed
        /\ a.ear = [w.ear EXCEPT !.wanted = TRUE, !.restarts = 0, !.delivered = FALSE,
                                 !.partial = FALSE, !.deadline = TRUE, !.onlyEnd = FALSE]
    BY DEF Worlds, Ears
  <2>2. a = [w EXCEPT !.ear = a.ear]
    BY DEF Worlds, Ears
  <2> HIDE DEF a
  <2> DEFINE e == [w.ear EXCEPT !.restarts = 0]
             f == [e EXCEPT !.wanted = TRUE, !.delivered = FALSE,
                            !.partial = FALSE, !.deadline = TRUE, !.onlyEnd = FALSE]
  <2>3. a.ear \in Ears
    <3>1. w.ear \in Ears
      BY DEF Worlds
    <3>2. e \in Ears
      BY <3>1, VoiceAssumption DEF Ears
    <3>3. a.ear = f
      BY <2>1, <3>1 DEF Ears
    <3> HIDE DEF e
    <3>4. f \in Ears
      BY <3>2 DEF Ears
    <3>. QED
      BY <3>3, <3>4
  <2>4. a \in Worlds
    BY <2>2, <2>3 DEF Worlds
  <2>. QED
    BY <2>1, <2>4
<1> HIDE DEF a
<1>3. /\ b \in Worlds /\ b.mic = w.mic /\ b.standby = w.standby /\ b.page = w.page
      /\ b.handed = w.handed /\ b.ear = [a.ear EXCEPT !.announced = TRUE]
  BY <1>2, SetStateFx
<1> HIDE DEF b
<1>4. b.ear = [w.ear EXCEPT !.wanted = TRUE, !.restarts = 0, !.delivered = FALSE,
                            !.partial = FALSE, !.deadline = TRUE, !.onlyEnd = FALSE,
                            !.announced = TRUE]
  BY <1>2, <1>3 DEF Worlds, Ears
<1>5. w.ear \in Ears
  BY DEF Worlds
<1>6. CASE w.mic = Free
  <2>1. /\ v \in Worlds /\ v.standby = w.standby /\ v.mic = Fresh("ear") /\ v.handed = 0
        /\ v.page = w.page
        /\ v.ear = [b.ear EXCEPT !.startTimer = TRUE, !.current = "held"]
    BY <1>3, <1>6, SpinFx
  <2> HIDE DEF v
  <2>2. v.ear = [w.ear EXCEPT !.wanted = TRUE, !.restarts = 0, !.delivered = FALSE,
                              !.partial = FALSE, !.deadline = TRUE, !.onlyEnd = FALSE,
                              !.announced = TRUE, !.startTimer = TRUE, !.current = "held"]
    BY <1>4, <1>5, <2>1 DEF Ears
  <2>. QED
    BY <1>1, <1>6, <2>1, <2>2
<1>7. CASE w.mic # Free
  <2>1. /\ v \in Worlds /\ v.standby = w.standby /\ v.handed = w.handed
        /\ v.mic = [w.mic EXCEPT !.orphan = IF w.mic.owner = "ear" THEN TRUE ELSE @]
        /\ v.ear = [b.ear EXCEPT !.startTimer = FALSE, !.current = "gone",
                                 !.wanted = FALSE, !.listening = FALSE,
                                 !.onlyEnd = TRUE, !.announced = FALSE]
        /\ v.page = IF w.standby.enabled THEN [w.page EXCEPT !.resume = TRUE] ELSE w.page
    BY <1>3, <1>7, SpinFx
  <2> HIDE DEF v
  <2>2. v.ear = [w.ear EXCEPT !.restarts = 0, !.delivered = FALSE,
                              !.partial = FALSE, !.deadline = TRUE,
                              !.startTimer = FALSE, !.current = "gone",
                              !.wanted = FALSE, !.listening = FALSE,
                              !.onlyEnd = TRUE, !.announced = FALSE]
    BY <1>4, <1>5, <2>1 DEF Ears
  <2>. QED
    BY <1>1, <1>7, <2>1, <2>2
<1>. QED
  BY <1>6, <1>7

-----------------------------------------------------------------------------
(* The WakeWord.                                                           *)

LEMMA FailedFx ==
  ASSUME NEW w \in Worlds
  PROVE  LET v == Failed(w) IN
         /\ v \in Worlds /\ v.mic = w.mic /\ v.ear = w.ear /\ v.page = w.page
         /\ v.handed = w.handed
         /\ v.standby.enabled = w.standby.enabled
         /\ v.standby.suspended = w.standby.suspended
         /\ v.standby.current = w.standby.current
         /\ v.standby.retry = w.standby.retry /\ v.standby.stray = w.standby.stray
<1> DEFINE v == Failed(w)
           s == [w.standby EXCEPT !.failures = IF @ < MaxFailures THEN @ + 1 ELSE @]
<1>1. w.standby \in Standbys
  BY Parts
<1>2. s \in Standbys
  BY <1>1, VoiceAssumption DEF Standbys
<1>3. /\ v.ear = w.ear /\ v.page = w.page /\ v.handed = w.handed /\ v.mic = w.mic
      /\ v.standby = s
  BY DEF Failed, Worlds
<1>4. v \in Worlds
  BY <1>2, <1>3 DEF Failed, Worlds
<1> HIDE DEF v
<1>5. /\ s.enabled = w.standby.enabled /\ s.suspended = w.standby.suspended
      /\ s.current = w.standby.current
      /\ s.retry = w.standby.retry /\ s.stray = w.standby.stray
  BY <1>1 DEF Standbys
<1> HIDE DEF s
<1>. QED
  BY <1>3, <1>4, <1>5 DEF v

LEMMA ArmRetryFx ==
  ASSUME NEW w \in Worlds, w.standby.retry => w.standby.stray < MaxStrays
  PROVE  LET v == ArmRetry(w) IN
         /\ v \in Worlds /\ v.mic = w.mic /\ v.ear = w.ear /\ v.page = w.page
         /\ v.handed = w.handed
         /\ v.standby.enabled = w.standby.enabled
         /\ v.standby.suspended = w.standby.suspended
         /\ v.standby.current = w.standby.current /\ v.standby.retry
<1> DEFINE v == ArmRetry(w)
           n == IF w.standby.retry THEN w.standby.stray + 1 ELSE w.standby.stray
           q == [w.standby EXCEPT !.stray = n]
           s == [q EXCEPT !.retry = TRUE]
<1>1. w.standby \in Standbys
  BY Parts
<1>2. n \in 0 .. MaxStrays
  BY <1>1, VoiceAssumption DEF Standbys
<1>3. /\ v.ear = w.ear /\ v.page = w.page /\ v.handed = w.handed /\ v.mic = w.mic
      /\ v.standby = s
  BY <1>1 DEF ArmRetry, Worlds, Standbys
<1>4. v = [w EXCEPT !.standby = v.standby]
  BY <1>1 DEF ArmRetry, Worlds, Standbys
<1> HIDE DEF n, v
<1>5. q \in Standbys
  BY <1>1, <1>2 DEF Standbys
<1>6. /\ q.enabled = w.standby.enabled /\ q.suspended = w.standby.suspended
      /\ q.current = w.standby.current
  BY <1>1 DEF Standbys
<1> HIDE DEF q
<1>7. s \in Standbys
  BY <1>5 DEF Standbys
<1>8. /\ s.enabled = q.enabled /\ s.suspended = q.suspended /\ s.current = q.current
      /\ s.retry
  BY <1>5 DEF Standbys
<1> HIDE DEF s
<1>9. v \in Worlds
  BY <1>3, <1>4, <1>7 DEF Worlds
<1>. QED
  BY <1>3, <1>6, <1>8, <1>9 DEF v

\* Standby that is up takes the engine if it is free, and tries again later if not.
LEMMA WakeSpinFx ==
  ASSUME NEW w \in Worlds, w.standby.retry => w.standby.stray < MaxStrays
  PROVE  LET v == WakeSpin(w)
             up == w.standby.enabled /\ ~w.standby.suspended
         IN  /\ v \in Worlds /\ v.ear = w.ear /\ v.page = w.page /\ v.handed = w.handed
             /\ v.standby.enabled = w.standby.enabled
             /\ v.standby.suspended = w.standby.suspended
             /\ ~up => v.mic = w.mic /\ v.standby = w.standby
             /\ up /\ w.mic = Free =>
                  v.mic = Fresh("wake") /\ v.standby = [w.standby EXCEPT !.current = "held"]
             /\ up /\ w.mic # Free =>
                  /\ v.mic = [w.mic EXCEPT !.orphan = IF w.mic.owner = "wake" THEN TRUE ELSE @]
                  /\ v.standby.current = "none" /\ v.standby.retry
<1>0. w.mic \in Mics /\ w.standby \in Standbys
  BY DEF Worlds
<1>1. CASE ~(w.standby.enabled /\ ~w.standby.suspended)
  <2>1. WakeSpin(w) = w
    BY <1>0, <1>1 DEF WakeSpin, Standbys
  <2>. QED
    BY <1>1, <2>1
<1>2. CASE w.standby.enabled /\ ~w.standby.suspended /\ w.mic = Free
  <2> DEFINE v == [w EXCEPT !.mic = Fresh("wake"), !.standby.current = "held"]
  <2>1. WakeSpin(w) = v
    BY <1>2 DEF WakeSpin
  <2>2. /\ v \in Worlds /\ v.ear = w.ear /\ v.page = w.page /\ v.handed = w.handed
        /\ v.mic = Fresh("wake") /\ v.standby = [w.standby EXCEPT !.current = "held"]
    BY DEF Worlds, Mics, Standbys, Fresh
  <2> HIDE DEF v
  <2>. QED
    BY <1>0, <1>2, <2>1, <2>2 DEF Standbys
<1>3. CASE w.standby.enabled /\ ~w.standby.suspended /\ w.mic # Free
  <2> DEFINE o == Orphaned(w, "wake")
             f == Failed(o)
             r == ArmRetry(f)
             v == [r EXCEPT !.standby.current = "none"]
  <2>1. WakeSpin(w) = v
    BY <1>3 DEF WakeSpin
  <2>2. /\ o \in Worlds /\ o.ear = w.ear /\ o.standby = w.standby /\ o.page = w.page
        /\ o.handed = w.handed
        /\ o.mic = [w.mic EXCEPT !.orphan = IF w.mic.owner = "wake" THEN TRUE ELSE @]
    BY DEF Orphaned, Worlds, Mics
  <2> HIDE DEF o
  <2>3. /\ f \in Worlds /\ f.ear = w.ear /\ f.page = w.page /\ f.handed = w.handed
        /\ f.mic = o.mic
        /\ f.standby.enabled = w.standby.enabled /\ f.standby.suspended = w.standby.suspended
        /\ f.standby.retry = w.standby.retry /\ f.standby.stray = w.standby.stray
    BY <2>2, FailedFx
  <2> HIDE DEF f
  <2>4. /\ r \in Worlds /\ r.ear = w.ear /\ r.page = w.page /\ r.handed = w.handed
        /\ r.mic = o.mic
        /\ r.standby.enabled = w.standby.enabled /\ r.standby.suspended = w.standby.suspended
        /\ r.standby.retry
    BY <2>3, ArmRetryFx
  <2> HIDE DEF r
  <2>5. /\ v \in Worlds /\ v.ear = w.ear /\ v.page = w.page /\ v.handed = w.handed
        /\ v.mic = o.mic
        /\ v.standby.enabled = w.standby.enabled /\ v.standby.suspended = w.standby.suspended
        /\ v.standby.retry /\ v.standby.current = "none"
    BY <2>4 DEF Worlds, Standbys
  <2> HIDE DEF v
  <2>. QED
    BY <1>3, <2>1, <2>2, <2>5
<1>. QED
  BY <1>1, <1>2, <1>3

-----------------------------------------------------------------------------
(* What a handler keeps of the invariant.                                  *)

LEMMA ResumeWakeKeeps ==
  ASSUME NEW w, Sound(w)
  PROVE  LET v == ResumeWake(w) IN Sound(v) /\ Owed(v.ear, v.standby, v.page)
<1> DEFINE v == ResumeWake(w)
<1>1. w \in Worlds
  BY DEF Sound, Whole
<1>2. /\ v \in Worlds /\ v.mic = w.mic /\ v.ear = w.ear /\ v.standby = w.standby
      /\ v.handed = w.handed
      /\ v.page = IF w.standby.enabled THEN [w.page EXCEPT !.resume = TRUE] ELSE w.page
  BY <1>1, ResumeWakeFx
<1>3. w.page \in Pages /\ w.standby.enabled \in BOOLEAN
  BY <1>1 DEF Worlds, Standbys
<1> HIDE DEF v
<1>4. Sound(v)
  BY <1>2 DEF Sound, Whole
<1>5. Owed(v.ear, v.standby, v.page)
  BY <1>2, <1>3 DEF Owed, Pages
<1>. QED
  BY <1>4, <1>5 DEF v

LEMMA StandsDownKeeps ==
  ASSUME NEW w, NEW v \in Worlds, Sound(w), StandsDown(w, v), v.ear = w.ear,
         v.handed = w.handed
  PROVE  Sound(v)
<1>1. w \in Worlds
  BY DEF Sound, Whole
<1>2. /\ w.mic \in Mics /\ w.ear \in Ears /\ w.standby \in Standbys
  BY <1>1, Parts
<1>3. CASE v.mic = w.mic /\ v.standby = w.standby
  BY <1>3 DEF Sound, Whole
<1>4. CASE /\ v.mic = Aborted(w.mic, w.standby.current)
           /\ v.standby = [w.standby EXCEPT !.suspended = TRUE, !.retry = FALSE,
                                            !.current = "none"]
  <2>1. /\ v.standby.suspended /\ v.standby.current = "none"
    BY <1>2, <1>4 DEF Standbys
  <2>2. \/ v.mic = w.mic /\ (w.standby.current = "held" => w.mic.state = "faulted")
        \/ /\ w.standby.current = "held" /\ v.mic.owner = w.mic.owner
           /\ v.mic.state = "ending" /\ v.mic.orphan = w.mic.orphan
    BY <1>2, <1>4 DEF Aborted, Mics
  <2>3. Handles(v.mic, v.ear, v.standby)
    BY <1>2, <2>1, <2>2 DEF Sound, Whole, Handles, Free, Mics
  <2>4. Followed(v.mic, v.ear, v.standby)
    BY <1>2, <2>1, <2>2 DEF Sound, Whole, Followed, Live
  <2>5. Alive(v.mic, v.standby)
    BY <2>1 DEF Alive
  <2>6. v.mic.owner = "ear" => v.mic = w.mic
    BY <2>2 DEF Sound, Whole, Handles
  <2>7. Once(v.mic, v.ear, v.handed)
    BY <2>6 DEF Sound, Whole, Once
  <2>8. Followable(v.mic, v.ear) /\ Awaited(v.mic, v.ear)
    BY <2>6 DEF Sound, Whole, Followable, Awaited
  <2>. QED
    BY <2>3, <2>4, <2>5, <2>7, <2>8 DEF Sound, Whole
<1>. QED
  BY <1>3, <1>4 DEF StandsDown

LEMMA SuspendKeeps ==
  ASSUME NEW w, Sound(w)
  PROVE  LET v == Suspend(w) IN
         Sound(v) /\ v.ear = w.ear /\ v.page = w.page
<1> DEFINE v == Suspend(w)
<1>1. w \in Worlds
  BY DEF Sound, Whole
<1>2. /\ v \in Worlds /\ v.ear = w.ear /\ v.page = w.page /\ v.handed = w.handed
      /\ StandsDown(w, v)
  BY <1>1, SuspendFx DEF StandsDown
<1> HIDE DEF v
<1>3. Sound(v)
  BY <1>2, StandsDownKeeps
<1>. QED
  BY <1>2, <1>3 DEF v

LEMMA DisableKeeps ==
  ASSUME NEW w, Whole(w)
  PROVE  LET v == Disable(w) IN Sound(v) /\ Owed(v.ear, v.standby, v.page)
<1> DEFINE v == Disable(w)
<1>1. w \in Worlds
  BY DEF Whole
<1>2. /\ w.mic \in Mics /\ w.ear \in Ears /\ w.standby \in Standbys
  BY <1>1, Parts
<1>3. /\ v \in Worlds /\ v.ear = w.ear /\ v.page = w.page /\ v.handed = w.handed
      /\ v.mic = Aborted(w.mic, w.standby.current)
      /\ v.standby = [w.standby EXCEPT !.enabled = FALSE, !.retry = FALSE, !.current = "none"]
  BY <1>1, DisableFx
<1> HIDE DEF v
<1>4. ~v.standby.enabled /\ v.standby.current = "none"
  BY <1>2, <1>3 DEF Standbys
<1>5. \/ v.mic = w.mic /\ (w.standby.current = "held" => w.mic.state = "faulted")
      \/ /\ w.standby.current = "held" /\ v.mic.owner = w.mic.owner
         /\ v.mic.state = "ending" /\ v.mic.orphan = w.mic.orphan
  BY <1>2, <1>3 DEF Aborted, Mics
<1>6. Handles(v.mic, v.ear, v.standby)
  BY <1>2, <1>3, <1>4, <1>5 DEF Whole, Handles, Free, Mics
<1>7. Followed(v.mic, v.ear, v.standby)
  BY <1>2, <1>3, <1>4, <1>5 DEF Whole, Followed, Live
<1>8. v.mic.owner = "ear" => v.mic = w.mic
  BY <1>5 DEF Whole, Handles
<1>9. Once(v.mic, v.ear, v.handed) /\ Followable(v.mic, v.ear) /\ Awaited(v.mic, v.ear)
  BY <1>3, <1>8 DEF Whole, Once, Followable, Awaited
<1>. QED
  BY <1>3, <1>4, <1>6, <1>7, <1>9 DEF Sound, Whole, Alive, Owed, v

\* The words of an engine that is mute by now are handed over.
LEMMA DeliverKeeps ==
  ASSUME NEW w \in Worlds, Handles(w.mic, w.ear, w.standby),
         Followed(w.mic, w.ear, w.standby), Alive(w.mic, w.standby), w.handed = 0,
         w.mic.owner = "ear" => w.mic.state \in {"ending", "faulted"}
  PROVE  LET v == Deliver(w) IN Sound(v) /\ Owed(v.ear, v.standby, v.page)
<1> DEFINE v == Deliver(w)
           e == [w.ear EXCEPT !.partial = FALSE, !.delivered = TRUE, !.wanted = FALSE,
                              !.onlyEnd = FALSE, !.startTimer = FALSE,
                              !.deadline = FALSE, !.announced = FALSE]
           a == [w EXCEPT !.ear = e]
           u == [a EXCEPT !.handed = 1]
<1>1. /\ w.mic \in Mics /\ w.ear \in Ears /\ w.standby \in Standbys
  BY Parts
<1>2. /\ v \in Worlds /\ StandsDown(w, v) /\ v.page.turn # "idle" /\ v.ear = e
      /\ v.handed = IF w.handed < 2 THEN w.handed + 1 ELSE w.handed
  BY DeliverFx
<1> HIDE DEF v
<1>0. v.handed = 1
  BY <1>2
<1>3. e \in Ears
  BY <1>1 DEF Ears
<1>4. /\ e.current = w.ear.current /\ ~e.wanted /\ e.delivered /\ ~e.partial
      /\ ~e.startTimer
  BY <1>1 DEF Ears
<1> HIDE DEF e
<1>5. /\ a \in Worlds /\ a.mic = w.mic /\ a.standby = w.standby /\ a.ear = e
  BY <1>3 DEF Worlds
<1> HIDE DEF a
<1>6. /\ u \in Worlds /\ u.mic = w.mic /\ u.standby = w.standby /\ u.ear = e
      /\ u.handed = 1
  BY <1>5 DEF Worlds
<1> HIDE DEF u
<1>7. Sound(u)
  <2>1. Handles(u.mic, u.ear, u.standby) /\ Followed(u.mic, u.ear, u.standby)
    BY <1>4, <1>6 DEF Handles, Followed
  <2>2. Once(u.mic, u.ear, u.handed)
    BY <1>4, <1>6 DEF Once, Pending
  <2>3. Followable(u.mic, u.ear) /\ Awaited(u.mic, u.ear)
    BY <1>4, <1>6 DEF Followable, Awaited, Pending
  <2>. QED
    BY <1>6, <2>1, <2>2, <2>3 DEF Sound, Whole
<1>8. Sound(v)
  BY <1>0, <1>2, <1>6, <1>7, StandsDownKeeps DEF StandsDown
<1>9. Owed(v.ear, v.standby, v.page)
  BY <1>2 DEF Owed
<1>. QED
  BY <1>8, <1>9 DEF v

\* start(), from the permission on, is followed to its end, whoever has the engine.
LEMMA BeginKeeps ==
  ASSUME NEW w, Sound(w)
  PROVE  LET v == Begin(w) IN Sound(v) /\ Owed(v.ear, v.standby, v.page)
<1> DEFINE v == Begin(w)
<1>1. w \in Worlds
  BY DEF Sound, Whole
<1>2. /\ w.mic \in Mics /\ w.ear \in Ears /\ w.standby \in Standbys /\ w.page \in Pages
  BY <1>1, Parts
<1>3. v \in Worlds /\ v.standby = w.standby
  BY <1>1, BeginFx
<1>4. CASE w.mic = Free
  <2>1. /\ v.mic = Fresh("ear") /\ v.handed = 0
        /\ v.ear = [w.ear EXCEPT !.wanted = TRUE, !.restarts = 0, !.delivered = FALSE,
                                 !.partial = FALSE, !.deadline = TRUE,
                                 !.onlyEnd = FALSE, !.announced = TRUE,
                                 !.startTimer = TRUE, !.current = "held"]
    BY <1>1, <1>4, BeginFx
  <2> HIDE DEF v
  <2>2. /\ v.ear.wanted /\ ~v.ear.partial /\ v.ear.deadline /\ v.ear.announced
        /\ v.ear.current = "held"
    BY <1>2, <2>1 DEF Ears
  <2>3. /\ v.mic.owner = "ear" /\ v.mic.state = "starting" /\ w.mic.owner = "none"
    BY <1>4, <2>1 DEF Fresh, Free
  <2>4. Handles(v.mic, v.ear, v.standby) /\ Followed(v.mic, v.ear, v.standby)
    BY <1>3, <2>2, <2>3 DEF Sound, Whole, Handles, Followed, Free
  <2>5. Alive(v.mic, v.standby)
    BY <1>3, <2>3 DEF Sound, Whole, Alive
  <2>6. Once(v.mic, v.ear, v.handed) /\ Followable(v.mic, v.ear) /\ Awaited(v.mic, v.ear)
    BY <2>1, <2>2, <2>3 DEF Once, Followable, Awaited, Pending
  <2>7. Owed(v.ear, v.standby, v.page)
    BY <2>2 DEF Owed
  <2>. QED
    BY <1>3, <2>4, <2>5, <2>6, <2>7 DEF Sound, Whole, v
<1>5. CASE w.mic # Free
  <2>1. /\ v.mic = [w.mic EXCEPT !.orphan = IF w.mic.owner = "ear" THEN TRUE ELSE @]
        /\ v.handed = w.handed
        /\ v.page = IF w.standby.enabled THEN [w.page EXCEPT !.resume = TRUE] ELSE w.page
    BY <1>1, <1>5, BeginFx
  <2>2. v.ear = [w.ear EXCEPT !.restarts = 0, !.delivered = FALSE,
                              !.partial = FALSE, !.deadline = TRUE,
                              !.startTimer = FALSE, !.current = "gone",
                              !.wanted = FALSE, !.listening = FALSE,
                              !.onlyEnd = TRUE, !.announced = FALSE]
    BY <1>1, <1>5, BeginFx
  <2> HIDE DEF v
  <2>3. /\ ~v.ear.wanted /\ ~v.ear.partial /\ v.ear.onlyEnd /\ v.ear.current = "gone"
        /\ ~v.ear.startTimer
    BY <1>2, <2>2 DEF Ears
  <2>4. /\ v.mic.owner = w.mic.owner /\ v.mic.state = w.mic.state
        /\ v.mic.owner = "ear" => v.mic.orphan
        /\ v.mic.owner # "ear" => v.mic.orphan = w.mic.orphan
    BY <1>2, <2>1 DEF Mics
  <2>5. Handles(v.mic, v.ear, v.standby) /\ Followed(v.mic, v.ear, v.standby)
    <3>1. v.mic.owner # "none" /\ v.mic.state # "free"
      BY <1>5, <2>4 DEF Sound, Whole, Handles
    <3>2. v.mic # Free
      BY <3>1 DEF Free
    <3>3. Handles(v.mic, v.ear, v.standby)
      BY <1>3, <2>3, <2>4, <3>1, <3>2 DEF Sound, Whole, Handles
    <3>4. Followed(v.mic, v.ear, v.standby)
      BY <1>2, <1>3, <2>3, <2>4, <3>1 DEF Sound, Whole, Followed, Live, Mics
    <3>. QED
      BY <3>3, <3>4
  <2>6. Alive(v.mic, v.standby)
    BY <1>3, <2>4 DEF Sound, Whole, Alive
  <2>7. Once(v.mic, v.ear, v.handed) /\ Followable(v.mic, v.ear) /\ Awaited(v.mic, v.ear)
    BY <2>1, <2>3, <2>4 DEF Sound, Whole, Once, Followable, Awaited, Pending
  <2>8. Owed(v.ear, v.standby, v.page)
    BY <1>2, <1>3, <2>1 DEF Owed, Pages
  <2>. QED
    BY <1>3, <2>5, <2>6, <2>7, <2>8 DEF Sound, Whole, v
<1>. QED
  BY <1>4, <1>5

LEMMA StartKeeps ==
  ASSUME NEW w, NEW by \in {"mic", "wake"}, Sound(w), by = "mic" => ~w.ear.wanted,
         w.ear.wanted \/ w.ear.granted \/ w.ear.asks[by] < MaxAsks
  PROVE  LET v == Start(w, by) IN Sound(v) /\ Owed(v.ear, v.standby, v.page)
<1> DEFINE h == Hush(w)
<1>1. w \in Worlds
  BY DEF Sound, Whole
<1>2. /\ h \in Worlds /\ h.mic = w.mic /\ h.ear = w.ear /\ h.standby = w.standby
      /\ h.handed = w.handed
  BY <1>1, HushFx
<1> HIDE DEF h
<1>3. Sound(h)
  BY <1>2 DEF Sound, Whole
<1>4. CASE w.ear.wanted
  <2>1. Start(w, by) = ResumeWake(w)
    BY <1>4 DEF Start, Refused
  <2>. QED
    BY <2>1, ResumeWakeKeeps
<1>5. CASE ~w.ear.wanted /\ w.ear.granted
  <2>1. Start(w, by) = Begin(h)
    BY <1>5 DEF Start, h
  <2>. QED
    BY <1>3, <2>1, BeginKeeps
<1>6. CASE ~w.ear.wanted /\ ~w.ear.granted
  <2> DEFINE q == [w.ear.asks EXCEPT ![by] = @ + 1]
             v == [h EXCEPT !.ear.asks[by] = @ + 1]
  <2>1. Start(w, by) = v
    BY <1>6 DEF Start, h
  <2>2. /\ w.ear \in Ears /\ w.ear.asks \in [{"mic", "wake"} -> 0 .. MaxAsks]
    BY <1>1, Parts DEF Ears
  <2>3. q \in [{"mic", "wake"} -> 0 .. MaxAsks] /\ q[by] > 0
    BY <1>6, <2>2, VoiceAssumption
  <2>4. /\ v.mic = w.mic /\ v.standby = w.standby /\ v.handed = w.handed
        /\ v.ear = [w.ear EXCEPT !.asks = q]
    BY <1>2 DEF Worlds, Ears
  <2>5. v = [h EXCEPT !.ear = v.ear]
    BY <1>2 DEF Worlds
  <2> HIDE DEF q, v
  <2>6. v.ear \in Ears
    BY <2>2, <2>3, <2>4 DEF Ears
  <2>7. v \in Worlds
    BY <1>2, <2>5, <2>6 DEF Worlds
  <2>8. /\ v.ear.wanted = w.ear.wanted /\ v.ear.deadline = w.ear.deadline
        /\ v.ear.announced = w.ear.announced /\ v.ear.current = w.ear.current
        /\ v.ear.partial = w.ear.partial /\ v.ear.delivered = w.ear.delivered
        /\ v.ear.onlyEnd = w.ear.onlyEnd /\ v.ear.startTimer = w.ear.startTimer
        /\ v.ear.asks = q
    BY <2>2, <2>4 DEF Ears
  <2>9. Sound(v)
    BY <2>4, <2>7, <2>8
    DEF Sound, Whole, Handles, Followed, Once, Followable, Awaited, Pending
  <2>10. Owed(v.ear, v.standby, v.page)
    BY <2>3, <2>8 DEF Owed
  <2>. QED
    BY <2>1, <2>9, <2>10
<1>. QED
  BY <1>4, <1>5, <1>6

\* The end, or the start, of a listen is told to the page.
LEMMA SetStateKeeps ==
  ASSUME NEW w, NEW active \in BOOLEAN, Sound(w), active \/ ~w.ear.wanted
  PROVE  LET v == SetState(w, active) IN
         /\ Sound(v)
         /\ Owed(w.ear, w.standby, w.page) \/ (w.ear.announced /\ ~active)
              => Owed(v.ear, v.standby, v.page)
<1> DEFINE v == SetState(w, active)
<1>1. w \in Worlds
  BY DEF Sound, Whole
<1>2. /\ w.ear \in Ears /\ w.standby \in Standbys /\ w.page \in Pages
  BY <1>1, Parts
<1>3. /\ v \in Worlds /\ v.mic = w.mic /\ v.standby = w.standby /\ v.handed = w.handed
      /\ v.ear = [w.ear EXCEPT !.announced = active]
      /\ v.page = IF (w.ear.announced /\ ~active /\ ~Busy(w)) /\ w.standby.enabled
                  THEN [w.page EXCEPT !.resume = TRUE] ELSE w.page
  BY <1>1, SetStateFx
<1> HIDE DEF v
<1>4. /\ v.ear.wanted = w.ear.wanted /\ v.ear.deadline = w.ear.deadline
      /\ v.ear.announced = active /\ v.ear.current = w.ear.current
      /\ v.ear.partial = w.ear.partial /\ v.ear.delivered = w.ear.delivered
      /\ v.ear.onlyEnd = w.ear.onlyEnd /\ v.ear.startTimer = w.ear.startTimer
      /\ v.ear.asks = w.ear.asks
  BY <1>2, <1>3 DEF Ears
<1>5. Sound(v)
  BY <1>3, <1>4 DEF Sound, Whole, Handles, Followed, Once, Followable, Awaited, Pending
<1>6. ASSUME Owed(w.ear, w.standby, w.page) \/ (w.ear.announced /\ ~active)
      PROVE  Owed(v.ear, v.standby, v.page)
  <2>1. CASE (w.ear.announced /\ ~active /\ ~Busy(w)) /\ w.standby.enabled
    BY <1>2, <1>3, <2>1 DEF Owed, Pages
  <2>2. CASE ~((w.ear.announced /\ ~active /\ ~Busy(w)) /\ w.standby.enabled)
    BY <1>3, <1>4, <1>6, <2>2 DEF Owed, Busy
  <2>. QED
    BY <2>1, <2>2
<1>. QED
  BY <1>5, <1>6 DEF v

\* A listen that goes on is given up (x is w with the flags of the turn cleared), and its
\* engine let go: what is left is sound, but for words that still wait.
LEMMA LetGo ==
  ASSUME NEW w, NEW x \in Worlds, Sound(w), w.ear.wanted, x.mic = w.mic,
         x.standby = w.standby, x.handed = w.handed, ~x.ear.wanted,
         x.ear.current = w.ear.current, x.ear.partial = w.ear.partial,
         x.ear.delivered = w.ear.delivered
  PROVE  LET g == Abandon(x) IN
         /\ g \in Worlds /\ g.page = x.page /\ g.ear.asks = x.ear.asks /\ ~g.ear.wanted
         /\ g.ear.announced = x.ear.announced /\ g.standby = x.standby
         /\ Pending(g.ear) <=> Pending(w.ear)
         /\ Pending(g.ear) =>
              /\ Handles(g.mic, g.ear, g.standby) /\ Followed(g.mic, g.ear, g.standby)
              /\ Alive(g.mic, g.standby) /\ g.handed = 0
              /\ g.mic.owner = "ear" => g.mic.state \in {"ending", "faulted"}
         /\ ~Pending(g.ear) => Sound(g)
<1> DEFINE g == Abandon(x)
<1>1. w \in Worlds
  BY DEF Sound, Whole
<1>2. w.mic \in Mics /\ x.ear \in Ears /\ w.handed \in 0 .. 2
  BY <1>1, Parts
<1>3. /\ g \in Worlds /\ g.standby = x.standby /\ g.page = x.page /\ g.handed = x.handed
      /\ g.mic = Aborted(x.mic, x.ear.current)
      /\ g.ear = [x.ear EXCEPT !.current = "none", !.listening = FALSE,
                               !.startTimer = FALSE, !.deadline = FALSE]
  BY AbandonFx
<1> HIDE DEF g
<1>4. /\ g.ear.current = "none" /\ ~g.ear.startTimer /\ ~g.ear.wanted
      /\ g.ear.partial = w.ear.partial /\ g.ear.delivered = w.ear.delivered
      /\ g.ear.asks = x.ear.asks /\ g.ear.announced = x.ear.announced
  BY <1>2, <1>3 DEF Ears
<1>5. w.mic.owner = "ear" <=> w.ear.current = "held"
  BY DEF Sound, Whole, Handles, Followable
<1>6. w.mic.owner # "ear" => g.mic = w.mic
  BY <1>3, <1>5 DEF Aborted
<1>7. w.mic.owner = "ear" => g.mic.owner = "ear" /\ g.mic.state \in {"ending", "faulted"}
  BY <1>2, <1>3, <1>5 DEF Aborted, Mics
<1>8. Pending(g.ear) <=> Pending(w.ear)
  BY <1>4 DEF Pending
<1>9. Handles(g.mic, g.ear, g.standby)
  BY <1>3, <1>4, <1>5, <1>6, <1>7 DEF Sound, Whole, Handles, Free
<1>10. Followed(g.mic, g.ear, g.standby)
  BY <1>3, <1>4, <1>6, <1>7 DEF Sound, Whole, Followed, Live
<1>11. Alive(g.mic, g.standby)
  BY <1>3, <1>6, <1>7 DEF Sound, Whole, Alive
<1>12. Once(g.mic, g.ear, g.handed)
  BY <1>3, <1>6, <1>7, <1>8 DEF Sound, Whole, Once
<1>13. Pending(g.ear) => g.handed = 0
  BY <1>2, <1>3, <1>8 DEF Sound, Whole, Once
<1>14. ~Pending(g.ear) => Awaited(g.mic, g.ear) /\ Followable(g.mic, g.ear)
  BY <1>4, <1>6, <1>7 DEF Awaited, Followable
<1>15. g.mic.owner = "ear" => g.mic.state \in {"ending", "faulted"}
  BY <1>6, <1>7
<1>16. ~Pending(g.ear) => Sound(g)
  BY <1>3, <1>9, <1>10, <1>11, <1>12, <1>14 DEF Sound, Whole
<1>. QED
  BY <1>3, <1>4, <1>8, <1>9, <1>10, <1>11, <1>13, <1>15, <1>16 DEF g

\* The end of a listen that was given up with nothing to hand over, and an error.
LEMMA GiveUpKeeps ==
  ASSUME NEW g, Sound(g), ~g.ear.wanted
  PROVE  LET v == SetState(OnError(g), FALSE) IN Sound(v) /\ Owed(v.ear, v.standby, v.page)
<1> DEFINE r == ResumeWake(g)
<1>1. Sound(r) /\ Owed(r.ear, r.standby, r.page)
  BY ResumeWakeKeeps
<1>2. r.ear = g.ear
  BY ResumeWakeFx DEF Sound, Whole
<1>3. OnError(g) = r
  BY DEF OnError
<1> HIDE DEF r
<1>. QED
  BY <1>1, <1>2, <1>3, SetStateKeeps

LEMMA StopKeeps ==
  ASSUME NEW w, Sound(w), w.ear.wanted
  PROVE  LET v == Stop(w) IN Sound(v) /\ Owed(v.ear, v.standby, v.page)
<1> DEFINE e == [w EXCEPT !.ear.wanted = FALSE, !.ear.startTimer = FALSE,
                          !.ear.deadline = FALSE]
           idle == Abandon(e)
           b == [e EXCEPT !.ear.onlyEnd = TRUE]
           asked == [b EXCEPT !.mic.state = IF e.ear.current = "held" /\ Live(e.mic)
                                            THEN "stopping" ELSE @]
<1>1. w \in Worlds
  BY DEF Sound, Whole
<1>2. w.mic \in Mics /\ w.ear \in Ears /\ w.standby \in Standbys /\ w.page \in Pages
  BY <1>1, Parts
<1>3. Stop(w) = IF e.ear.current # "none" /\ e.ear.listening THEN SetState(asked, FALSE)
                ELSE IF Pending(idle.ear) THEN Deliver(idle)
                ELSE SetState(idle, FALSE)
  BY DEF Stop
<1>4. /\ e \in Worlds /\ e.mic = w.mic /\ e.standby = w.standby /\ e.page = w.page
      /\ e.handed = w.handed
      /\ e.ear = [w.ear EXCEPT !.wanted = FALSE, !.startTimer = FALSE, !.deadline = FALSE]
  BY <1>1 DEF Worlds, Ears
<1> HIDE DEF e
<1>5. /\ ~e.ear.wanted /\ ~e.ear.startTimer /\ e.ear.current = w.ear.current
      /\ e.ear.partial = w.ear.partial /\ e.ear.delivered = w.ear.delivered
      /\ e.ear.announced = w.ear.announced /\ w.ear.announced
  BY <1>2, <1>4 DEF Ears, Sound, Whole, Followable
<1>6. CASE e.ear.current # "none" /\ e.ear.listening
  <2>1. /\ b \in Worlds /\ b.mic = e.mic /\ b.standby = e.standby /\ b.handed = e.handed
        /\ b.ear = [e.ear EXCEPT !.onlyEnd = TRUE]
    BY <1>4 DEF Worlds, Ears
  <2>2. /\ ~b.ear.wanted /\ ~b.ear.startTimer /\ b.ear.current = w.ear.current
        /\ b.ear.partial = w.ear.partial /\ b.ear.delivered = w.ear.delivered
        /\ b.ear.announced /\ b.ear.onlyEnd
    BY <1>4, <1>5, <2>1 DEF Worlds, Ears
  <2> HIDE DEF b
  <2>3. /\ asked \in Worlds /\ asked.ear = b.ear /\ asked.standby = b.standby
        /\ asked.handed = b.handed
        /\ asked.mic = [b.mic EXCEPT !.state = IF e.ear.current = "held" /\ Live(e.mic)
                                               THEN "stopping" ELSE @]
    BY <2>1 DEF Worlds, Mics
  <2> HIDE DEF asked
  <2>4. \/ asked.mic = w.mic /\ (w.ear.current # "held" \/ ~Live(w.mic))
        \/ /\ w.ear.current = "held" /\ Live(w.mic)
           /\ asked.mic.owner = w.mic.owner /\ asked.mic.state = "stopping"
    BY <1>2, <1>4, <1>5, <2>1, <2>3 DEF Mics
  <2>5. Handles(asked.mic, asked.ear, asked.standby)
    BY <1>4, <2>1, <2>2, <2>3, <2>4 DEF Sound, Whole, Handles, Free
  <2>6. Followed(asked.mic, asked.ear, asked.standby)
    BY <1>4, <2>1, <2>2, <2>3, <2>4 DEF Sound, Whole, Handles, Followed, Live
  <2>7. Alive(asked.mic, asked.standby)
    BY <1>4, <2>1, <2>3, <2>4 DEF Sound, Whole, Alive
  <2>8. Once(asked.mic, asked.ear, asked.handed)
    BY <1>4, <2>1, <2>2, <2>3, <2>4 DEF Sound, Whole, Handles, Once, Pending, Live
  <2>9. Followable(asked.mic, asked.ear) /\ Awaited(asked.mic, asked.ear)
    <3>1. Followable(asked.mic, asked.ear)
      BY <2>2, <2>3 DEF Followable
    <3>. QED
      BY <2>2, <2>3, <3>1 DEF Awaited
  <2>10. Sound(asked)
    BY <2>3, <2>5, <2>6, <2>7, <2>8, <2>9 DEF Sound, Whole
  <2>. QED
    BY <1>3, <1>6, <2>2, <2>3, <2>10, SetStateKeeps
<1>7. CASE ~(e.ear.current # "none" /\ e.ear.listening)
  <2>1. /\ idle \in Worlds /\ ~idle.ear.wanted
        /\ idle.ear.announced = e.ear.announced
        /\ Pending(idle.ear) =>
             /\ Handles(idle.mic, idle.ear, idle.standby)
             /\ Followed(idle.mic, idle.ear, idle.standby)
             /\ Alive(idle.mic, idle.standby) /\ idle.handed = 0
             /\ idle.mic.owner = "ear" => idle.mic.state \in {"ending", "faulted"}
        /\ ~Pending(idle.ear) => Sound(idle)
    BY <1>4, <1>5, LetGo
  <2> HIDE DEF idle
  <2>2. CASE Pending(idle.ear)
    BY <1>3, <1>7, <2>1, <2>2, DeliverKeeps
  <2>3. CASE ~Pending(idle.ear)
    BY <1>3, <1>5, <1>7, <2>1, <2>3, SetStateKeeps
  <2>. QED
    BY <2>2, <2>3
<1>. QED
  BY <1>6, <1>7

\* Standby that is up takes the engine or tries again, whatever called _spin.
LEMMA WakeSpinKeeps ==
  ASSUME NEW w, Whole(w), w.standby.retry => w.standby.stray < MaxStrays
  PROVE  LET v == WakeSpin(w) IN
         /\ Sound(v) /\ v.ear = w.ear /\ v.page = w.page
         /\ v.standby.enabled = w.standby.enabled
         /\ v.standby.suspended = w.standby.suspended
<1> DEFINE v == WakeSpin(w)
           up == w.standby.enabled /\ ~w.standby.suspended
<1>0. w \in Worlds
  BY DEF Whole
<1>1. w.mic \in Mics /\ w.ear \in Ears /\ w.standby \in Standbys
  BY <1>0, Parts
<1>2. /\ v \in Worlds /\ v.ear = w.ear /\ v.page = w.page /\ v.handed = w.handed
      /\ v.standby.enabled = w.standby.enabled
      /\ v.standby.suspended = w.standby.suspended
      /\ ~up => v.mic = w.mic /\ v.standby = w.standby
      /\ up /\ w.mic = Free =>
           v.mic = Fresh("wake") /\ v.standby = [w.standby EXCEPT !.current = "held"]
      /\ up /\ w.mic # Free =>
           /\ v.mic = [w.mic EXCEPT !.orphan = IF w.mic.owner = "wake" THEN TRUE ELSE @]
           /\ v.standby.current = "none" /\ v.standby.retry
  BY <1>0, WakeSpinFx
<1> HIDE DEF v
<1>3. CASE ~up
  BY <1>2, <1>3 DEF Sound, Whole, Alive, v
<1>4. CASE up /\ w.mic = Free
  <2>1. v.mic.owner = "wake" /\ v.standby.current = "held" /\ w.ear.current # "held"
    BY <1>1, <1>2, <1>4 DEF Whole, Fresh, Standbys, Handles, Free
  <2>2. v.mic.state = "starting" /\ v.mic # Free
    BY <1>2, <1>4 DEF Fresh, Free
  <2>3. /\ Handles(v.mic, v.ear, v.standby) /\ Followed(v.mic, v.ear, v.standby)
        /\ Alive(v.mic, v.standby)
    BY <1>2, <2>1, <2>2 DEF Whole, Handles, Followed, Alive
  <2>4. Once(v.mic, v.ear, v.handed)
    BY <1>2, <2>1 DEF Whole, Once
  <2>5. Followable(v.mic, v.ear) /\ Awaited(v.mic, v.ear)
    BY <1>2, <2>1 DEF Whole, Followable, Awaited
  <2>. QED
    BY <1>2, <2>3, <2>4, <2>5 DEF Sound, Whole, v
<1>5. CASE up /\ w.mic # Free
  <2>1. /\ v.mic.owner = w.mic.owner /\ v.mic.state = w.mic.state
        /\ v.mic.owner = "wake" => v.mic.orphan
        /\ v.mic.owner # "wake" => v.mic.orphan = w.mic.orphan
        /\ v.standby.current = "none" /\ v.standby.retry
    BY <1>1, <1>2, <1>5 DEF Mics
  <2>2. w.mic.owner # "none" /\ v.mic # Free
    BY <1>5, <2>1 DEF Whole, Handles, Free
  <2>3. Handles(v.mic, v.ear, v.standby)
    BY <1>2, <2>1, <2>2 DEF Whole, Handles
  <2>4. Followed(v.mic, v.ear, v.standby)
    BY <1>1, <1>2, <2>1, <2>2 DEF Whole, Followed, Live, Mics
  <2>5. Alive(v.mic, v.standby)
    BY <2>1 DEF Alive
  <2>6. Once(v.mic, v.ear, v.handed) /\ Followable(v.mic, v.ear) /\ Awaited(v.mic, v.ear)
    BY <1>2, <2>1 DEF Whole, Once, Followable, Awaited
  <2>. QED
    BY <1>2, <2>3, <2>4, <2>5, <2>6 DEF Sound, Whole, v
<1>. QED
  <2>1. Sound(v)
    BY <1>3, <1>4, <1>5 DEF v
  <2>. QED
    BY <1>2, <2>1 DEF v

-----------------------------------------------------------------------------
(* Every step keeps the invariant.                                         *)

LEMMA Here ==
  ASSUME IInv
  PROVE  /\ World \in Worlds /\ Sound(World) /\ Owed(World.ear, World.standby, World.page)
         /\ World.mic = mic /\ World.ear = ear /\ World.standby = standby
         /\ World.page = page /\ World.handed = handed
         /\ mic \in Mics /\ ear \in Ears /\ standby \in Standbys /\ page \in Pages
         /\ handed \in 0 .. 2
<1>1. /\ World.mic = mic /\ World.ear = ear /\ World.standby = standby
      /\ World.page = page /\ World.handed = handed
  BY DEF World
<1>2. World \in Worlds
  BY DEF IInv, Sound, Whole
<1>. QED
  BY <1>1, <1>2, Parts DEF IInv

LEMMA Lands ==
  ASSUME NEW w, Sound(w), Owed(w.ear, w.standby, w.page), Leaves(w)
  PROVE  IInv'
<1>1. w \in Worlds
  BY DEF Sound, Whole
<1>2. w = [mic |-> w.mic, ear |-> w.ear, standby |-> w.standby, page |-> w.page,
           handed |-> w.handed]
  BY <1>1 DEF Worlds
<1>3. w = World'
  BY <1>2 DEF World, Leaves
<1>4. /\ w.ear = ear' /\ w.standby = standby' /\ w.page = page'
  BY DEF Leaves
<1>. QED
  BY <1>3, <1>4 DEF IInv

LEMMA EarStartsKeeps ==
  ASSUME IInv, EarStarts
  PROVE  IInv'
<1> DEFINE w == World
           y == [w EXCEPT !.mic.state = "running"]
           x == [y EXCEPT !.ear.listening = TRUE, !.ear.startTimer = FALSE]
           v == SetState(x, TRUE)
<1>1. /\ w \in Worlds /\ Sound(w) /\ Owed(w.ear, w.standby, w.page)
      /\ w.mic \in Mics /\ w.ear \in Ears /\ w.mic.owner = "ear" /\ w.mic.state = "starting"
  BY Here DEF EarStarts
<1>2. Leaves(v)
  BY DEF EarStarts
<1> HIDE DEF w
<1>3. /\ y \in Worlds /\ y.mic = [w.mic EXCEPT !.state = "running"] /\ y.ear = w.ear
      /\ y.standby = w.standby /\ y.page = w.page /\ y.handed = w.handed
  BY <1>1 DEF Worlds, Mics
<1> HIDE DEF y
<1>4. /\ x \in Worlds /\ x.mic = y.mic /\ x.standby = w.standby /\ x.page = w.page
      /\ x.handed = w.handed /\ x.ear = [w.ear EXCEPT !.listening = TRUE, !.startTimer = FALSE]
  BY <1>3 DEF Worlds, Ears
<1> HIDE DEF x
<1>5. /\ x.mic.owner = "ear" /\ x.mic.state = "running" /\ x.mic.orphan = w.mic.orphan
  BY <1>1, <1>3, <1>4 DEF Mics
<1>6. /\ x.ear.wanted = w.ear.wanted /\ x.ear.deadline = w.ear.deadline
      /\ x.ear.announced = w.ear.announced /\ x.ear.current = w.ear.current
      /\ x.ear.partial = w.ear.partial /\ x.ear.delivered = w.ear.delivered
      /\ x.ear.onlyEnd = w.ear.onlyEnd /\ ~x.ear.startTimer
      /\ x.ear.asks = w.ear.asks
  BY <1>1, <1>4 DEF Ears
<1>7. Sound(x)
  <2>1. Handles(x.mic, x.ear, x.standby) /\ Followed(x.mic, x.ear, x.standby)
    BY <1>1, <1>4, <1>5, <1>6 DEF Sound, Whole, Handles, Followed, Live, Free
  <2>2. Alive(x.mic, x.standby) /\ Once(x.mic, x.ear, x.handed)
    BY <1>1, <1>4, <1>5, <1>6 DEF Sound, Whole, Alive, Once, Pending
  <2>3. Followable(x.mic, x.ear) /\ Awaited(x.mic, x.ear)
    BY <1>1, <1>4, <1>5, <1>6 DEF Sound, Whole, Followable, Awaited, Pending
  <2>. QED
    BY <1>4, <2>1, <2>2, <2>3 DEF Sound, Whole
<1>8. Owed(x.ear, x.standby, x.page)
  BY <1>1, <1>4, <1>6 DEF Owed
<1>9. Sound(v) /\ Owed(v.ear, v.standby, v.page)
  BY <1>7, <1>8, SetStateKeeps
<1> HIDE DEF v
<1>. QED
  BY <1>2, <1>9, Lands

LEMMA EarHearsPartKeeps ==
  ASSUME IInv, EarHearsPart
  PROVE  IInv'
<1> DEFINE w == World
           x == [w EXCEPT !.ear.partial = TRUE]
<1>1. /\ w \in Worlds /\ Sound(w) /\ Owed(w.ear, w.standby, w.page)
      /\ w.mic \in Mics /\ w.ear \in Ears /\ w.mic.owner = "ear"
      /\ w.mic.state \in {"running", "stopping"}
      /\ w.handed \in 0 .. 2
  BY Here DEF EarHearsPart
<1>2. w.mic = mic /\ w.ear = ear /\ w.standby = standby /\ w.page = page /\ w.handed = handed
  BY Here
<1> HIDE DEF w
<1>3. /\ x \in Worlds /\ x.mic = w.mic /\ x.ear = [w.ear EXCEPT !.partial = TRUE]
      /\ x.standby = w.standby /\ x.page = w.page /\ x.handed = w.handed
  BY <1>1 DEF Worlds, Ears
<1> HIDE DEF x
<1>4. Leaves(x)
  BY <1>2, <1>3 DEF EarHearsPart, Leaves
<1>5. /\ x.ear.wanted = w.ear.wanted /\ x.ear.deadline = w.ear.deadline
      /\ x.ear.announced = w.ear.announced /\ x.ear.current = w.ear.current
      /\ x.ear.delivered = w.ear.delivered
      /\ x.ear.onlyEnd = w.ear.onlyEnd /\ x.ear.startTimer = w.ear.startTimer
      /\ x.ear.asks = w.ear.asks
  BY <1>1, <1>3 DEF Ears
<1>6. x.handed # 1 /\ x.handed <= 1
  BY <1>1, <1>3 DEF Sound, Whole, Once
<1>7. Handles(x.mic, x.ear, x.standby) /\ Followed(x.mic, x.ear, x.standby)
  BY <1>1, <1>3, <1>5 DEF Sound, Whole, Handles, Followed
<1>8. Alive(x.mic, x.standby) /\ Once(x.mic, x.ear, x.handed)
  BY <1>1, <1>3, <1>6 DEF Sound, Whole, Once
<1>9. Followable(x.mic, x.ear) /\ Awaited(x.mic, x.ear)
  BY <1>1, <1>3, <1>5 DEF Sound, Whole, Followable, Awaited, Pending
<1>10. Sound(x) /\ Owed(x.ear, x.standby, x.page)
  BY <1>1, <1>3, <1>5, <1>7, <1>8, <1>9 DEF Sound, Whole, Owed
<1>. QED
  BY <1>4, <1>10, Lands

LEMMA EarHearsAllKeeps ==
  ASSUME IInv, EarHearsAll
  PROVE  IInv'
<1> DEFINE w == World
           y == [w EXCEPT !.mic.state = "ending"]
           x == [y EXCEPT !.ear.delivered = TRUE, !.ear.partial = FALSE,
                          !.ear.onlyEnd = FALSE, !.ear.wanted = FALSE]
           u == [x EXCEPT !.handed = 1]
           v == HandOver(x)
<1>1. /\ w \in Worlds /\ Sound(w)
      /\ w.mic \in Mics /\ w.ear \in Ears /\ w.mic.owner = "ear"
      /\ w.mic.state \in {"running", "stopping"} /\ w.handed \in 0 .. 2
  BY Here DEF EarHearsAll
<1>2. Leaves(v)
  BY DEF EarHearsAll
<1> HIDE DEF w
<1>3. /\ y \in Worlds /\ y.mic = [w.mic EXCEPT !.state = "ending"] /\ y.ear = w.ear
      /\ y.standby = w.standby /\ y.page = w.page /\ y.handed = w.handed
  BY <1>1 DEF Worlds, Mics
<1> HIDE DEF y
<1>4. /\ x \in Worlds /\ x.mic = y.mic /\ x.standby = w.standby /\ x.page = w.page
      /\ x.handed = w.handed
      /\ x.ear = [w.ear EXCEPT !.delivered = TRUE, !.partial = FALSE, !.onlyEnd = FALSE,
                               !.wanted = FALSE]
  BY <1>3 DEF Worlds, Ears
<1> HIDE DEF x
<1>5. x.mic.owner = "ear" /\ x.mic.state = "ending"
  BY <1>1, <1>3, <1>4 DEF Mics
<1>6. /\ ~x.ear.wanted /\ x.ear.current = w.ear.current /\ x.ear.delivered
      /\ x.ear.startTimer = w.ear.startTimer
  BY <1>1, <1>4 DEF Ears
<1>7. x.handed = 0
  BY <1>1, <1>4 DEF Sound, Whole, Once
<1>8. /\ u \in Worlds /\ u.mic = x.mic /\ u.ear = x.ear /\ u.standby = x.standby
      /\ u.handed = 1
  BY <1>4 DEF Worlds
<1> HIDE DEF u
<1>9. Sound(u)
  <2>1. Handles(u.mic, u.ear, u.standby) /\ Followed(u.mic, u.ear, u.standby)
    BY <1>1, <1>4, <1>5, <1>6, <1>8 DEF Sound, Whole, Handles, Followed, Live, Free
  <2>2. Alive(u.mic, u.standby) /\ Once(u.mic, u.ear, u.handed)
    BY <1>1, <1>4, <1>5, <1>6, <1>8 DEF Sound, Whole, Alive, Once, Pending
  <2>3. Followable(u.mic, u.ear) /\ Awaited(u.mic, u.ear)
    BY <1>5, <1>6, <1>8 DEF Followable, Awaited, Pending
  <2>. QED
    BY <1>8, <2>1, <2>2, <2>3 DEF Sound, Whole
<1>10. /\ v \in Worlds /\ v.ear = x.ear /\ StandsDown(x, v) /\ v.page.turn # "idle"
       /\ v.handed = IF x.handed < 2 THEN x.handed + 1 ELSE x.handed
  BY <1>4, HandOverFx
<1> HIDE DEF v
<1>11. Sound(v)
  <2>1. StandsDown(u, v) /\ v.ear = u.ear /\ v.handed = u.handed
    BY <1>7, <1>8, <1>10 DEF StandsDown
  <2>. QED
    BY <1>9, <1>10, <2>1, StandsDownKeeps
<1>12. Owed(v.ear, v.standby, v.page)
  BY <1>10 DEF Owed
<1>. QED
  BY <1>2, <1>11, <1>12, Lands

LEMMA EarFailsKeeps ==
  ASSUME IInv, EarFails
  PROVE  IInv'
<1>1. PICK blocked \in BOOLEAN :
         Leaves(OnError([World EXCEPT !.mic.state = "ending",
                                      !.ear.wanted = FALSE, !.ear.onlyEnd = TRUE,
                                      !.ear.granted = @ /\ ~blocked]))
  BY DEF EarFails
<1> DEFINE w == World
           g == w.ear.granted /\ ~blocked
           y == [w EXCEPT !.mic.state = "ending"]
           x == [y EXCEPT !.ear.wanted = FALSE, !.ear.onlyEnd = TRUE, !.ear.granted = g]
           v == ResumeWake(x)
<1>2. /\ w \in Worlds /\ Sound(w)
      /\ w.mic \in Mics /\ w.ear \in Ears /\ w.mic.owner = "ear"
      /\ w.mic.state \in {"starting", "running", "stopping"}
  BY Here DEF EarFails
<1>3. Leaves(v)
  BY <1>1 DEF OnError
<1> HIDE DEF w
<1>4. g \in BOOLEAN
  OBVIOUS
<1> HIDE DEF g
<1>5. /\ y \in Worlds /\ y.mic = [w.mic EXCEPT !.state = "ending"] /\ y.ear = w.ear
      /\ y.standby = w.standby /\ y.page = w.page /\ y.handed = w.handed
  BY <1>2 DEF Worlds, Mics
<1> HIDE DEF y
<1>6. /\ x \in Worlds /\ x.mic = y.mic /\ x.standby = w.standby /\ x.page = w.page
      /\ x.handed = w.handed
      /\ x.ear = [w.ear EXCEPT !.wanted = FALSE, !.onlyEnd = TRUE, !.granted = g]
  BY <1>4, <1>5 DEF Worlds, Ears
<1> HIDE DEF x
<1>7. x.mic.owner = "ear" /\ x.mic.state = "ending"
  BY <1>2, <1>5, <1>6 DEF Mics
<1>8. /\ ~x.ear.wanted /\ x.ear.current = w.ear.current /\ x.ear.onlyEnd
      /\ x.ear.partial = w.ear.partial /\ x.ear.delivered = w.ear.delivered
      /\ x.ear.startTimer = w.ear.startTimer
  BY <1>2, <1>6 DEF Ears
<1>9. Sound(x)
  <2>1. Handles(x.mic, x.ear, x.standby) /\ Followed(x.mic, x.ear, x.standby)
    BY <1>2, <1>6, <1>7, <1>8 DEF Sound, Whole, Handles, Followed, Live, Free
  <2>2. Alive(x.mic, x.standby) /\ Once(x.mic, x.ear, x.handed)
    BY <1>2, <1>6, <1>7, <1>8 DEF Sound, Whole, Alive, Once, Pending
  <2>3. Followable(x.mic, x.ear) /\ Awaited(x.mic, x.ear)
    BY <1>2, <1>6, <1>7, <1>8 DEF Sound, Whole, Followable, Awaited, Pending
  <2>. QED
    BY <1>6, <2>1, <2>2, <2>3 DEF Sound, Whole
<1>10. Sound(v) /\ Owed(v.ear, v.standby, v.page)
  BY <1>9, ResumeWakeKeeps
<1> HIDE DEF v
<1>. QED
  BY <1>3, <1>10, Lands

\* What the promises are about is the same in both worlds.
SameListen(w, v) ==
    /\ v.mic = w.mic /\ v.standby = w.standby /\ v.handed = w.handed
    /\ v.ear.wanted = w.ear.wanted /\ v.ear.deadline = w.ear.deadline
    /\ v.ear.announced = w.ear.announced /\ v.ear.current = w.ear.current
    /\ v.ear.partial = w.ear.partial /\ v.ear.delivered = w.ear.delivered
    /\ v.ear.onlyEnd = w.ear.onlyEnd /\ v.ear.startTimer = w.ear.startTimer

LEMMA SameListenKeeps ==
  ASSUME NEW w, NEW v \in Worlds, Sound(w), SameListen(w, v)
  PROVE  Sound(v)
BY DEF SameListen, Sound, Whole, Handles, Followed, Once, Followable, Awaited, Pending

LEMMA ReleaseKeeps ==
  ASSUME NEW w, Sound(w), w.mic.owner = "ear"
  PROVE  LET v == Release(w) IN
         /\ Sound(v) /\ v.mic = Free /\ v.page = w.page /\ v.handed = w.handed
         /\ v.ear.asks = w.ear.asks /\ v.ear.wanted = w.ear.wanted
         /\ v.ear.restarts = w.ear.restarts
         /\ Pending(v.ear) <=> Pending(w.ear)
         /\ v.standby.enabled = w.standby.enabled
         /\ v.standby.suspended = w.standby.suspended
<1> DEFINE v == Release(w)
<1>1. w \in Worlds
  BY DEF Sound, Whole
<1>2. w.ear \in Ears /\ w.standby \in Standbys
  BY <1>1, Parts
<1>3. /\ v \in Worlds /\ v.page = w.page /\ v.handed = w.handed /\ v.mic = Free
      /\ v.ear = [w.ear EXCEPT !.current = IF @ = "held" THEN "gone" ELSE @]
      /\ v.standby = [w.standby EXCEPT !.current = "none"]
  BY <1>1, ReleaseFx
<1> HIDE DEF v
<1>4. /\ v.ear.wanted = w.ear.wanted /\ v.ear.deadline = w.ear.deadline
      /\ v.ear.announced = w.ear.announced /\ v.ear.current # "held"
      /\ v.ear.partial = w.ear.partial /\ v.ear.delivered = w.ear.delivered
      /\ v.ear.onlyEnd = w.ear.onlyEnd /\ v.ear.startTimer = w.ear.startTimer
      /\ v.ear.asks = w.ear.asks /\ v.ear.restarts = w.ear.restarts
  BY <1>2, <1>3 DEF Ears
<1>5. /\ v.standby.enabled = w.standby.enabled /\ v.standby.suspended = w.standby.suspended
      /\ v.standby.current = "none" /\ v.standby.retry = w.standby.retry
      /\ v.standby.stray = w.standby.stray
  BY <1>2, <1>3 DEF Standbys
<1>6. v.mic.owner = "none" /\ v.mic.state = "free"
  BY <1>3 DEF Free
<1>7. Pending(v.ear) <=> Pending(w.ear)
  BY <1>4 DEF Pending
<1>8. Handles(v.mic, v.ear, v.standby) /\ Followed(v.mic, v.ear, v.standby)
  BY <1>3, <1>4, <1>5, <1>6 DEF Handles, Followed, Live
<1>9. Alive(v.mic, v.standby) /\ Once(v.mic, v.ear, v.handed)
  BY <1>3, <1>5, <1>6, <1>7 DEF Sound, Whole, Alive, Once
<1>10. Followable(v.mic, v.ear) /\ Awaited(v.mic, v.ear)
  BY <1>4, <1>6, <1>7 DEF Sound, Whole, Followable, Awaited
<1>11. Sound(v)
  BY <1>3, <1>8, <1>9, <1>10 DEF Sound, Whole
<1>. QED
  BY <1>3, <1>4, <1>5, <1>7, <1>11 DEF v

LEMMA CloseKeeps ==
  ASSUME NEW w, Sound(w), ~Pending(w.ear), w.mic = Free, Owed(w.ear, w.standby, w.page)
  PROVE  LET v == Close(w) IN Sound(v) /\ Owed(v.ear, v.standby, v.page)
<1> DEFINE a == [w EXCEPT !.ear.wanted = FALSE, !.ear.startTimer = FALSE,
                          !.ear.deadline = FALSE]
<1>1. w \in Worlds
  BY DEF Sound, Whole
<1>2. Close(w) = SetState(a, FALSE)
  BY DEF Close
<1>3. /\ a \in Worlds /\ a.mic = w.mic /\ a.standby = w.standby /\ a.page = w.page
      /\ a.handed = w.handed
      /\ a.ear = [w.ear EXCEPT !.wanted = FALSE, !.startTimer = FALSE, !.deadline = FALSE]
  BY <1>1 DEF Worlds, Ears
<1> HIDE DEF a
<1>4. w.ear \in Ears
  BY <1>1, Parts
<1>5. /\ ~a.ear.wanted /\ ~a.ear.startTimer /\ a.ear.current = w.ear.current
      /\ a.ear.partial = w.ear.partial /\ a.ear.delivered = w.ear.delivered
      /\ a.ear.announced = w.ear.announced /\ a.ear.asks = w.ear.asks
  BY <1>3, <1>4 DEF Ears
<1>6. Sound(a)
  <2>1. a.mic.owner = "none" /\ a.mic.state = "free" /\ ~Pending(a.ear)
    BY <1>3, <1>5 DEF Free, Pending
  <2>2. Handles(a.mic, a.ear, a.standby) /\ Followed(a.mic, a.ear, a.standby)
    BY <1>3, <1>5 DEF Sound, Whole, Handles, Followed
  <2>3. Alive(a.mic, a.standby) /\ Once(a.mic, a.ear, a.handed)
    BY <1>3, <2>1 DEF Sound, Whole, Once
  <2>4. Followable(a.mic, a.ear) /\ Awaited(a.mic, a.ear)
    BY <1>5, <2>1 DEF Followable, Awaited
  <2>. QED
    BY <1>3, <2>2, <2>3, <2>4 DEF Sound, Whole
<1>7. Owed(a.ear, a.standby, a.page) \/ a.ear.announced
  BY <1>3, <1>5 DEF Sound, Whole, Followable, Owed
<1>. QED
  BY <1>2, <1>5, <1>6, <1>7, SetStateKeeps

LEMMA EarVanishesKeeps ==
  ASSUME IInv, EarVanishes
  PROVE  IInv'
<1> DEFINE v == Release(World)
<1>1. /\ Sound(World) /\ Owed(World.ear, World.standby, World.page)
      /\ World.mic.owner = "ear" /\ Leaves(v)
  BY Here DEF EarVanishes
<1>2. /\ Sound(v) /\ v.page = World.page
      /\ v.ear.asks = World.ear.asks /\ v.ear.wanted = World.ear.wanted
      /\ v.standby.enabled = World.standby.enabled
      /\ v.standby.suspended = World.standby.suspended
  BY <1>1, ReleaseKeeps
<1> HIDE DEF v
<1>3. Owed(v.ear, v.standby, v.page)
  BY <1>1, <1>2 DEF Owed
<1>. QED
  BY <1>1, <1>2, <1>3, Lands

LEMMA EarEndsKeeps ==
  ASSUME IInv, EarEnds
  PROVE  IInv'
<1> DEFINE r == Release(World)
           w == [r EXCEPT !.ear.listening = FALSE]
           again == [w EXCEPT !.ear.restarts = @ + 1]
           q == IF ear.wanted THEN OnError(w) ELSE w
<1>1. /\ Sound(World) /\ Owed(World.ear, World.standby, World.page)
      /\ World.mic.owner = "ear" /\ World.ear = ear /\ ear \in Ears
      /\ World.handed \in 0 .. 2
  BY Here DEF EarEnds
<1>2. PICK late \in BOOLEAN :
        Leaves(IF Pending(ear) THEN Deliver(w)
               ELSE IF MayRestart(ear) /\ ~late THEN Spin(again)
               ELSE Close(q))
  BY DEF EarEnds
<1>3. /\ Sound(r) /\ r.mic = Free /\ r.page = World.page
      /\ r.handed = World.handed
      /\ r.ear.asks = ear.asks /\ r.ear.wanted = ear.wanted
      /\ r.ear.restarts = ear.restarts
      /\ Pending(r.ear) <=> Pending(ear)
      /\ r.standby.enabled = World.standby.enabled
      /\ r.standby.suspended = World.standby.suspended
  BY <1>1, ReleaseKeeps
<1>4. r \in Worlds
  BY <1>3 DEF Sound, Whole
<1>5. r.ear \in Ears
  BY <1>4, Parts
<1> HIDE DEF r
<1>6. /\ w \in Worlds /\ w.mic = r.mic /\ w.standby = r.standby /\ w.page = r.page
      /\ w.handed = r.handed /\ w.ear = [r.ear EXCEPT !.listening = FALSE]
  BY <1>4 DEF Worlds, Ears
<1> HIDE DEF w
<1>7. /\ w.ear.wanted = r.ear.wanted /\ w.ear.deadline = r.ear.deadline
      /\ w.ear.announced = r.ear.announced /\ w.ear.current = r.ear.current
      /\ w.ear.partial = r.ear.partial /\ w.ear.delivered = r.ear.delivered
      /\ w.ear.onlyEnd = r.ear.onlyEnd /\ w.ear.startTimer = r.ear.startTimer
      /\ w.ear.asks = r.ear.asks /\ w.ear.restarts = r.ear.restarts
  BY <1>5, <1>6 DEF Ears
<1>13. Pending(w.ear) <=> Pending(ear)
  BY <1>3, <1>7 DEF Pending
<1>8. Sound(w)
  BY <1>3, <1>6, <1>7, SameListenKeeps DEF SameListen
<1>9. Owed(w.ear, w.standby, w.page)
  BY <1>1, <1>3, <1>6, <1>7 DEF Owed
<1>10. CASE Pending(ear)
  <2>1. w.handed = 0
    BY <1>1, <1>3, <1>6, <1>10 DEF Sound, Whole, Once
  <2>2. w.mic.owner = "none"
    BY <1>3, <1>6 DEF Free
  <2>3. Sound(Deliver(w)) /\ Owed(Deliver(w).ear, Deliver(w).standby, Deliver(w).page)
    BY <1>6, <1>8, <2>1, <2>2, DeliverKeeps DEF Sound, Whole
  <2>. QED
    BY <1>2, <1>10, <2>3, Lands
<1>11. CASE ~Pending(ear) /\ MayRestart(ear) /\ ~late
  <2> DEFINE v == Spin(again)
  <2>1. w.ear \in Ears /\ w.ear.restarts + 1 \in 0 .. MaxRestarts
    <3>1. w.ear \in Ears
      BY <1>6, Parts
    <3>2. w.ear.restarts \in 0 .. MaxRestarts
      BY <3>1 DEF Ears
    <3>3. w.ear.restarts < MaxRestarts
      BY <1>3, <1>7, <1>11 DEF MayRestart
    <3>. QED
      BY <3>1, <3>2, <3>3, VoiceAssumption
  <2>2. again = [w EXCEPT !.ear = [w.ear EXCEPT !.restarts = w.ear.restarts + 1]]
    BY <1>6 DEF Worlds
  <2> HIDE DEF again
  <2>3. [w.ear EXCEPT !.restarts = w.ear.restarts + 1] \in Ears
    BY <2>1 DEF Ears
  <2>4. /\ again \in Worlds /\ again.mic = w.mic /\ again.standby = w.standby
        /\ again.ear = [w.ear EXCEPT !.restarts = w.ear.restarts + 1]
    BY <1>6, <2>2, <2>3 DEF Worlds
  <2>5. /\ again.ear.wanted /\ again.ear.deadline = w.ear.deadline
        /\ again.ear.announced = w.ear.announced
        /\ again.ear.partial = w.ear.partial /\ again.ear.delivered = w.ear.delivered
        /\ again.ear \in Ears
    BY <1>3, <1>7, <1>11, <2>1, <2>3, <2>4 DEF Ears, MayRestart
  <2>6. again.mic = Free
    BY <1>3, <1>6, <2>4
  <2>7. /\ v \in Worlds /\ v.standby = again.standby /\ v.mic = Fresh("ear") /\ v.handed = 0
        /\ v.ear = [again.ear EXCEPT !.startTimer = TRUE, !.current = "held"]
    BY <2>4, <2>6, SpinFx
  <2> HIDE DEF v
  <2>8. /\ v.ear.wanted /\ v.ear.deadline = w.ear.deadline
        /\ v.ear.announced = w.ear.announced /\ v.ear.current = "held"
        /\ v.ear.partial = w.ear.partial /\ v.ear.delivered = w.ear.delivered
    BY <2>5, <2>7 DEF Ears
  <2>9. ~Pending(v.ear)
    BY <1>11, <1>13, <2>8 DEF Pending
  <2>10. /\ v.mic.owner = "ear" /\ v.mic.state = "starting"
         /\ w.mic.owner = "none" /\ v.mic # Free
    BY <1>3, <1>6, <2>7 DEF Fresh, Free
  <2>11. Handles(v.mic, v.ear, v.standby) /\ Followed(v.mic, v.ear, v.standby)
    BY <1>8, <2>4, <2>7, <2>8, <2>10 DEF Sound, Whole, Handles, Followed
  <2>12. Alive(v.mic, v.standby) /\ Once(v.mic, v.ear, v.handed)
    BY <1>8, <2>4, <2>7, <2>10 DEF Sound, Whole, Alive, Once
  <2>13. Followable(v.mic, v.ear) /\ Awaited(v.mic, v.ear)
    <3>1. w.ear.deadline /\ w.ear.announced
      BY <1>3, <1>7, <1>8, <1>11 DEF Sound, Whole, Followable, MayRestart
    <3>. QED
      BY <2>8, <2>9, <2>10, <3>1 DEF Followable, Awaited
  <2>14. Sound(v)
    BY <2>7, <2>11, <2>12, <2>13 DEF Sound, Whole
  <2>15. Owed(v.ear, v.standby, v.page)
    BY <2>8 DEF Owed
  <2>. QED
    BY <1>2, <1>11, <2>14, <2>15, Lands DEF v
<1>12. CASE ~Pending(ear) /\ ~(MayRestart(ear) /\ ~late)
  <2> DEFINE o == ResumeWake(w)
  <2>1. /\ Sound(o) /\ Owed(o.ear, o.standby, o.page)
    BY <1>8, ResumeWakeKeeps
  <2>2. o.ear = w.ear /\ o.mic = w.mic
    BY <1>6, ResumeWakeFx
  <2>3. q = IF ear.wanted THEN o ELSE w
    BY DEF OnError
  <2> HIDE DEF o, q
  <2>4. /\ Sound(q) /\ Owed(q.ear, q.standby, q.page) /\ ~Pending(q.ear) /\ q.mic = Free
    BY <1>3, <1>6, <1>8, <1>9, <1>12, <1>13, <2>1, <2>2, <2>3
  <2>5. Sound(Close(q)) /\ Owed(Close(q).ear, Close(q).standby, Close(q).page)
    BY <2>4, CloseKeeps
  <2>. QED
    BY <1>2, <1>12, <2>5, Lands
<1>. QED
  BY <1>10, <1>11, <1>12

LEMMA StartTimeoutKeeps ==
  ASSUME IInv, StartTimeout
  PROVE  IInv'
<1> DEFINE w == [World EXCEPT !.ear.startTimer = FALSE]
           x == [w EXCEPT !.ear.wanted = FALSE]
           given == Abandon(x)
<1>1. /\ World \in Worlds /\ Sound(World) /\ Owed(World.ear, World.standby, World.page)
      /\ World.ear = ear /\ ear \in Ears /\ ear.startTimer
  BY Here DEF StartTimeout
<1>2. Leaves(IF ~ear.listening /\ ear.wanted THEN SetState(OnError(given), FALSE) ELSE w)
  BY DEF StartTimeout
<1>3. /\ w \in Worlds /\ w.mic = World.mic /\ w.standby = World.standby
      /\ w.page = World.page /\ w.handed = World.handed
      /\ w.ear = [ear EXCEPT !.startTimer = FALSE]
  BY <1>1 DEF Worlds, Ears
<1> HIDE DEF w
<1>4. /\ w.ear.wanted = ear.wanted /\ w.ear.deadline = ear.deadline
      /\ w.ear.announced = ear.announced /\ w.ear.current = ear.current
      /\ w.ear.partial = ear.partial /\ w.ear.delivered = ear.delivered
      /\ w.ear.onlyEnd = ear.onlyEnd /\ ~w.ear.startTimer /\ w.ear.asks = ear.asks
  BY <1>1, <1>3 DEF Ears
<1>5. CASE ~ear.listening /\ ear.wanted
  <2>1. /\ x \in Worlds /\ x.mic = w.mic /\ x.standby = w.standby /\ x.handed = w.handed
        /\ x.ear = [w.ear EXCEPT !.wanted = FALSE]
    BY <1>3 DEF Worlds, Ears
  <2> HIDE DEF x
  <2>2. /\ ~x.ear.wanted /\ x.ear.current = ear.current /\ x.ear.partial = ear.partial
        /\ x.ear.delivered = ear.delivered
    BY <1>3, <1>4, <2>1 DEF Worlds, Ears
  <2>3. /\ given \in Worlds /\ ~given.ear.wanted
        /\ Pending(given.ear) <=> Pending(ear)
        /\ ~Pending(given.ear) => Sound(given)
    BY <1>1, <1>3, <1>5, <2>1, <2>2, LetGo
  <2> HIDE DEF given
  <2>4. Sound(given) /\ ~given.ear.wanted
    BY <1>1, <2>3 DEF Sound, Whole, Awaited
  <2> DEFINE v == SetState(OnError(given), FALSE)
  <2>5. Sound(v) /\ Owed(v.ear, v.standby, v.page)
    BY <2>4, GiveUpKeeps
  <2>. QED
    BY <1>2, <1>5, <2>5, Lands
<1>6. CASE ~(~ear.listening /\ ear.wanted)
  <2>1. Handles(w.mic, w.ear, w.standby) /\ Followed(w.mic, w.ear, w.standby)
    BY <1>1, <1>3, <1>4 DEF Sound, Whole, Handles, Followed
  <2>2. Alive(w.mic, w.standby) /\ Once(w.mic, w.ear, w.handed)
    BY <1>1, <1>3, <1>4 DEF Sound, Whole, Once, Pending
  <2>3. Followable(w.mic, w.ear) /\ Awaited(w.mic, w.ear)
    BY <1>1, <1>3, <1>4 DEF Sound, Whole, Followable, Awaited, Pending
  <2>4. Sound(w) /\ Owed(w.ear, w.standby, w.page)
    BY <1>1, <1>3, <1>4, <2>1, <2>2, <2>3 DEF Sound, Whole, Owed
  <2>. QED
    BY <1>2, <1>6, <2>4, Lands
<1>. QED
  BY <1>5, <1>6

LEMMA DeadlineTimeoutKeeps ==
  ASSUME IInv, DeadlineTimeout
  PROVE  IInv'
<1> DEFINE w == [World EXCEPT !.ear.deadline = FALSE]
           x == [w EXCEPT !.ear.wanted = FALSE]
           given == Abandon(x)
<1>1. /\ World \in Worlds /\ Sound(World) /\ Owed(World.ear, World.standby, World.page)
      /\ World.ear = ear /\ ear \in Ears
  BY Here
<1>2. Leaves(IF ~ear.wanted THEN w
             ELSE IF Pending(given.ear) THEN Deliver(given)
             ELSE SetState(OnError(given), FALSE))
  BY DEF DeadlineTimeout
<1>3. /\ w \in Worlds /\ w.mic = World.mic /\ w.standby = World.standby
      /\ w.page = World.page /\ w.handed = World.handed
      /\ w.ear = [ear EXCEPT !.deadline = FALSE]
  BY <1>1 DEF Worlds, Ears
<1> HIDE DEF w
<1>4. /\ w.ear.wanted = ear.wanted
      /\ w.ear.announced = ear.announced /\ w.ear.current = ear.current
      /\ w.ear.partial = ear.partial /\ w.ear.delivered = ear.delivered
      /\ w.ear.onlyEnd = ear.onlyEnd /\ w.ear.startTimer = ear.startTimer
      /\ w.ear.asks = ear.asks
  BY <1>1, <1>3 DEF Ears
<1>5. CASE ear.wanted
  <2>1. /\ x \in Worlds /\ x.mic = w.mic /\ x.standby = w.standby /\ x.handed = w.handed
        /\ x.ear = [w.ear EXCEPT !.wanted = FALSE]
    BY <1>3 DEF Worlds, Ears
  <2> HIDE DEF x
  <2>2. /\ ~x.ear.wanted /\ x.ear.current = ear.current /\ x.ear.partial = ear.partial
        /\ x.ear.delivered = ear.delivered
    BY <1>3, <1>4, <2>1 DEF Worlds, Ears
  <2>3. /\ given \in Worlds /\ ~given.ear.wanted
        /\ Pending(given.ear) =>
             /\ Handles(given.mic, given.ear, given.standby)
             /\ Followed(given.mic, given.ear, given.standby)
             /\ Alive(given.mic, given.standby) /\ given.handed = 0
             /\ given.mic.owner = "ear" => given.mic.state \in {"ending", "faulted"}
        /\ ~Pending(given.ear) => Sound(given)
    BY <1>1, <1>3, <1>5, <2>1, <2>2, LetGo
  <2> HIDE DEF given
  <2>4. CASE Pending(given.ear)
    <3> DEFINE v == Deliver(given)
    <3>1. Sound(v) /\ Owed(v.ear, v.standby, v.page)
      BY <2>3, <2>4, DeliverKeeps
    <3>. QED
      BY <1>2, <1>5, <2>4, <3>1, Lands
  <2>5. CASE ~Pending(given.ear)
    <3> DEFINE v == SetState(OnError(given), FALSE)
    <3>1. Sound(v) /\ Owed(v.ear, v.standby, v.page)
      BY <2>3, <2>5, GiveUpKeeps
    <3>. QED
      BY <1>2, <1>5, <2>5, <3>1, Lands
  <2>. QED
    BY <2>4, <2>5
<1>6. CASE ~ear.wanted
  <2>1. Handles(w.mic, w.ear, w.standby) /\ Followed(w.mic, w.ear, w.standby)
    BY <1>1, <1>3, <1>4 DEF Sound, Whole, Handles, Followed
  <2>2. Alive(w.mic, w.standby) /\ Once(w.mic, w.ear, w.handed)
    BY <1>1, <1>3, <1>4 DEF Sound, Whole, Once, Pending
  <2>3. Followable(w.mic, w.ear) /\ Awaited(w.mic, w.ear)
    BY <1>1, <1>3, <1>4, <1>6 DEF Sound, Whole, Followable, Awaited, Pending
  <2>4. Sound(w) /\ Owed(w.ear, w.standby, w.page)
    BY <1>1, <1>3, <1>4, <2>1, <2>2, <2>3 DEF Sound, Whole, Owed
  <2>. QED
    BY <1>2, <1>6, <2>4, Lands
<1>. QED
  BY <1>5, <1>6

\* getUserMedia answered: one prompt less is open.
LEMMA AnsweredKeeps ==
  ASSUME NEW w, NEW by \in {"mic", "wake"}, NEW yes \in BOOLEAN, Sound(w), w.ear.asks[by] > 0
  PROVE  Sound([w EXCEPT !.ear.asks[by] = @ - 1, !.ear.granted = yes])
<1> DEFINE q == [w.ear.asks EXCEPT ![by] = @ - 1]
           x == [w EXCEPT !.ear.asks[by] = @ - 1, !.ear.granted = yes]
<1>1. w \in Worlds
  BY DEF Sound, Whole
<1>2. w.ear \in Ears
  BY <1>1, Parts
<1>3. w.ear.asks \in [{"mic", "wake"} -> 0 .. MaxAsks]
  BY <1>2 DEF Ears
<1>4. q \in [{"mic", "wake"} -> 0 .. MaxAsks]
  BY <1>3, VoiceAssumption
<1>5. /\ x.mic = w.mic /\ x.standby = w.standby /\ x.handed = w.handed
      /\ x.ear = [w.ear EXCEPT !.asks = q, !.granted = yes]
      /\ x = [w EXCEPT !.ear = x.ear]
  BY <1>1, <1>2 DEF Worlds, Ears
<1> HIDE DEF q, x
<1>6. x.ear \in Ears
  BY <1>2, <1>4, <1>5 DEF Ears
<1>7. x \in Worlds
  BY <1>1, <1>5, <1>6 DEF Worlds
<1>8. SameListen(w, x)
  BY <1>2, <1>5 DEF SameListen, Ears
<1>9. Sound(x)
  BY <1>7, <1>8, SameListenKeeps
<1>. QED
  BY <1>9 DEF x

LEMMA GrantKeeps ==
  ASSUME IInv, NEW by \in {"mic", "wake"}, Grant(by)
  PROVE  IInv'
<1> DEFINE x == [World EXCEPT !.ear.asks[by] = @ - 1, !.ear.granted = TRUE]
           v == Begin(x)
<1>1. Sound(World) /\ World.ear.asks[by] > 0 /\ Leaves(v)
  BY Here DEF Grant
<1>2. Sound(x)
  BY <1>1, AnsweredKeeps
<1> HIDE DEF x
<1>3. Sound(v) /\ Owed(v.ear, v.standby, v.page)
  BY <1>2, BeginKeeps
<1>. QED
  BY <1>1, <1>3, Lands

LEMMA DenyKeeps ==
  ASSUME IInv, NEW by \in {"mic", "wake"}, Deny(by)
  PROVE  IInv'
<1> DEFINE x == [World EXCEPT !.ear.asks[by] = @ - 1, !.ear.granted = FALSE]
           r == ResumeWake(x)
           v == Refused(r, by)
<1>1. Sound(World) /\ World.ear.asks[by] > 0 /\ Leaves(v)
  BY Here DEF Deny, OnError
<1>2. Sound(x)
  BY <1>1, AnsweredKeeps
<1> HIDE DEF x
<1>3. Sound(r) /\ Owed(r.ear, r.standby, r.page)
  BY <1>2, ResumeWakeKeeps
<1> HIDE DEF r
<1>4. Sound(v) /\ Owed(v.ear, v.standby, v.page)
  BY <1>3, ResumeWakeKeeps DEF Refused
<1>. QED
  BY <1>1, <1>4, Lands

LEMMA WakeStartsKeeps ==
  ASSUME IInv, WakeStarts
  PROVE  IInv'
<1> DEFINE w == World
           x == [w EXCEPT !.mic.state = "running"]
<1>1. /\ w \in Worlds /\ Sound(w) /\ Owed(w.ear, w.standby, w.page)
      /\ w.mic \in Mics /\ w.mic.owner = "wake" /\ w.mic.state = "starting"
      /\ w.mic = mic /\ w.ear = ear /\ w.standby = standby /\ w.page = page
      /\ w.handed = handed
  BY Here DEF WakeStarts
<1> HIDE DEF w
<1>2. /\ x \in Worlds /\ x.mic = [w.mic EXCEPT !.state = "running"] /\ x.ear = w.ear
      /\ x.standby = w.standby /\ x.page = w.page /\ x.handed = w.handed
  BY <1>1 DEF Worlds, Mics
<1> HIDE DEF x
<1>3. Leaves(x)
  BY <1>1, <1>2 DEF WakeStarts, Leaves
<1>4. x.mic.owner = "wake" /\ x.mic.state = "running" /\ x.mic.orphan = w.mic.orphan
  BY <1>1, <1>2 DEF Mics
<1>5. Handles(x.mic, x.ear, x.standby) /\ Followed(x.mic, x.ear, x.standby)
  BY <1>1, <1>2, <1>4 DEF Sound, Whole, Handles, Followed, Live, Free
<1>6. Alive(x.mic, x.standby) /\ Once(x.mic, x.ear, x.handed)
  BY <1>1, <1>2, <1>4 DEF Sound, Whole, Alive, Once
<1>7. Followable(x.mic, x.ear) /\ Awaited(x.mic, x.ear)
  BY <1>1, <1>2, <1>4 DEF Sound, Whole, Followable, Awaited
<1>8. Sound(x) /\ Owed(x.ear, x.standby, x.page)
  BY <1>1, <1>2, <1>5, <1>6, <1>7 DEF Sound, Whole
<1>. QED
  BY <1>3, <1>8, Lands

\* A timer or a count of standby changed, no more: who hears what did not.
SameFloor(w, v) ==
    /\ v.mic = w.mic /\ v.ear = w.ear /\ v.handed = w.handed
    /\ v.standby.enabled = w.standby.enabled
    /\ v.standby.suspended = w.standby.suspended
    /\ v.standby.current = w.standby.current

LEMMA SameFloorKeeps ==
  ASSUME NEW w, NEW v \in Worlds, SameFloor(w, v)
  PROVE  /\ Whole(w) => Whole(v)
         /\ Owed(w.ear, w.standby, w.page) /\ v.page = w.page
              => Owed(v.ear, v.standby, v.page)
BY DEF SameFloor, Whole, Handles, Followed, Owed

LEMMA WakeHearsKeeps ==
  ASSUME IInv, WakeHears
  PROVE  IInv'
<1> DEFINE w == [World EXCEPT !.standby.failures = 0]
           s == Suspend(w)
           v == Start(s, "wake")
<1>1. /\ World \in Worlds /\ Sound(World) /\ Owed(World.ear, World.standby, World.page)
      /\ World.ear = ear /\ World.standby \in Standbys
      /\ ear.wanted \/ ear.granted \/ ear.asks["wake"] < MaxAsks
  BY Here, Parts DEF WakeHears, RoomToAsk
<1>2. Leaves(w) \/ Leaves(v)
  BY DEF WakeHears
<1>3. /\ w \in Worlds /\ w.mic = World.mic /\ w.ear = World.ear /\ w.page = World.page
      /\ w.handed = World.handed /\ w.standby = [World.standby EXCEPT !.failures = 0]
  BY <1>1, VoiceAssumption DEF Worlds, Standbys
<1> HIDE DEF w
<1>4. /\ SameFloor(World, w) /\ w.standby.retry = World.standby.retry
      /\ w.standby.stray = World.standby.stray
  BY <1>1, <1>3 DEF SameFloor, Standbys
<1>5. Sound(w) /\ Owed(w.ear, w.standby, w.page)
  <2>1. Whole(w) /\ Owed(w.ear, w.standby, w.page)
    BY <1>1, <1>3, <1>4, SameFloorKeeps DEF Sound
  <2>2. Alive(w.mic, w.standby)
    BY <1>1, <1>4 DEF Sound, Alive, SameFloor
  <2>. QED
    BY <2>1, <2>2 DEF Sound
<1>6. Sound(s) /\ s.ear = ear
  BY <1>1, <1>3, <1>5, SuspendKeeps
<1> HIDE DEF s
<1>7. Sound(v) /\ Owed(v.ear, v.standby, v.page)
  BY <1>1, <1>6, StartKeeps
<1> HIDE DEF v
<1>. QED
  BY <1>2, <1>5, <1>7, Lands

LEMMA WakeFailsKeeps ==
  ASSUME IInv, WakeFails
  PROVE  IInv'
<1> DEFINE w == [World EXCEPT !.mic.state = "faulted"]
           f == Failed(w)
           d == Disable(w)
<1>1. /\ World \in Worlds /\ Sound(World) /\ Owed(World.ear, World.standby, World.page)
      /\ World.mic \in Mics /\ World.mic.owner = "wake" /\ World.mic # Free
  BY Here DEF WakeFails, Free
<1>2. Leaves(f) \/ Leaves(d)
  BY DEF WakeFails
<1>3. /\ w \in Worlds /\ w.mic = [World.mic EXCEPT !.state = "faulted"] /\ w.ear = World.ear
      /\ w.standby = World.standby /\ w.page = World.page /\ w.handed = World.handed
  BY <1>1 DEF Worlds, Mics
<1> HIDE DEF w
<1>4. w.mic.owner = "wake" /\ w.mic.state = "faulted" /\ w.mic # Free
  BY <1>1, <1>3 DEF Mics, Free
<1>5. Handles(w.mic, w.ear, w.standby) /\ Followed(w.mic, w.ear, w.standby)
  BY <1>1, <1>3, <1>4 DEF Sound, Whole, Handles, Followed, Live
<1>6. /\ Once(w.mic, w.ear, w.handed) /\ Followable(w.mic, w.ear) /\ Awaited(w.mic, w.ear)
  BY <1>1, <1>3, <1>4 DEF Sound, Whole, Once, Followable, Awaited
<1>7. Whole(w) /\ Owed(w.ear, w.standby, w.page)
  BY <1>1, <1>3, <1>5, <1>6 DEF Whole
<1>8. Sound(f) /\ Owed(f.ear, f.standby, f.page)
  <2>1. f \in Worlds /\ SameFloor(w, f) /\ f.page = w.page
    BY <1>3, FailedFx DEF SameFloor
  <2> HIDE DEF f
  <2>2. Alive(f.mic, f.standby)
    BY <1>4, <2>1 DEF Alive, SameFloor
  <2>. QED
    BY <1>7, <2>1, <2>2, SameFloorKeeps DEF Sound
<1>9. Sound(d) /\ Owed(d.ear, d.standby, d.page)
  BY <1>7, DisableKeeps
<1> HIDE DEF f, d
<1>. QED
  BY <1>2, <1>8, <1>9, Lands

LEMMA WakeEndsKeeps ==
  ASSUME IInv, WakeEnds
  PROVE  IInv'
<1>1. PICK healthy \in {FALSE, mic.state # "faulted"} :
        LET w == [Release(World) EXCEPT !.standby.failures = IF healthy THEN 0 ELSE @]
        IN  Leaves(IF ~standby.enabled THEN w
                   ELSE IF w.standby.failures >= MaxFailures THEN Disable(w)
                   ELSE ArmRetry(w))
  BY DEF WakeEnds
<1> DEFINE r == Release(World)
           n == IF healthy THEN 0 ELSE r.standby.failures
           w == [r EXCEPT !.standby.failures = n]
           d == Disable(w)
           a == ArmRetry(w)
<1>2. /\ World \in Worlds /\ Sound(World) /\ Owed(World.ear, World.standby, World.page)
      /\ World.mic.owner = "wake" /\ World.standby = standby
      /\ World.ear \in Ears /\ standby \in Standbys
      /\ standby.retry => standby.stray < MaxStrays
  BY Here DEF WakeEnds, RoomToArm
<1>3. (Leaves(w) /\ ~standby.enabled) \/ Leaves(d) \/ Leaves(a)
  BY <1>1
<1>4. /\ r \in Worlds /\ r.page = World.page /\ r.handed = World.handed /\ r.mic = Free
      /\ r.ear = [World.ear EXCEPT !.current = IF @ = "held" THEN "gone" ELSE @]
      /\ r.standby = [standby EXCEPT !.current = "none"]
  BY <1>2, ReleaseFx
<1> HIDE DEF r
<1>5. r.standby \in Standbys /\ r.ear = World.ear
  BY <1>2, <1>4, Parts DEF Sound, Whole, Handles, Ears
<1>6. n \in 0 .. MaxFailures
  BY <1>5, VoiceAssumption DEF Standbys
<1> HIDE DEF n
<1>7. /\ w \in Worlds /\ w.mic = Free /\ w.ear = World.ear /\ w.page = World.page
      /\ w.handed = World.handed /\ w.standby = [r.standby EXCEPT !.failures = n]
  BY <1>4, <1>5, <1>6 DEF Worlds, Standbys
<1> HIDE DEF w
<1>8. /\ w.standby.enabled = standby.enabled /\ w.standby.suspended = standby.suspended
      /\ w.standby.current = "none" /\ w.standby.retry = standby.retry
      /\ w.standby.stray = standby.stray
  BY <1>2, <1>4, <1>5, <1>7 DEF Standbys
<1>9. w.mic.owner = "none" /\ w.mic.state = "free"
  BY <1>7 DEF Free
<1>10. Handles(w.mic, w.ear, w.standby) /\ Followed(w.mic, w.ear, w.standby)
  BY <1>2, <1>7, <1>8, <1>9 DEF Sound, Whole, Handles, Followed, Live
<1>11. Once(w.mic, w.ear, w.handed) /\ Followable(w.mic, w.ear) /\ Awaited(w.mic, w.ear)
  BY <1>2, <1>7, <1>9 DEF Sound, Whole, Once, Followable, Awaited
<1>12. Whole(w)
  BY <1>7, <1>10, <1>11 DEF Whole
<1>13. Owed(w.ear, w.standby, w.page)
  BY <1>2, <1>7, <1>8 DEF Owed
<1>14. CASE Leaves(w) /\ ~standby.enabled
  <2>1. Sound(w)
    BY <1>8, <1>12, <1>14 DEF Sound, Alive
  <2>. QED
    BY <1>13, <1>14, <2>1, Lands
<1>15. CASE Leaves(d)
  <2>1. Sound(d) /\ Owed(d.ear, d.standby, d.page)
    BY <1>12, DisableKeeps
  <2>. QED
    BY <1>15, <2>1, Lands
<1>16. CASE Leaves(a)
  <2>1. /\ a \in Worlds /\ SameFloor(w, a) /\ a.page = w.page /\ a.standby.retry
    BY <1>2, <1>7, <1>8, ArmRetryFx DEF SameFloor
  <2> HIDE DEF a
  <2>2. Whole(a) /\ Owed(a.ear, a.standby, a.page)
    BY <1>12, <1>13, <2>1, SameFloorKeeps
  <2>3. Sound(a)
    BY <2>1, <2>2 DEF Sound, Alive
  <2>. QED
    BY <1>16, <2>2, <2>3, Lands
<1>. QED
  BY <1>3, <1>14, <1>15, <1>16

\* A restart timer of the WakeWord that fires is one less (x), and _spin runs.
LEMMA FiredKeeps ==
  ASSUME IInv, NEW x \in Worlds, SameFloor(World, x), x.page = World.page,
         x.standby.retry => x.standby.stray < MaxStrays, Leaves(WakeSpin(x))
  PROVE  IInv'
<1> DEFINE v == WakeSpin(x)
<1>1. Sound(World) /\ Owed(World.ear, World.standby, World.page)
  BY Here
<1>2. Whole(x) /\ Owed(x.ear, x.standby, x.page)
  BY <1>1, SameFloorKeeps DEF Sound
<1>3. /\ Sound(v) /\ v.ear = x.ear /\ v.page = x.page
      /\ v.standby.enabled = x.standby.enabled
      /\ v.standby.suspended = x.standby.suspended
  BY <1>2, WakeSpinKeeps
<1> HIDE DEF v
<1>4. Owed(v.ear, v.standby, v.page)
  BY <1>2, <1>3 DEF Owed
<1>. QED
  BY <1>3, <1>4, Lands DEF v

LEMMA RetryTimeoutKeeps ==
  ASSUME IInv, RetryTimeout
  PROVE  IInv'
<1> DEFINE x == [World EXCEPT !.standby.retry = FALSE]
<1>1. World \in Worlds /\ World.standby \in Standbys
  BY Here, Parts
<1>2. Leaves(WakeSpin(x))
  BY DEF RetryTimeout
<1>3. /\ x \in Worlds /\ x.mic = World.mic /\ x.ear = World.ear /\ x.page = World.page
      /\ x.handed = World.handed /\ x.standby = [World.standby EXCEPT !.retry = FALSE]
  BY <1>1 DEF Worlds, Standbys
<1> HIDE DEF x
<1>4. SameFloor(World, x) /\ ~x.standby.retry
  BY <1>1, <1>3 DEF SameFloor, Standbys
<1>. QED
  BY <1>2, <1>3, <1>4, FiredKeeps

LEMMA StrayTimeoutKeeps ==
  ASSUME IInv, StrayTimeout
  PROVE  IInv'
<1> DEFINE n == World.standby.stray - 1
           x == [World EXCEPT !.standby.stray = n]
<1>1. World \in Worlds /\ World.standby \in Standbys /\ World.standby.stray > 0
  BY Here, Parts DEF StrayTimeout
<1>2. Leaves(WakeSpin(x))
  BY DEF StrayTimeout
<1>3. n \in 0 .. MaxStrays /\ n < MaxStrays
  BY <1>1, VoiceAssumption DEF Standbys
<1> HIDE DEF n
<1>4. /\ x \in Worlds /\ x.mic = World.mic /\ x.ear = World.ear /\ x.page = World.page
      /\ x.handed = World.handed /\ x.standby = [World.standby EXCEPT !.stray = n]
  BY <1>1, <1>3 DEF Worlds, Standbys
<1> HIDE DEF x
<1>5. SameFloor(World, x) /\ x.standby.stray = n
  BY <1>1, <1>4 DEF SameFloor, Standbys
<1>. QED
  BY <1>2, <1>3, <1>4, <1>5, FiredKeeps

\* Standby comes back, with no failure counted.
LEMMA ResumeKeeps ==
  ASSUME NEW w, Sound(w), w.standby.enabled, w.standby.retry => w.standby.stray < MaxStrays
  PROVE  LET v == Resume(w) IN Sound(v) /\ Owed(v.ear, v.standby, v.page)
<1> DEFINE x == [w EXCEPT !.standby.suspended = FALSE, !.standby.failures = 0]
           v == WakeSpin(x)
<1>1. w \in Worlds
  BY DEF Sound, Whole
<1>2. w.standby \in Standbys /\ w.standby.suspended \in BOOLEAN
  BY <1>1, Parts DEF Standbys
<1>3. Resume(w) = IF ~w.standby.suspended THEN w ELSE v
  BY DEF Resume
<1>4. CASE ~w.standby.suspended
  BY <1>3, <1>4 DEF Owed
<1>5. CASE w.standby.suspended
  <2>1. /\ x \in Worlds /\ x.mic = w.mic /\ x.ear = w.ear /\ x.handed = w.handed
        /\ x.standby = [w.standby EXCEPT !.suspended = FALSE, !.failures = 0]
    <3> DEFINE y == [w EXCEPT !.standby.failures = 0]
               z == [y EXCEPT !.standby.suspended = FALSE]
    <3>1. /\ y \in Worlds /\ y.standby = [w.standby EXCEPT !.failures = 0]
          /\ y.mic = w.mic /\ y.ear = w.ear /\ y.handed = w.handed
      BY <1>1, VoiceAssumption DEF Worlds, Standbys
    <3>2. x = z
      BY <1>1 DEF Worlds, Standbys
    <3> HIDE DEF y, x
    <3>3. /\ z \in Worlds /\ z.mic = w.mic /\ z.ear = w.ear /\ z.handed = w.handed
          /\ z.standby = [y.standby EXCEPT !.suspended = FALSE]
      BY <3>1 DEF Worlds, Standbys
    <3> HIDE DEF z
    <3>4. z.standby = [w.standby EXCEPT !.suspended = FALSE, !.failures = 0]
      BY <1>2, <3>1, <3>3 DEF Standbys
    <3>. QED
      BY <3>2, <3>3, <3>4
  <2> HIDE DEF x
  <2>2. /\ ~x.standby.suspended /\ x.standby.retry = w.standby.retry
        /\ x.standby.stray = w.standby.stray /\ x.standby.current = w.standby.current
    BY <1>2, <2>1 DEF Standbys
  <2>3. Whole(x)
    BY <2>1, <2>2 DEF Sound, Whole, Handles, Followed
  <2>4. Sound(v) /\ ~v.standby.suspended
    BY <2>2, <2>3, WakeSpinKeeps
  <2>. QED
    BY <1>3, <1>5, <2>4 DEF Owed
<1>. QED
  BY <1>2, <1>4, <1>5

\* Only the page changed.
LEMMA PageKeeps ==
  ASSUME NEW w, NEW v \in Worlds, Sound(w), v.mic = w.mic, v.ear = w.ear,
         v.standby = w.standby, v.handed = w.handed
  PROVE  Sound(v)
BY DEF Sound, Whole

LEMMA ResumeTimeoutKeeps ==
  ASSUME IInv, ResumeTimeout
  PROVE  IInv'
<1> DEFINE w == [World EXCEPT !.page.resume = FALSE]
           v == Resume(w)
<1>1. /\ World \in Worlds /\ Sound(World) /\ Owed(World.ear, World.standby, World.page)
      /\ World.standby = standby /\ standby.retry => standby.stray < MaxStrays
  BY Here DEF ResumeTimeout, RoomToArm
<1>2. Leaves(IF standby.enabled /\ ~Busy(w) THEN v ELSE w)
  BY DEF ResumeTimeout
<1>3. /\ w \in Worlds /\ w.mic = World.mic /\ w.ear = World.ear /\ w.standby = World.standby
      /\ w.handed = World.handed
  BY <1>1 DEF Worlds, Pages
<1> HIDE DEF w
<1>4. Sound(w)
  BY <1>1, <1>3, PageKeeps
<1>5. standby.retry => standby.stray < MaxStrays
  BY DEF ResumeTimeout, RoomToArm
<1>6. CASE standby.enabled /\ ~Busy(w)
  <2>1. Sound(v) /\ Owed(v.ear, v.standby, v.page)
    BY <1>1, <1>3, <1>4, <1>5, <1>6, Here, ResumeKeeps
  <2>. QED
    BY <1>2, <1>6, <2>1, Lands
<1>7. CASE ~(standby.enabled /\ ~Busy(w))
  <2>1. Owed(w.ear, w.standby, w.page)
    BY <1>3, <1>7, Here DEF Owed, Busy
  <2>. QED
    BY <1>2, <1>4, <1>7, <2>1, Lands
<1>. QED
  BY <1>6, <1>7

LEMMA MicClickKeeps ==
  ASSUME IInv, MicClick
  PROVE  IInv'
<1> DEFINE w == Suspend(World)
           p == Stop(w)
           q == Start(w, "mic")
<1>1. /\ Sound(World) /\ World.ear = ear
      /\ ear.wanted \/ ear.granted \/ ear.asks["mic"] < MaxAsks
  BY Here DEF MicClick, RoomToAsk
<1>2. Leaves(IF ear.wanted THEN p ELSE q)
  BY DEF MicClick
<1>3. Sound(w) /\ w.ear = ear
  BY <1>1, SuspendKeeps
<1> HIDE DEF w
<1>4. CASE ear.wanted
  <2>1. Sound(p) /\ Owed(p.ear, p.standby, p.page)
    BY <1>3, <1>4, StopKeeps
  <2>. QED
    BY <1>2, <1>4, <2>1, Lands
<1>5. CASE ~ear.wanted
  <2>1. Sound(q) /\ Owed(q.ear, q.standby, q.page)
    BY <1>1, <1>3, <1>5, StartKeeps
  <2>. QED
    BY <1>2, <1>5, <2>1, Lands
<1>. QED
  BY <1>4, <1>5

LEMMA WakeClickKeeps ==
  ASSUME IInv, WakeClick
  PROVE  IInv'
<1> DEFINE d == Disable(World)
           x == [World EXCEPT !.standby.enabled = TRUE, !.standby.suspended = FALSE,
                              !.standby.failures = 0]
           v == WakeSpin(x)
<1>1. /\ World \in Worlds /\ Sound(World) /\ World.standby \in Standbys
      /\ World.standby = standby
  BY Here
<1>2. standby.retry => standby.stray < MaxStrays
  BY DEF WakeClick, RoomToArm
<1>3. Leaves(d) \/ Leaves(v)
  BY DEF WakeClick, Enable
<1>4. Sound(d) /\ Owed(d.ear, d.standby, d.page)
  BY <1>1, DisableKeeps DEF Sound
<1>5. /\ x \in Worlds /\ x.mic = World.mic /\ x.ear = World.ear /\ x.handed = World.handed
      /\ x.standby = [standby EXCEPT !.enabled = TRUE, !.suspended = FALSE, !.failures = 0]
  <2> DEFINE y == [World EXCEPT !.standby.failures = 0]
             z == [y EXCEPT !.standby.enabled = TRUE, !.standby.suspended = FALSE]
  <2>1. y \in Worlds /\ y.standby = [standby EXCEPT !.failures = 0]
        /\ y.mic = World.mic /\ y.ear = World.ear /\ y.handed = World.handed
    BY <1>1, VoiceAssumption DEF Worlds, Standbys
  <2>2. x = z
    BY <1>1 DEF Worlds, Standbys
  <2> HIDE DEF y, x
  <2>3. /\ z \in Worlds /\ z.mic = World.mic /\ z.ear = World.ear /\ z.handed = World.handed
        /\ z.standby = [y.standby EXCEPT !.enabled = TRUE, !.suspended = FALSE]
    BY <2>1 DEF Worlds, Standbys
  <2> HIDE DEF z
  <2>4. z.standby = [standby EXCEPT !.enabled = TRUE, !.suspended = FALSE, !.failures = 0]
    BY <1>1, <2>1, <2>3 DEF Standbys
  <2>. QED
    BY <2>2, <2>3, <2>4
<1> HIDE DEF x
<1>6. /\ ~x.standby.suspended /\ x.standby.retry = standby.retry
      /\ x.standby.stray = standby.stray /\ x.standby.current = standby.current
  BY <1>1, <1>5 DEF Standbys
<1>7. Whole(x)
  BY <1>1, <1>5, <1>6 DEF Sound, Whole, Handles, Followed
<1>8. Sound(v) /\ ~v.standby.suspended
  BY <1>2, <1>6, <1>7, WakeSpinKeeps
<1> HIDE DEF v, d
<1>9. Owed(v.ear, v.standby, v.page)
  BY <1>8 DEF Owed
<1>. QED
  BY <1>3, <1>4, <1>8, <1>9, Lands

LEMMA SendClickKeeps ==
  ASSUME IInv, SendClick
  PROVE  IInv'
<1> DEFINE v == Send(World)
<1>1. /\ World \in Worlds /\ Sound(World) /\ World.page \in Pages /\ ~Busy(World)
  BY Here DEF SendClick, Busy
<1>2. Leaves(v)
  BY DEF SendClick
<1>3. /\ v \in Worlds /\ v.ear = World.ear /\ v.handed = World.handed /\ StandsDown(World, v)
      /\ v.page = [World.page EXCEPT !.turn = "asking"]
  BY <1>1, SendFx
<1> HIDE DEF v
<1>4. Sound(v)
  BY <1>1, <1>3, StandsDownKeeps
<1>5. Owed(v.ear, v.standby, v.page)
  BY <1>1, <1>3 DEF Owed, Pages
<1>. QED
  BY <1>2, <1>4, <1>5, Lands

LEMMA GotItClickKeeps ==
  ASSUME IInv, GotItClick
  PROVE  IInv'
<1> DEFINE v == Hush(World)
<1>1. /\ World \in Worlds /\ Sound(World) /\ Owed(World.ear, World.standby, World.page)
      /\ World.page \in Pages
  BY Here
<1>2. Leaves(v)
  BY DEF GotItClick
<1>3. /\ v \in Worlds /\ v.mic = World.mic /\ v.ear = World.ear /\ v.standby = World.standby
      /\ v.handed = World.handed
      /\ v.page = [World.page EXCEPT !.speech = "none",
                      !.due = IF World.page.speech = "narration" THEN TRUE ELSE @]
  BY <1>1, HushFx
<1> HIDE DEF v
<1>4. Sound(v)
  BY <1>1, <1>3, PageKeeps
<1>5. Owed(v.ear, v.standby, v.page)
  BY <1>1, <1>3 DEF Owed, Pages
<1>. QED
  BY <1>2, <1>4, <1>5, Lands

LEMMA AnswerKeeps ==
  ASSUME IInv, Answer
  PROVE  IInv'
<1> DEFINE w == [World EXCEPT !.page.turn = "replied"]
           v == Speak(w, "reply")
<1>1. /\ World \in Worlds /\ Sound(World)
  BY Here
<1>2. Leaves(v)
  BY DEF Answer
<1>3. /\ w \in Worlds /\ w.mic = World.mic /\ w.ear = World.ear /\ w.standby = World.standby
      /\ w.handed = World.handed /\ w.page.turn = "replied" /\ w.page \in Pages
  BY <1>1 DEF Worlds, Pages
<1> HIDE DEF w
<1>4. /\ v \in Worlds /\ v.mic = w.mic /\ v.ear = w.ear /\ v.standby = w.standby
      /\ v.handed = w.handed
      /\ v.page = [w.page EXCEPT !.speech = "reply",
                      !.due = IF w.page.speech = "narration" THEN TRUE ELSE @]
  BY <1>3, SpeakFx
<1> HIDE DEF v
<1>5. Sound(v)
  BY <1>1, <1>3, <1>4, PageKeeps
<1>6. Owed(v.ear, v.standby, v.page)
  BY <1>3, <1>4 DEF Owed, Pages
<1>. QED
  BY <1>2, <1>5, <1>6, Lands

LEMMA SettleKeeps ==
  ASSUME IInv, Settle
  PROVE  IInv'
<1> DEFINE w == [World EXCEPT !.page.turn = "idle"]
           v == ResumeWake(w)
<1>1. World \in Worlds /\ Sound(World)
  BY Here
<1>2. Leaves(v)
  BY DEF Settle
<1>3. /\ w \in Worlds /\ w.mic = World.mic /\ w.ear = World.ear /\ w.standby = World.standby
      /\ w.handed = World.handed
  BY <1>1 DEF Worlds, Pages
<1> HIDE DEF w
<1>4. Sound(w)
  BY <1>1, <1>3, PageKeeps
<1>5. Sound(v) /\ Owed(v.ear, v.standby, v.page)
  BY <1>4, ResumeWakeKeeps
<1> HIDE DEF v
<1>. QED
  BY <1>2, <1>5, Lands

LEMMA NarrateKeeps ==
  ASSUME IInv, Narrate
  PROVE  IInv'
<1> DEFINE w == Suspend(World)
           v == Speak(w, "narration")
<1>1. World \in Worlds /\ Sound(World)
  BY Here
<1>2. Leaves(v)
  BY DEF Narrate
<1>3. Sound(w)
  BY <1>1, SuspendKeeps
<1> HIDE DEF w
<1>4. w \in Worlds /\ w.page \in Pages
  BY <1>3, Parts DEF Sound, Whole
<1>5. /\ v \in Worlds /\ v.mic = w.mic /\ v.ear = w.ear /\ v.standby = w.standby
      /\ v.handed = w.handed
      /\ v.page = [w.page EXCEPT !.speech = "narration",
                      !.due = IF w.page.speech = "narration" THEN TRUE ELSE @]
  BY <1>4, SpeakFx
<1> HIDE DEF v
<1>6. Sound(v)
  BY <1>3, <1>5, PageKeeps
<1>7. Owed(v.ear, v.standby, v.page)
  BY <1>4, <1>5 DEF Owed, Pages
<1>. QED
  BY <1>2, <1>6, <1>7, Lands

LEMMA SpeechEndsKeeps ==
  ASSUME IInv, SpeechEnds
  PROVE  IInv'
<1> DEFINE w == [World EXCEPT !.page.speech = "none"]
           v == ResumeWake(w)
<1>1. /\ World \in Worlds /\ Sound(World) /\ Owed(World.ear, World.standby, World.page)
      /\ World.page = page /\ page \in Pages
  BY Here
<1>2. Leaves(IF page.speech = "narration" THEN v ELSE w)
  BY DEF SpeechEnds
<1>3. /\ w \in Worlds /\ w.mic = World.mic /\ w.ear = World.ear /\ w.standby = World.standby
      /\ w.handed = World.handed /\ w.page = [page EXCEPT !.speech = "none"]
  BY <1>1 DEF Worlds, Pages
<1> HIDE DEF w
<1>4. Sound(w)
  BY <1>1, <1>3, PageKeeps
<1>5. Sound(v) /\ Owed(v.ear, v.standby, v.page)
  BY <1>4, ResumeWakeKeeps
<1> HIDE DEF v
<1>6. page.speech # "narration" => Owed(w.ear, w.standby, w.page)
  BY <1>1, <1>3 DEF Owed, Pages
<1>. QED
  BY <1>2, <1>4, <1>5, <1>6, Lands

LEMMA CancelledSpeechEndsKeeps ==
  ASSUME IInv, CancelledSpeechEnds
  PROVE  IInv'
<1> DEFINE w == [World EXCEPT !.page.due = FALSE]
           v == ResumeWake(w)
<1>1. World \in Worlds /\ Sound(World)
  BY Here
<1>2. Leaves(v)
  BY DEF CancelledSpeechEnds
<1>3. /\ w \in Worlds /\ w.mic = World.mic /\ w.ear = World.ear /\ w.standby = World.standby
      /\ w.handed = World.handed
  BY <1>1 DEF Worlds, Pages
<1> HIDE DEF w
<1>4. Sound(w)
  BY <1>1, <1>3, PageKeeps
<1>5. Sound(v) /\ Owed(v.ear, v.standby, v.page)
  BY <1>4, ResumeWakeKeeps
<1> HIDE DEF v
<1>. QED
  BY <1>2, <1>5, Lands

-----------------------------------------------------------------------------
(* The words.                                                              *)

\* A world and its Listener have the fields the words are kept in.
Shaped(w) ==
    /\ DOMAIN w = {"mic", "ear", "standby", "page", "handed"}
    /\ {"partial", "delivered", "wanted"} \subseteq DOMAIN w.ear

\* The words of the Listener are in v what they are in w.
SameWords(w, v) ==
    /\ Shaped(v)
    /\ v.ear.partial = w.ear.partial /\ v.ear.delivered = w.ear.delivered

LEMMA ResumeWakeSays ==
  ASSUME NEW w, Shaped(w) PROVE SameWords(w, ResumeWake(w))
BY DEF ResumeWake, Shaped, SameWords

LEMMA SetStateSays ==
  ASSUME NEW w, NEW active, Shaped(w) PROVE SameWords(w, SetState(w, active))
BY DEF SetState, ResumeWake, Shaped, SameWords

LEMMA AbortSays ==
  ASSUME NEW w, NEW handle, Shaped(w) PROVE SameWords(w, Abort(w, handle))
BY DEF Abort, Shaped, SameWords

LEMMA SuspendSays ==
  ASSUME NEW w, Shaped(w) PROVE SameWords(w, Suspend(w))
BY DEF Suspend, Teardown, Abort, Shaped, SameWords

LEMMA DisableSays ==
  ASSUME NEW w, Shaped(w) PROVE SameWords(w, Disable(w))
BY DEF Disable, Teardown, Abort, Shaped, SameWords

LEMMA ReleaseSays ==
  ASSUME NEW w, Shaped(w) PROVE SameWords(w, Release(w))
BY DEF Release, Shaped, SameWords

LEMMA SpeakSays ==
  ASSUME NEW w, NEW what, Shaped(w)
  PROVE  SameWords(w, Hush(w)) /\ SameWords(w, Speak(w, what))
BY DEF Hush, Speak, Shaped, SameWords

LEMMA SendSays ==
  ASSUME NEW w, Shaped(w) PROVE SameWords(w, Send(w))
BY DEF Send, Suspend, Teardown, Abort, Shaped, SameWords

LEMMA AbandonSays ==
  ASSUME NEW w, Shaped(w) PROVE SameWords(w, Abandon(w))
BY DEF Abandon, Abort, Shaped, SameWords

LEMMA WakeSpinSays ==
  ASSUME NEW w, Shaped(w) PROVE SameWords(w, WakeSpin(w))
BY DEF WakeSpin, ArmRetry, Failed, Orphaned, Shaped, SameWords

LEMMA WakeTurnsSay ==
  ASSUME NEW w, Shaped(w)
  PROVE  SameWords(w, Enable(w)) /\ SameWords(w, Resume(w))
BY DEF Enable, Resume, WakeSpin, ArmRetry, Failed, Orphaned, Shaped, SameWords

LEMMA HandOverSays ==
  ASSUME NEW w, Shaped(w) PROVE SameWords(w, HandOver(w))
BY DEF HandOver, Send, Suspend, Teardown, Abort, Shaped, SameWords

\* As far as the page goes, it has a turn, which is the same in both worlds.
SameTurn(w, v) == "turn" \in DOMAIN v.page /\ v.page.turn = w.page.turn

LEMMA SetStateTurn ==
  ASSUME NEW w, NEW active, Shaped(w), SameTurn(w, w) PROVE SameTurn(w, SetState(w, active))
BY DEF SetState, ResumeWake, Shaped, SameTurn

LEMMA SuspendTurn ==
  ASSUME NEW w, Shaped(w), SameTurn(w, w) PROVE SameTurn(w, Suspend(w))
BY DEF Suspend, Teardown, Abort, Shaped, SameTurn

LEMMA AbandonTurn ==
  ASSUME NEW w, Shaped(w), SameTurn(w, w) PROVE SameTurn(w, Abandon(w))
BY DEF Abandon, Abort, Shaped, SameTurn

\* What is handed over becomes the turn, unless one is at work.
LEMMA HandOverTakes ==
  ASSUME NEW w, Shaped(w), SameTurn(World, w)
  PROVE  Busy(World) \/ HandOver(w).page.turn = "asking"
<1> SUFFICES ASSUME ~Busy(World) PROVE HandOver(w).page.turn = "asking"
  OBVIOUS
<1> DEFINE x == [w EXCEPT !.handed = IF @ < 2 THEN @ + 1 ELSE @]
           y == [x EXCEPT !.page.turn = "asking"]
<1>1. Shaped(x) /\ "turn" \in DOMAIN x.page /\ ~Busy(x)
  BY DEF Shaped, SameTurn, Busy
<1>2. HandOver(w) = Send(x)
  BY DEF HandOver
<1> HIDE DEF x
<1>3. Shaped(y) /\ SameTurn(y, y) /\ y.page.turn = "asking"
  BY <1>1 DEF Shaped, SameTurn
<1>4. HandOver(w) = Suspend(y)
  BY <1>1, <1>2 DEF Send
<1> HIDE DEF y
<1>. QED
  BY <1>3, <1>4, SuspendTurn DEF SameTurn

LEMMA DeliverSays ==
  ASSUME NEW w, Shaped(w), SameTurn(World, w)
  PROVE  Deliver(w).ear.delivered /\ (Busy(World) \/ Deliver(w).page.turn = "asking")
<1> DEFINE a == [w EXCEPT !.ear.partial = FALSE, !.ear.delivered = TRUE,
                          !.ear.wanted = FALSE, !.ear.onlyEnd = FALSE,
                          !.ear.startTimer = FALSE, !.ear.deadline = FALSE]
           b == SetState(a, FALSE)
<1>1. Deliver(w) = HandOver(b)
  BY DEF Deliver
<1>2. Shaped(a) /\ a.ear.delivered /\ SameTurn(World, a) /\ SameTurn(a, a)
  BY DEF Shaped, SameTurn
<1> HIDE DEF a
<1>3. Shaped(b) /\ b.ear.delivered /\ SameTurn(World, b)
  BY <1>2, SetStateSays, SetStateTurn DEF SameWords, SameTurn
<1> HIDE DEF b
<1>. QED
  BY <1>1, <1>3, HandOverSays, HandOverTakes DEF SameWords

\* A callback that leaves v over the words of this world keeps them.
LEMMA Leaving ==
  ASSUME NEW v, Leaves(v), SameWords(World, v), Pending(ear)
  PROVE  Pending(ear')
BY DEF Leaves, SameWords, World, Pending

\* One that leaves v, with the words delivered and the turn begun, hands them over.
LEMMA Handing ==
  ASSUME NEW v, Leaves(v), v.ear.delivered, Busy(World) \/ v.page.turn = "asking"
  PROVE  ear'.delivered /\ Taken
BY DEF Leaves, Taken

LEMMA WorldShaped ==
  ASSUME IInv
  PROVE  Shaped(World) /\ SameTurn(World, World)
<1>1. ear \in Ears /\ page \in Pages
  BY Here
<1>. QED
  BY <1>1 DEF World, Shaped, SameTurn, Ears, Pages

\* The engine of the Listener: its words wait, or its end hands them over.
LEMMA EarSays ==
  ASSUME IInv, Pending(ear),
         EarStarts \/ EarHearsPart \/ EarHearsAll \/ EarFails \/ EarEnds \/ EarVanishes
  PROVE  Pending(ear') \/ (ear'.delivered /\ Taken)
<1>1. Shaped(World) /\ SameTurn(World, World) /\ ear \in Ears
  BY WorldShaped, Here
<1>2. CASE EarStarts
  <2> DEFINE x == [World EXCEPT !.mic.state = "running", !.ear.listening = TRUE,
                                !.ear.startTimer = FALSE]
  <2>1. SameWords(World, x)
    BY <1>1 DEF Shaped, SameWords
  <2>2. Leaves(SetState(x, TRUE))
    BY <1>2 DEF EarStarts
  <2> HIDE DEF x
  <2>3. SameWords(World, SetState(x, TRUE))
    BY <2>1, SetStateSays DEF SameWords
  <2>. QED
    BY <2>2, <2>3, Leaving
<1>3. CASE EarHearsPart
  BY <1>1, <1>3 DEF EarHearsPart, Pending, Ears
<1>4. CASE EarHearsAll
  <2> DEFINE x == [World EXCEPT !.mic.state = "ending", !.ear.delivered = TRUE,
                                !.ear.partial = FALSE, !.ear.onlyEnd = FALSE,
                                !.ear.wanted = FALSE]
  <2>1. Shaped(x) /\ x.ear.delivered /\ SameTurn(World, x)
    BY <1>1 DEF Shaped, SameTurn
  <2>2. Leaves(HandOver(x))
    BY <1>4 DEF EarHearsAll
  <2> HIDE DEF x
  <2>3. HandOver(x).ear.delivered /\ (Busy(World) \/ HandOver(x).page.turn = "asking")
    BY <2>1, HandOverSays, HandOverTakes DEF SameWords
  <2>. QED
    BY <2>2, <2>3, Handing
<1>5. CASE EarFails
  <2>1. PICK blocked \in BOOLEAN :
           Leaves(OnError([World EXCEPT !.mic.state = "ending",
                                        !.ear.wanted = FALSE, !.ear.onlyEnd = TRUE,
                                        !.ear.granted = @ /\ ~blocked]))
    BY <1>5 DEF EarFails
  <2> DEFINE x == [World EXCEPT !.mic.state = "ending",
                                !.ear.wanted = FALSE, !.ear.onlyEnd = TRUE,
                                !.ear.granted = @ /\ ~blocked]
  <2>2. SameWords(World, x)
    BY <1>1 DEF Shaped, SameWords
  <2>3. Leaves(ResumeWake(x))
    BY <2>1 DEF OnError
  <2> HIDE DEF x
  <2>4. SameWords(World, ResumeWake(x))
    BY <2>2, ResumeWakeSays DEF SameWords
  <2>. QED
    BY <2>3, <2>4, Leaving
<1>6. CASE EarEnds
  <2> DEFINE w == [Release(World) EXCEPT !.ear.listening = FALSE]
  <2>1. Leaves(Deliver(w))
    BY <1>6 DEF EarEnds
  <2>2. Shaped(w) /\ SameTurn(World, w)
    BY <1>1, ReleaseSays DEF Shaped, SameWords, SameTurn, Release
  <2> HIDE DEF w
  <2>. QED
    BY <2>1, <2>2, DeliverSays, Handing
<1>7. CASE EarVanishes
  BY <1>1, <1>7, ReleaseSays, Leaving DEF EarVanishes
<1>. QED
  BY <1>2, <1>3, <1>4, <1>5, <1>6, <1>7

\* The timers of the Listener: the start's runs over no words, and the deadline hands
\* them over.
LEMMA TimersSay ==
  ASSUME IInv, Pending(ear), StartTimeout \/ DeadlineTimeout
  PROVE  Pending(ear') \/ (ear'.delivered /\ Taken)
<1>1. Shaped(World) /\ SameTurn(World, World) /\ ear \in Ears /\ ~ear.startTimer
  BY WorldShaped, Here DEF Sound, Whole, Awaited
<1>2. DeadlineTimeout
  BY <1>1 DEF StartTimeout
<1> DEFINE w == [World EXCEPT !.ear.deadline = FALSE]
           x == [w EXCEPT !.ear.wanted = FALSE]
           given == Abandon(x)
<1>3. Leaves(IF ~ear.wanted THEN w
             ELSE IF Pending(given.ear) THEN Deliver(given)
             ELSE SetState(OnError(given), FALSE))
  BY <1>2 DEF DeadlineTimeout
<1>4. SameWords(World, w) /\ SameWords(World, x) /\ SameTurn(World, x)
  BY <1>1 DEF Shaped, SameWords, SameTurn
<1> HIDE DEF w, x
<1>5. SameWords(World, given) /\ SameTurn(World, given)
  BY <1>4, AbandonSays, AbandonTurn DEF SameWords, SameTurn
<1> HIDE DEF given
<1>6. /\ Pending(given.ear) /\ Deliver(given).ear.delivered
      /\ Busy(World) \/ Deliver(given).page.turn = "asking"
  BY <1>5, DeliverSays DEF SameWords, Pending, World
<1>7. CASE ear.wanted
  BY <1>3, <1>6, <1>7, Handing
<1>8. CASE ~ear.wanted
  BY <1>3, <1>4, <1>8, Leaving
<1>. QED
  BY <1>7, <1>8

\* Standby never touches the words, unless it hears the wake word with no listen on.
LEMMA StandbySays ==
  ASSUME IInv, Pending(ear), ~BeginsAnew,
         \/ WakeStarts \/ WakeHears \/ WakeFails \/ WakeEnds
         \/ RetryTimeout \/ StrayTimeout \/ ResumeTimeout \/ WakeClick
  PROVE  Pending(ear')
<1>1. Shaped(World)
  BY WorldShaped
<1>2. CASE WakeStarts
  BY <1>2 DEF WakeStarts
<1>3. CASE WakeHears
  <2> DEFINE w == [World EXCEPT !.standby.failures = 0]
             u == Suspend(w)
  <2>1. SameWords(World, w) /\ w.ear = ear
    BY <1>1 DEF Shaped, SameWords, World
  <2>2. Leaves(w) \/ Leaves(Start(u, "wake"))
    BY <1>3 DEF WakeHears
  <2>3. ear.wanted
    BY <1>3 DEF BeginsAnew
  <2> HIDE DEF w
  <2>4. SameWords(World, u) /\ u.ear = w.ear
    BY <2>1, SuspendSays DEF SameWords, Suspend, Teardown, Abort, Shaped
  <2>5. Start(u, "wake") = ResumeWake(u)
    BY <2>1, <2>3, <2>4 DEF Start, Refused
  <2> HIDE DEF u
  <2>6. SameWords(World, ResumeWake(u))
    BY <2>4, ResumeWakeSays DEF SameWords
  <2>. QED
    BY <2>1, <2>2, <2>5, <2>6, Leaving
<1>4. CASE WakeFails
  <2> DEFINE w == [World EXCEPT !.mic.state = "faulted"]
  <2>1. SameWords(World, w)
    BY <1>1 DEF Shaped, SameWords
  <2>2. Leaves(Failed(w)) \/ Leaves(Disable(w))
    BY <1>4 DEF WakeFails
  <2> HIDE DEF w
  <2>3. SameWords(World, Failed(w)) /\ SameWords(World, Disable(w))
    BY <2>1, DisableSays DEF Failed, Shaped, SameWords
  <2>. QED
    BY <2>2, <2>3, Leaving
<1>5. CASE WakeEnds
  <2>1. PICK healthy \in BOOLEAN :
          LET w == [Release(World) EXCEPT
                       !.standby.failures = IF healthy THEN 0 ELSE @]
          IN  Leaves(IF ~standby.enabled THEN w
                     ELSE IF w.standby.failures >= MaxFailures THEN Disable(w)
                     ELSE ArmRetry(w))
    BY <1>5 DEF WakeEnds
  <2> DEFINE w == [Release(World) EXCEPT
                      !.standby.failures = IF healthy THEN 0 ELSE @]
  <2>2. SameWords(World, w)
    BY <1>1, ReleaseSays DEF Shaped, SameWords
  <2>3. Leaves(w) \/ Leaves(Disable(w)) \/ Leaves(ArmRetry(w))
    BY <2>1
  <2> HIDE DEF w
  <2>4. SameWords(World, ArmRetry(w)) /\ SameWords(World, Disable(w))
    BY <2>2, DisableSays DEF ArmRetry, Shaped, SameWords
  <2>. QED
    BY <2>2, <2>3, <2>4, Leaving
<1>6. CASE RetryTimeout
  <2> DEFINE w == [World EXCEPT !.standby.retry = FALSE]
  <2>1. SameWords(World, w)
    BY <1>1 DEF Shaped, SameWords
  <2>2. Leaves(WakeSpin(w))
    BY <1>6 DEF RetryTimeout
  <2> HIDE DEF w
  <2>. QED
    BY <2>1, <2>2, WakeSpinSays, Leaving DEF SameWords
<1>7. CASE StrayTimeout
  <2> DEFINE w == [World EXCEPT !.standby.stray = @ - 1]
  <2>1. SameWords(World, w)
    BY <1>1 DEF Shaped, SameWords
  <2>2. Leaves(WakeSpin(w))
    BY <1>7 DEF StrayTimeout
  <2> HIDE DEF w
  <2>. QED
    BY <2>1, <2>2, WakeSpinSays, Leaving DEF SameWords
<1>8. CASE ResumeTimeout
  <2> DEFINE w == [World EXCEPT !.page.resume = FALSE]
  <2>1. SameWords(World, w)
    BY <1>1 DEF Shaped, SameWords
  <2>2. Leaves(Resume(w)) \/ Leaves(w)
    BY <1>8 DEF ResumeTimeout
  <2> HIDE DEF w
  <2>3. SameWords(World, Resume(w))
    BY <2>1, WakeTurnsSay DEF SameWords
  <2>. QED
    BY <2>1, <2>2, <2>3, Leaving
<1>9. CASE WakeClick
  <2>1. Leaves(Disable(World)) \/ Leaves(Enable(World))
    BY <1>9 DEF WakeClick
  <2>. QED
    BY <1>1, <2>1, DisableSays, WakeTurnsSay, Leaving
<1>. QED
  BY <1>2, <1>3, <1>4, <1>5, <1>6, <1>7, <1>8, <1>9

\* A tap over a listen that goes on stops it: words that wait are left to the onend or
\* handed over.
LEMMA TapSays ==
  ASSUME IInv, Pending(ear), ~BeginsAnew, MicClick
  PROVE  Pending(ear') \/ (ear'.delivered /\ Taken)
<1> DEFINE w == Suspend(World)
           e == [w EXCEPT !.ear.wanted = FALSE, !.ear.startTimer = FALSE,
                          !.ear.deadline = FALSE]
           idle == Abandon(e)
           asked == [e EXCEPT !.ear.onlyEnd = TRUE,
                              !.mic.state = IF e.ear.current = "held" /\ Live(e.mic)
                                            THEN "stopping" ELSE @]
<1>1. ear.wanted
  BY DEF BeginsAnew
<1>2. Leaves(SetState(asked, FALSE)) \/ Leaves(Deliver(idle)) \/ Leaves(SetState(idle, FALSE))
  BY <1>1 DEF MicClick, Stop
<1>3. SameWords(World, w) /\ SameTurn(World, w)
  BY WorldShaped, SuspendSays, SuspendTurn
<1> HIDE DEF w
<1>4. SameWords(World, e) /\ SameTurn(World, e)
  BY <1>3 DEF Shaped, SameWords, SameTurn
<1> HIDE DEF e
<1>5. SameWords(World, asked) /\ SameWords(World, idle) /\ SameTurn(World, idle)
  BY <1>4, AbandonSays, AbandonTurn DEF Shaped, SameWords, SameTurn
<1> HIDE DEF asked, idle
<1>6. /\ SameWords(World, SetState(asked, FALSE)) /\ SameWords(World, SetState(idle, FALSE))
      /\ Deliver(idle).ear.delivered /\ (Busy(World) \/ Deliver(idle).page.turn = "asking")
  BY <1>5, SetStateSays, DeliverSays DEF SameWords
<1>. QED
  BY <1>2, <1>6, Leaving, Handing

\* The turn, the voice and a prompt refused do not touch the words.
LEMMA PageSays ==
  ASSUME IInv, Pending(ear),
         \/ \E by \in {"mic", "wake"} : Deny(by)
         \/ SendClick \/ GotItClick \/ Answer \/ Settle \/ Narrate
         \/ SpeechEnds \/ CancelledSpeechEnds
  PROVE  Pending(ear')
<1>1. Shaped(World)
  BY WorldShaped
<1>2. ASSUME NEW by \in {"mic", "wake"}, Deny(by) PROVE Pending(ear')
  <2> DEFINE x == [World EXCEPT !.ear.asks[by] = @ - 1, !.ear.granted = FALSE]
             o == ResumeWake(x)
  <2>1. SameWords(World, x)
    BY <1>1 DEF Shaped, SameWords
  <2>2. Leaves(o) \/ Leaves(ResumeWake(o))
    BY <1>2 DEF Deny, Refused, OnError
  <2> HIDE DEF x
  <2>3. SameWords(World, o)
    BY <2>1, ResumeWakeSays DEF SameWords
  <2> HIDE DEF o
  <2>. QED
    BY <2>2, <2>3, ResumeWakeSays, Leaving DEF SameWords
<1>3. CASE SendClick
  BY <1>1, <1>3, SendSays, Leaving DEF SendClick
<1>4. CASE GotItClick
  BY <1>1, <1>4, SpeakSays, Leaving DEF GotItClick
<1>5. CASE Answer
  <2> DEFINE w == [World EXCEPT !.page.turn = "replied"]
  <2>1. SameWords(World, w)
    BY <1>1 DEF Shaped, SameWords
  <2>2. Leaves(Speak(w, "reply"))
    BY <1>5 DEF Answer
  <2> HIDE DEF w
  <2>. QED
    BY <2>1, <2>2, SpeakSays, Leaving DEF SameWords
<1>6. CASE Settle
  <2> DEFINE w == [World EXCEPT !.page.turn = "idle"]
  <2>1. SameWords(World, w)
    BY <1>1 DEF Shaped, SameWords
  <2>2. Leaves(ResumeWake(w))
    BY <1>6 DEF Settle
  <2> HIDE DEF w
  <2>. QED
    BY <2>1, <2>2, ResumeWakeSays, Leaving DEF SameWords
<1>7. CASE Narrate
  <2> DEFINE w == Suspend(World)
  <2>1. SameWords(World, w) /\ Leaves(Speak(w, "narration"))
    BY <1>1, <1>7, SuspendSays DEF Narrate
  <2> HIDE DEF w
  <2>. QED
    BY <2>1, SpeakSays, Leaving DEF SameWords
<1>8. CASE SpeechEnds
  <2> DEFINE w == [World EXCEPT !.page.speech = "none"]
  <2>1. SameWords(World, w)
    BY <1>1 DEF Shaped, SameWords
  <2>2. Leaves(ResumeWake(w)) \/ Leaves(w)
    BY <1>8 DEF SpeechEnds
  <2> HIDE DEF w
  <2>. QED
    BY <2>1, <2>2, ResumeWakeSays, Leaving DEF SameWords
<1>9. CASE CancelledSpeechEnds
  <2> DEFINE w == [World EXCEPT !.page.due = FALSE]
  <2>1. SameWords(World, w)
    BY <1>1 DEF Shaped, SameWords
  <2>2. Leaves(ResumeWake(w))
    BY <1>9 DEF CancelledSpeechEnds
  <2> HIDE DEF w
  <2>. QED
    BY <2>1, <2>2, ResumeWakeSays, Leaving DEF SameWords
<1>. QED
  BY <1>2, <1>3, <1>4, <1>5, <1>6, <1>7, <1>8, <1>9

LEMMA WordsKept ==
  ASSUME IInv, [Next]_vars, Pending(ear)
  PROVE  Pending(ear') \/ (ear'.delivered /\ Taken) \/ BeginsAnew
<1> SUFFICES ASSUME ~BeginsAnew PROVE Pending(ear') \/ (ear'.delivered /\ Taken)
  OBVIOUS
<1>1. CASE UNCHANGED vars
  BY <1>1 DEF vars
<1>2. ASSUME NEW by \in {"mic", "wake"} PROVE ~Grant(by)
  BY DEF BeginsAnew
<1>3. CASE Next
  BY <1>2, <1>3, EarSays, TimersSay, StandbySays, TapSays, PageSays DEF Next
<1>. QED
  BY <1>1, <1>3

-----------------------------------------------------------------------------
(* The promises.                                                           *)

LEMMA Begins == Init => IInv
<1> SUFFICES ASSUME Init PROVE IInv
  OBVIOUS
<1>1. World \in Worlds
  <2>1. mic \in Mics
    BY DEF Init, Free, Mics
  <2>2. ear \in Ears
    BY VoiceAssumption DEF Init, Ears
  <2>3. standby \in Standbys
    BY VoiceAssumption DEF Init, Standbys
  <2>4. page \in Pages /\ handed \in 0 .. 2
    BY DEF Init, Pages
  <2>. QED
    BY <2>1, <2>2, <2>3, <2>4 DEF World, Worlds
<1>2. Handles(mic, ear, standby) /\ Followed(mic, ear, standby)
  BY DEF Init, Handles, Followed, Free, Live
<1>3. /\ Once(mic, ear, handed) /\ Followable(mic, ear) /\ Awaited(mic, ear)
      /\ Alive(mic, standby) /\ Owed(ear, standby, page)
  BY DEF Init, Once, Followable, Awaited, Alive, Owed, Pending, Free
<1>. QED
  BY <1>1, <1>2, <1>3 DEF IInv, Sound, Whole, World

LEMMA Keeps == IInv /\ [Next]_vars => IInv'
<1> SUFFICES ASSUME IInv, [Next]_vars PROVE IInv'
  OBVIOUS
<1>1. CASE UNCHANGED vars
  BY <1>1 DEF vars, IInv, World
<1>2. ASSUME EarStarts \/ EarHearsPart \/ EarHearsAll \/ EarFails \/ EarEnds \/ EarVanishes
      PROVE  IInv'
  BY <1>2, EarStartsKeeps, EarHearsPartKeeps, EarHearsAllKeeps, EarFailsKeeps,
     EarEndsKeeps, EarVanishesKeeps
<1>3. ASSUME WakeStarts \/ WakeHears \/ WakeFails \/ WakeEnds
      PROVE  IInv'
  BY <1>3, WakeStartsKeeps, WakeHearsKeeps, WakeFailsKeeps, WakeEndsKeeps
<1>4. ASSUME NEW by \in {"mic", "wake"}, Grant(by) \/ Deny(by)
      PROVE  IInv'
  BY <1>4, GrantKeeps, DenyKeeps
<1>5. ASSUME \/ StartTimeout \/ DeadlineTimeout \/ RetryTimeout \/ StrayTimeout
             \/ ResumeTimeout
      PROVE  IInv'
  BY <1>5, StartTimeoutKeeps, DeadlineTimeoutKeeps, RetryTimeoutKeeps, StrayTimeoutKeeps,
     ResumeTimeoutKeeps
<1>6. ASSUME MicClick \/ WakeClick \/ SendClick \/ GotItClick
      PROVE  IInv'
  BY <1>6, MicClickKeeps, WakeClickKeeps, SendClickKeeps, GotItClickKeeps
<1>7. ASSUME Answer \/ Settle \/ Narrate \/ SpeechEnds \/ CancelledSpeechEnds
      PROVE  IInv'
  BY <1>7, AnswerKeeps, SettleKeeps, NarrateKeeps, SpeechEndsKeeps,
     CancelledSpeechEndsKeeps
<1>. QED
  BY <1>1, <1>2, <1>3, <1>4, <1>5, <1>6, <1>7 DEF Next

(* The inductive invariant: in every reachable state of the page, between  *)
(* any two callbacks of src/frontend/speech.js and app.js.                  *)
THEOREM Inductive == Spec => []IInv
<1>1. Init => IInv
  BY Begins
<1>2. IInv /\ [Next]_vars => IInv'
  BY Keeps
<1>. QED
  BY <1>1, <1>2, PTL DEF Spec

(* The engine, the Listener, the WakeWord and the page keep their shape,    *)
(* for every number of restarts, failures, prompts and lost timers.         *)
THEOREM TypeCorrect == Spec => []TypeOK
<1>1. IInv => TypeOK
  BY Here DEF TypeOK, Mics, Ears, Standbys, Pages
<1>. QED
  BY <1>1, Inductive, PTL

(* Standby that stood down is always owed back (app.js:457).                *)
THEOREM StoodDownIsOwed == Spec => []StandbyIsOwed
<1>1. IInv => StandbyIsOwed
  BY DEF IInv, Owed, StandbyIsOwed
<1>. QED
  BY <1>1, Inductive, PTL

(* Standby that did not stand down hears, or will try again.                *)
THEOREM StandbyTriesAgain == Spec => []StandbyIsAlive
<1>1. IInv => StandbyIsAlive
  BY Here DEF Sound, Alive, StandbyIsAlive
<1>. QED
  BY <1>1, Inductive, PTL

(* No handler lets go of a live engine without aborting it.                 *)
THEOREM NoEngineIsLeftBehind == Spec => []OnlyOrphansLinger
<1>1. IInv => OnlyOrphansLinger
  BY Here DEF Sound, Whole, Followed, OnlyOrphansLinger
<1>. QED
  BY <1>1, Inductive, PTL

(* The words of one listen reach send() once (Listener._deliver).           *)
THEOREM NothingIsSentTwice == Spec => []HandedOnce
<1>1. IInv => HandedOnce
  BY Here DEF Sound, Whole, Once, HandedOnce
<1>. QED
  BY <1>1, Inductive, PTL

(* Words the user saw wait for the deadline of a listen that goes on, or    *)
(* for an onend they were left to.                                          *)
THEOREM WordsAreWaitedFor == Spec => []WordsAwaitAnEnd
<1>1. IInv => WordsAwaitAnEnd
  BY Here DEF Sound, Whole, Followable, Awaited, WordsAwaitAnEnd
<1>. QED
  BY <1>1, Inductive, PTL

(* No end of a listen takes words the user saw off unheard: only a new      *)
(* listen does, and words that are handed over become the turn unless one   *)
(* is at work (Listener._deliver and start, send).                          *)
THEOREM NoWordsAreDropped == Spec => WordsNotDropped
<1>1. IInv /\ [Next]_vars =>
        [Pending(ear) => Pending(ear') \/ (ear'.delivered /\ Taken) \/ BeginsAnew]_vars
  BY WordsKept
<1>. QED
  BY <1>1, Inductive, PTL DEF Spec, WordsNotDropped

===============================================================================
