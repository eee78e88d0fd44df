------------------------------- MODULE Voice --------------------------------
(***************************************************************************)
(* The microphone and the loudspeaker of the page: the push-to-talk        *)
(* Listener, the always-listening WakeWord ("standby") and the Speaker of  *)
(* src/frontend/speech.js, and the part of src/frontend/app.js that passes *)
(* the floor between them: setupVoice, resumeWake, setWake, send and the   *)
(* narration of a tick.                                                    *)
(*                                                                         *)
(* The page runs one callback at a time, to completion, so an action here  *)
(* is a whole callback: a click, a timer, an event of a recognition engine *)
(* or the continuation of an await.  The handlers call each other; they    *)
(* are operators on a World, the record of all variables, and return the   *)
(* World they leave.                                                       *)
(*                                                                         *)
(* External: the browser's recognition engine, as speech.js uses it.       *)
(* start() throws while another engine is not released (speech.js:303,     *)
(* 558), so one engine at most is held; abort() stops the results and      *)
(* leaves one onend; stop() leaves results and an onend; an engine of the  *)
(* Listener may also go without any onend (speech.js:329).                 *)
(***************************************************************************)
EXTENDS Naturals

CONSTANTS
    MaxRestarts,    \* MAX_RESTARTS
    MaxFailures,    \* WakeWord.MAX_FAILURES
    MaxAsks,        \* bound: permission prompts open at a time, per asker
    MaxStrays       \* bound: restart timers whose handle was overwritten

ASSUME VoiceAssumption ==
    /\ MaxRestarts \in Nat
    /\ MaxFailures \in Nat \ {0}
    /\ MaxAsks \in Nat \ {0}
    /\ MaxStrays \in Nat

VARIABLES
    mic,        \* the engine held: its owner, where it is in its life, and
                \*   whether a start() that threw took its owner's handle
    ear,        \* the Listener
    standby,    \* the WakeWord; its enabled is also app.js's state.wake
    page,       \* the turn, the speech and the resume timer of app.js
    handed      \* history: times the words of the Listener's latest engine
                \*   reached send()

vars == <<mic, ear, standby, page, handed>>

World == [mic |-> mic, ear |-> ear, standby |-> standby, page |-> page,
          handed |-> handed]

(* The callback leaves the world w.                                        *)
Leaves(w) ==
    /\ mic' = w.mic
    /\ ear' = w.ear
    /\ standby' = w.standby
    /\ page' = w.page
    /\ handed' = w.handed

-----------------------------------------------------------------------------
(* The engine.  A handle is "held" if it is the engine's, "gone" if it is  *)
(* of one that does nothing any more.                                      *)

Free == [owner |-> "none", state |-> "free", orphan |-> FALSE]

Fresh(owner) == [owner |-> owner, state |-> "starting", orphan |-> FALSE]

Live(m) == m.state \in {"starting", "running"}

(* abort(): nothing more is heard from the engine but its onend.           *)
Abort(w, handle) ==
    IF handle = "held" /\ w.mic.state # "faulted"
    THEN [w EXCEPT !.mic.state = "ending"] ELSE w

(* The engine leaves the browser; only references to it remain.            *)
Release(w) ==
    [w EXCEPT !.mic = Free,
              !.ear.current = IF @ = "held" THEN "gone" ELSE @,
              !.standby.current = "none"]

(* A start() of `owner` that threw.                                        *)
Orphaned(w, owner) ==
    [w EXCEPT !.mic.orphan = @ \/ w.mic.owner = owner]

-----------------------------------------------------------------------------
(* app.js: the turn, and who gives standby back.                           *)

Busy(w) == w.page.turn # "idle"

ResumeWake(w) == IF w.standby.enabled THEN [w EXCEPT !.page.resume = TRUE]
                                      ELSE w

(* The Listener's onError and the end of its state "listening" both go     *)
(* through resumeWake.                                                     *)
OnError(w) == ResumeWake(w)

\* onStateChange without its resumeWake.
SetStateQuietly(w, active) == [w EXCEPT !.ear.announced = active]

SetState(w, active) ==
    LET told == [w EXCEPT !.ear.announced = active]
    IN  IF w.ear.announced # active /\ ~active /\ ~Busy(w)
        THEN ResumeWake(told) ELSE told

(* Speaker.stop: a cancelled narration still owes its onDone.              *)
Hush(w) ==
    [w EXCEPT !.page.speech = "none",
              !.page.due = @ \/ w.page.speech = "narration"]

Speak(w, what) == [Hush(w) EXCEPT !.page.speech = what]

Teardown(w) ==
    [Abort(w, w.standby.current) EXCEPT !.standby.current = "none"]

\* suspend without its _teardown.
SuspendWithoutAbort(w) ==
    IF ~w.standby.enabled THEN w
    ELSE [w EXCEPT !.standby.suspended = TRUE, !.standby.retry = FALSE,
                   !.standby.current = "none"]

Suspend(w) ==
    IF ~w.standby.enabled \/ w.standby.suspended THEN w
    ELSE [Teardown(w) EXCEPT !.standby.suspended = TRUE,
                             !.standby.retry = FALSE]

(* send(text): refused while a turn runs.                                  *)
Send(w) == IF Busy(w) THEN w ELSE Suspend([w EXCEPT !.page.turn = "asking"])

(* setWake(false), which is also what every wake error ends in.            *)
Disable(w) == [Teardown(w) EXCEPT !.standby.enabled = FALSE,
                                  !.standby.retry = FALSE]

-----------------------------------------------------------------------------
(* Listener.                                                               *)

(* Interim words nobody handed over yet.                                   *)
Pending(e) == e.partial /\ ~e.delivered

HandOver(w) == Send([w EXCEPT !.handed = IF @ < 2 THEN @ + 1 ELSE @])

(* _deliver.  The caller returns when it delivered something.              *)
Deliver(w) ==
    LET spent == [w EXCEPT !.ear.partial = FALSE, !.ear.delivered = TRUE,
                           !.ear.wanted = FALSE, !.ear.onlyEnd = FALSE,
                           !.ear.startTimer = FALSE, !.ear.deadline = FALSE]
    IN  HandOver(SetState(spent, FALSE))

\* abandon without its abort.
AbandonQuietly(w) ==
    [w EXCEPT !.ear.current = "none", !.ear.listening = FALSE,
              !.ear.startTimer = FALSE, !.ear.deadline = FALSE]

\* abandon that forgets the interim words with the engine.
AbandonForgetting(w) ==
    [Abort(w, w.ear.current) EXCEPT
        !.ear.current = "none", !.ear.listening = FALSE, !.ear.partial = FALSE,
        !.ear.startTimer = FALSE, !.ear.deadline = FALSE]

(* abandon: release the engine without relying on it to call back.         *)
Abandon(w) ==
    [Abort(w, w.ear.current) EXCEPT
        !.ear.current = "none", !.ear.listening = FALSE,
        !.ear.startTimer = FALSE, !.ear.deadline = FALSE]

(* The end of a listen that has nothing to hand over.                      *)
Close(w) == SetState([w EXCEPT !.ear.wanted = FALSE, !.ear.startTimer = FALSE,
                               !.ear.deadline = FALSE], FALSE)

(* _spin: a new engine and a watchdog on its start.                        *)
Spin(w) ==
    LET threw == [Orphaned(w, "ear") EXCEPT
                     !.ear.startTimer = FALSE, !.ear.current = "gone",
                     !.ear.wanted = FALSE, !.ear.listening = FALSE,
                     !.ear.onlyEnd = TRUE]
    IN  IF w.mic = Free
        THEN [w EXCEPT !.mic = Fresh("ear"), !.handed = 0,
                       !.ear.startTimer = TRUE, !.ear.current = "held"]
        ELSE OnError(SetState(threw, FALSE))

(* start(), from the permission on: it does not look at wanted again.      *)
Begin(w) ==
    Spin(SetState([w EXCEPT !.ear.wanted = TRUE, !.ear.restarts = 0,
                            !.ear.delivered = FALSE, !.ear.partial = FALSE,
                            !.ear.deadline = TRUE, !.ear.onlyEnd = FALSE],
                  TRUE))

(* start(), up to its await; `by` is what the caller does with a refusal.  *)
Refused(w, by) == IF by = "wake" THEN ResumeWake(w) ELSE w

Start(w, by) ==
    IF w.ear.wanted THEN Refused(w, by)
    ELSE IF w.ear.granted THEN Begin(Hush(w))
    ELSE [Hush(w) EXCEPT !.ear.asks[by] = @ + 1]

(* stop(): an engine that runs is asked to finish, and its onend delivers. *)
Stop(w) ==
    LET e == [w EXCEPT !.ear.wanted = FALSE, !.ear.startTimer = FALSE,
                       !.ear.deadline = FALSE]
        idle == Abandon(e)
        asked == [e EXCEPT !.ear.onlyEnd = TRUE,
                           !.mic.state = IF e.ear.current = "held" /\ Live(e.mic)
                                         THEN "stopping" ELSE @]
    IN  IF e.ear.current # "none" /\ e.ear.listening
        THEN SetState(asked, FALSE)
        ELSE IF Pending(idle.ear) THEN Deliver(idle)
        ELSE SetState(idle, FALSE)

-----------------------------------------------------------------------------
(* WakeWord.                                                               *)

Failed(w) == [w EXCEPT !.standby.failures =
                  IF @ < MaxFailures THEN @ + 1 ELSE @]

(* restartTimer = setTimeout(...): a timer still running loses its handle. *)
ArmRetry(w) ==
    [w EXCEPT !.standby.stray = IF w.standby.retry THEN @ + 1 ELSE @,
              !.standby.retry = TRUE]

\* _spin without the timer in its catch.
WakeSpinOnce(w) ==
    IF ~w.standby.enabled \/ w.standby.suspended THEN w
    ELSE IF w.mic = Free
    THEN [w EXCEPT !.mic = Fresh("wake"), !.standby.current = "held"]
    ELSE [Failed(w) EXCEPT !.standby.current = "none"]

WakeSpin(w) ==
    IF ~w.standby.enabled \/ w.standby.suspended THEN w
    ELSE IF w.mic = Free
    THEN [w EXCEPT !.mic = Fresh("wake"), !.standby.current = "held"]
    ELSE [ArmRetry(Failed(Orphaned(w, "wake"))) EXCEPT
             !.standby.current = "none"]

Enable(w) ==
    WakeSpin([w EXCEPT !.standby.enabled = TRUE, !.standby.suspended = FALSE,
                       !.standby.failures = 0])

Resume(w) ==
    IF ~w.standby.enabled \/ ~w.standby.suspended THEN w
    ELSE WakeSpin([w EXCEPT !.standby.suspended = FALSE,
                            !.standby.failures = 0])

-----------------------------------------------------------------------------
Init ==
    /\ mic = Free
    /\ ear = [wanted |-> FALSE, listening |-> FALSE, announced |-> FALSE,
              delivered |-> FALSE, restarts |-> 0, partial |-> FALSE,
              current |-> "none", startTimer |-> FALSE, deadline |-> FALSE,
              granted |-> FALSE, onlyEnd |-> FALSE,
              asks |-> [by \in {"mic", "wake"} |-> 0]]
    /\ standby = [enabled |-> FALSE, suspended |-> FALSE, current |-> "none",
                  failures |-> 0, retry |-> FALSE, stray |-> 0]
    /\ page = [turn |-> "idle", resume |-> FALSE, speech |-> "none",
               due |-> FALSE]
    /\ handed = 0

-----------------------------------------------------------------------------
(* Callbacks of an engine of the Listener.                                 *)

EarStarts ==
    /\ mic.owner = "ear"
    /\ mic.state = "starting"
    /\ Leaves(SetState([World EXCEPT !.mic.state = "running",
                                     !.ear.listening = TRUE,
                                     !.ear.startTimer = FALSE], TRUE))

EarHearsPart ==
    /\ mic.owner = "ear"
    /\ mic.state \in {"running", "stopping"}
    /\ ear' = [ear EXCEPT !.partial = TRUE]
    /\ UNCHANGED <<mic, standby, page, handed>>

(* A final transcript goes straight to send; the session then ends.        *)
EarHearsAll ==
    /\ mic.owner = "ear"
    /\ mic.state \in {"running", "stopping"}
    /\ Leaves(HandOver([World EXCEPT !.mic.state = "ending",
                                     !.ear.delivered = TRUE,
                                     !.ear.partial = FALSE,
                                     !.ear.onlyEnd = FALSE,
                                     !.ear.wanted = FALSE]))

(* onerror other than no-speech and aborted, which change nothing.         *)
EarFails ==
    /\ mic.owner = "ear"
    /\ mic.state \in {"starting", "running", "stopping"}
    /\ \E blocked \in BOOLEAN :
          Leaves(OnError([World EXCEPT
                     !.mic.state = "ending",
                     !.ear.wanted = FALSE, !.ear.onlyEnd = TRUE,
                     !.ear.granted = @ /\ ~blocked]))

\* The bound on restarts, off by one.
MayRestartOnceMore(e) == e.wanted /\ e.restarts <= MaxRestarts

(* Chrome ends on brief silence, and is started again a few times.         *)
MayRestart(e) == e.wanted /\ e.restarts < MaxRestarts

(* onend; `late` is the clock having passed the deadline.                  *)
EarEnds ==
    /\ mic.owner = "ear"
    /\ mic.state # "starting"
    /\ LET w == [Release(World) EXCEPT !.ear.listening = FALSE]
           again == [w EXCEPT !.ear.restarts = @ + 1]
       IN  \E late \in BOOLEAN :
             Leaves(IF Pending(ear) THEN Deliver(w)
                    ELSE IF MayRestart(ear) /\ ~late
                    THEN Spin(again)
                    ELSE Close(IF ear.wanted THEN OnError(w) ELSE w))

(* The browser drops the engine and never calls back.                      *)
EarVanishes == mic.owner = "ear" /\ Leaves(Release(World))

-----------------------------------------------------------------------------
(* Timers and awaits of the Listener.                                      *)

StartTimeout ==
    /\ ear.startTimer
    /\ LET w == [World EXCEPT !.ear.startTimer = FALSE]
           given == Abandon([w EXCEPT !.ear.wanted = FALSE])
       IN  Leaves(IF ~ear.listening /\ ear.wanted
                  THEN SetState(OnError(given), FALSE) ELSE w)

\* The deadline gives up without delivering.
DeadlineTimeoutDropping ==
    /\ ear.deadline
    /\ LET w == [World EXCEPT !.ear.deadline = FALSE]
           given == Abandon([w EXCEPT !.ear.wanted = FALSE])
       IN  Leaves(IF ear.wanted THEN SetState(OnError(given), FALSE) ELSE w)

DeadlineTimeout ==
    /\ ear.deadline
    /\ LET w == [World EXCEPT !.ear.deadline = FALSE]
           given == Abandon([w EXCEPT !.ear.wanted = FALSE])
       IN  Leaves(IF ~ear.wanted THEN w
                  ELSE IF Pending(given.ear) THEN Deliver(given)
                  ELSE SetState(OnError(given), FALSE))

(* getUserMedia answers.                                                   *)
Grant(by) ==
    /\ ear.asks[by] > 0
    /\ Leaves(Begin([World EXCEPT !.ear.asks[by] = @ - 1,
                                  !.ear.granted = TRUE]))

Deny(by) ==
    /\ ear.asks[by] > 0
    /\ Leaves(Refused(OnError([World EXCEPT !.ear.asks[by] = @ - 1,
                                            !.ear.granted = FALSE]), by))

-----------------------------------------------------------------------------
(* Callbacks and timers of the WakeWord.                                   *)

(* Room for one more timer without its handle.                             *)
RoomToArm == standby.retry => standby.stray < MaxStrays

(* Room for one more permission prompt, if a start would ask for one.      *)
RoomToAsk(by) ==
    ear.wanted \/ ear.granted \/ ear.asks[by] < MaxAsks

WakeStarts ==
    /\ mic.owner = "wake"
    /\ mic.state = "starting"
    /\ mic' = [mic EXCEPT !.state = "running"]
    /\ UNCHANGED <<ear, standby, page, handed>>

(* onresult: anything heard clears the failures; the wake word hands the   *)
(* floor to the Listener.                                                  *)
WakeHears ==
    /\ mic.owner = "wake"
    /\ mic.state = "running"
    /\ ~standby.suspended
    /\ RoomToAsk("wake")
    /\ LET w == [World EXCEPT !.standby.failures = 0]
       IN  Leaves(w) \/ Leaves(Start(Suspend(w), "wake"))

(* onerror: blocked switches standby off, any other fault counts.          *)
WakeFails ==
    /\ mic.owner = "wake"
    /\ Live(mic)
    /\ LET w == [World EXCEPT !.mic.state = "faulted"]
       IN  Leaves(Failed(w)) \/ Leaves(Disable(w))

(* onend; a healthy session clears the failures, and too many in a row     *)
(* give up.                                                                *)
WakeEnds ==
    /\ mic.owner = "wake"
    /\ mic.state # "starting"
    /\ RoomToArm
    /\ \E healthy \in {FALSE, mic.state # "faulted"} :
          LET w == [Release(World) EXCEPT
                       !.standby.failures = IF healthy THEN 0 ELSE @]
          IN  Leaves(IF ~standby.enabled THEN w
                     ELSE IF w.standby.failures >= MaxFailures THEN Disable(w)
                     ELSE ArmRetry(w))

RetryTimeout ==
    /\ standby.retry
    /\ Leaves(WakeSpin([World EXCEPT !.standby.retry = FALSE]))

StrayTimeout ==
    /\ standby.stray > 0
    /\ Leaves(WakeSpin([World EXCEPT !.standby.stray = @ - 1]))

(* The timer of resumeWake.                                                *)
ResumeTimeout ==
    /\ page.resume
    /\ RoomToArm
    /\ LET w == [World EXCEPT !.page.resume = FALSE]
       IN  Leaves(IF standby.enabled /\ ~Busy(w) THEN Resume(w) ELSE w)

-----------------------------------------------------------------------------
(* The user and the server.                                                *)

MicClick ==
    /\ RoomToAsk("mic")
    /\ LET w == Suspend(World)
       IN  Leaves(IF ear.wanted THEN Stop(w) ELSE Start(w, "mic"))

WakeClick ==
    /\ RoomToArm
    /\ Leaves(IF standby.enabled THEN Disable(World) ELSE Enable(World))

(* A typed message or a quick button.                                      *)
SendClick == page.turn = "idle" /\ Leaves(Send(World))

GotItClick == page.speech # "none" /\ Leaves(Hush(World))

(* The chat answers and is spoken; then, or when it failed, the finally.   *)
Answer ==
    /\ page.turn = "asking"
    /\ Leaves(Speak([World EXCEPT !.page.turn = "replied"], "reply"))

Settle ==
    /\ page.turn # "idle"
    /\ Leaves(ResumeWake([World EXCEPT !.page.turn = "idle"]))

(* A tick of the watch loop has something to say.                          *)
Narrate == Leaves(Speak(Suspend(World), "narration"))

(* An utterance ends by itself; a cancelled narration still calls back.    *)
SpeechEnds ==
    /\ page.speech # "none"
    /\ LET w == [World EXCEPT !.page.speech = "none"]
       IN  Leaves(IF page.speech = "narration" THEN ResumeWake(w) ELSE w)

CancelledSpeechEnds ==
    /\ page.due
    /\ Leaves(ResumeWake([World EXCEPT !.page.due = FALSE]))

-----------------------------------------------------------------------------
Next ==
    \/ EarStarts \/ EarHearsPart \/ EarHearsAll
    \/ EarFails \/ EarEnds \/ EarVanishes
    \/ WakeStarts \/ WakeHears \/ WakeFails \/ WakeEnds
    \/ \E by \in {"mic", "wake"} : Grant(by) \/ Deny(by)
    \/ StartTimeout \/ DeadlineTimeout
    \/ RetryTimeout \/ StrayTimeout \/ ResumeTimeout
    \/ MicClick \/ WakeClick \/ SendClick \/ GotItClick
    \/ Answer \/ Settle \/ Narrate \/ SpeechEnds \/ CancelledSpeechEnds

Spec == Init /\ [][Next]_vars

-----------------------------------------------------------------------------
(* Every handler keeps the state of the engine, the Listener, the WakeWord *)
(* and the page within its shape.                                          *)
TypeOK ==
    /\ mic \in [owner : {"none", "ear", "wake"},
                 state : {"free", "starting", "running", "stopping",
                          "ending", "faulted"},
                 orphan : BOOLEAN]
    /\ ear \in [wanted : BOOLEAN, listening : BOOLEAN, announced : BOOLEAN,
                 delivered : BOOLEAN, restarts : 0 .. MaxRestarts,
                 partial : BOOLEAN, current : {"none", "held", "gone"},
                 startTimer : BOOLEAN, deadline : BOOLEAN,
                 granted : BOOLEAN, onlyEnd : BOOLEAN,
                 asks : [{"mic", "wake"} -> 0 .. MaxAsks]]
    /\ standby \in [enabled : BOOLEAN, suspended : BOOLEAN,
                     current : {"none", "held"},
                     failures : 0 .. MaxFailures, retry : BOOLEAN,
                     stray : 0 .. MaxStrays]
    /\ page \in [turn : {"idle", "asking", "replied"}, resume : BOOLEAN,
                  speech : {"none", "reply", "narration"}, due : BOOLEAN]
    /\ handed \in 0 .. 2

(* Standby that stood down is always owed back: while the wake word is on  *)
(* and suspended, the resume timer runs, or a turn, a listen, a permission *)
(* prompt or a narration is under way whose end arms it.  "Any triggered   *)
(* listen that ended without producing a transcript left the recogniser    *)
(* suspended for good" (app.js:457).                                       *)
StandbyIsOwed ==
    standby.enabled /\ standby.suspended =>
        \/ page.resume
        \/ page.turn # "idle"
        \/ ear.wanted
        \/ \E by \in {"mic", "wake"} : ear.asks[by] > 0
        \/ page.speech = "narration" \/ page.due

(* Standby that did not stand down hears, or will try again: an engine of  *)
(* its own is held or a restart timer runs (WakeWord._spin and its onend). *)
(* An engine of the WakeWord does call its onend: nothing watches it.      *)
StandbyIsAlive ==
    standby.enabled /\ ~standby.suspended =>
        mic.owner = "wake" \/ standby.retry \/ standby.stray > 0

(* No handler lets go of a live engine without aborting it: an engine that *)
(* hears while its owner has no handle on it lost it to a start() that     *)
(* threw (suspend, disable, abandon, stop).                                *)
OnlyOrphansLinger ==
    Live(mic) => \/ mic.orphan
                 \/ mic.owner = "ear" /\ ear.current = "held"
                 \/ mic.owner = "wake" /\ standby.current = "held"

(* What was said once is sent once: the interim transcript handed over at  *)
(* a stop, an end or the deadline and the engine's final one are the same  *)
(* words (Listener._deliver, "once").                                      *)
HandedOnce == handed <= 1

(* Words the user saw appear wait for something that will hand them over:  *)
(* the deadline of a listen that is wanted, whatever the engine does, or   *)
(* the onend that a stop by hand, an error or a start() that threw left    *)
(* them to (speech.js:337-341).                                            *)
WordsAwaitAnEnd == Pending(ear) => (ear.wanted /\ ear.deadline) \/ ear.onlyEnd

(* A listen begins over what another one left: a tap or a wake word after  *)
(* it stopped, or the answer to a second permission prompt.                *)
BeginsAnew ==
    \/ ~ear.wanted /\ (MicClick \/ WakeHears)
    \/ \E by \in {"mic", "wake"} : Grant(by)

(* Words the user saw leave only by being handed over, to a page that takes*)
(* them unless a turn is at work: no end of the engine, restart, error,    *)
(* stop nor timer takes them off.  But a new listen does (Listener._deliver*)
(* and start, send).                                                       *)
Taken == Busy(World) \/ page'.turn = "asking"

WordsNotDropped ==
    [][Pending(ear) => Pending(ear') \/ (ear'.delivered /\ Taken) \/ BeginsAnew]_vars

=============================================================================
