------------------------------- MODULE WatchLoop -------------------------------
(***************************************************************************)
(* The browser's half of the watch loop (frontend/app.js tick, startWatching *)
(* and stopWatching; camera.js hasChanged and commitFrame) on top of the     *)
(* server in Watch.  A timer compares the scene with the last frame sent and *)
(* sends the frame to be looked at only when it differs; a scene that stays  *)
(* still is only cached again now and then.  Nobody waits for the answer of  *)
(* one frame before sending the next.                                        *)
(*                                                                           *)
(* What the camera sees is the items in view and one bit for all else (a     *)
(* hand, the light): any difference is a change.  The two rests between      *)
(* frames (MIN_API_GAP_MS, FRAME_WARM_MS) are flags that time raises.  Chat  *)
(* turns and rate limits, which only make the timer skip, are any time the   *)
(* timer does not fire.                                                      *)
(***************************************************************************)
EXTENDS Watch

NoFrame == <<{}, 2>>
Views == (SUBSET Items) \X {0, 1}
Shown(v) == v[1]

VARIABLES
    view,         \* what the camera is pointed at
    watching,     \* state.watching: the timer runs, the page says "Watching"
    stream,       \* camera.stream: the camera is on
    flipping,     \* the camera was turned off to be flipped and is asked for again
    committed,    \* the frame hasChanged compares with; NoFrame is none
    mayLook,      \* MIN_API_GAP_MS has passed since a frame was sent to be looked at
    mayWarm,      \* FRAME_WARM_MS has passed since a frame was cached
    inView,       \* history: when i was last in front of a running camera
    unseen        \* history: unseen[r]: inView when request r's frame was taken

client == <<view, watching, stream, flipping, committed, mayLook, mayWarm>>
sights == <<inView, unseen>>
loopVars == <<vars, client, sights>>

LoopInit ==
    /\ Init
    /\ view \in Views /\ committed = NoFrame
    /\ watching = FALSE /\ stream = FALSE /\ flipping = FALSE
    /\ mayLook = TRUE /\ mayWarm = TRUE
    /\ inView = Blank /\ unseen = [r \in Requests |-> Blank]

\* What a running camera has in front of it is in view now.
Eyed(v, on, t) == [i \in Items |-> IF on /\ i \in Shown(v) THEN t ELSE inView[i]]

SceneChanges(v) ==
    /\ v # view
    /\ view' = v
    /\ inView' = Eyed(v, stream, clock)
    /\ UNCHANGED <<vars, watching, stream, flipping, committed, mayLook, mayWarm, unseen>>

\* camera.start forgets the signature, and the first look may go out at once.
StartWatching ==
    /\ ~watching
    /\ watching' = TRUE /\ stream' = TRUE /\ committed' = NoFrame /\ mayLook' = TRUE
    /\ inView' = Eyed(view, TRUE, clock)
    /\ UNCHANGED <<vars, view, flipping, mayWarm, unseen>>

\* Frames already sent are not called back, nor is a flip.
StopWatching ==
    /\ watching
    /\ watching' = FALSE /\ stream' = FALSE /\ committed' = NoFrame
    /\ UNCHANGED <<vars, view, flipping, mayLook, mayWarm, sights>>

\* camera.flip stops the camera and asks for the other one, under the running timer.
Flip ==
    /\ watching /\ stream
    /\ stream' = FALSE /\ flipping' = TRUE /\ committed' = NoFrame
    /\ UNCHANGED <<vars, view, watching, mayLook, mayWarm, sights>>

FlipOpens ==
    /\ flipping
    /\ stream' = TRUE /\ flipping' = FALSE /\ committed' = NoFrame
    /\ inView' = Eyed(view, TRUE, clock)
    /\ UNCHANGED <<vars, view, watching, mayLook, mayWarm, unseen>>

\* It is refused: the click's handler says so, and nothing else changes.
FlipFails ==
    /\ flipping
    /\ flipping' = FALSE
    /\ UNCHANGED <<vars, view, watching, stream, committed, mayLook, mayWarm, sights>>

RestForLook ==
    /\ ~mayLook
    /\ mayLook' = TRUE
    /\ UNCHANGED <<vars, view, watching, stream, flipping, committed, mayWarm, sights>>

RestForWarm ==
    /\ ~mayWarm
    /\ mayWarm' = TRUE
    /\ UNCHANGED <<vars, view, watching, stream, flipping, committed, mayLook, sights>>

\* Without a stream there is nothing to compare and nothing to send.
HasChanged == view # committed

\* The frame is committed before the request is made, whatever becomes of it.
SendFrame(r) ==
    /\ watching /\ stream /\ mayLook /\ HasChanged
    /\ Post(r, "sent", Shown(view))
    /\ committed' = view /\ mayLook' = FALSE /\ mayWarm' = FALSE
    /\ unseen' = [unseen EXCEPT ![r] = inView]
    /\ UNCHANGED <<view, watching, stream, flipping, inView>>

\* Only a frame that is worth a look is cached.
SendWarmIfChanged(r) ==
    /\ watching /\ stream /\ mayLook /\ mayWarm /\ HasChanged
    /\ Post(r, "warming", Shown(view))
    /\ mayWarm' = FALSE
    /\ UNCHANGED <<view, watching, stream, flipping, committed, mayLook, sights>>

\* keepFrameWarm: a still scene is cached again and not looked at.
SendWarm(r) ==
    /\ watching /\ stream /\ mayLook /\ mayWarm /\ ~HasChanged
    /\ Post(r, "warming", Shown(view))
    /\ mayWarm' = FALSE
    /\ UNCHANGED <<view, watching, stream, flipping, committed, mayLook, sights>>

TimePasses ==
    /\ Tick
    /\ inView' = Eyed(view, stream, clock')
    /\ UNCHANGED <<client, unseen>>

ServerActs ==
    /\ \/ \E r \in Requests : Serve(r) \/ RequestDies(r)
       \/ MemoryLost
       \/ FrameLost
    /\ UNCHANGED <<client, sights>>

TimerFires == \E r \in Requests : SendFrame(r) \/ SendWarm(r)

LoopNext ==
    \/ \E v \in Views : SceneChanges(v)
    \/ StartWatching
    \/ StopWatching
    \/ Flip
    \/ FlipOpens
    \/ FlipFails
    \/ RestForLook
    \/ RestForWarm
    \/ TimerFires
    \/ TimePasses
    \/ ServerActs

LoopSpec == LoopInit /\ [][LoopNext]_loopVars

\* Time passes, the interval timer keeps firing, and the server answers.
Fairness ==
    /\ WF_loopVars(TimePasses) /\ WF_loopVars(RestForLook) /\ WF_loopVars(RestForWarm)
    /\ WF_loopVars(TimerFires)
    /\ \A r \in Requests : WF_loopVars(Serve(r) /\ UNCHANGED <<client, sights>>)
FairLoopSpec == LoopSpec /\ Fairness

-------------------------------------------------------------------------------
(* Properties. *)

(* A leave scan finds something to look at: while the camera is on and held on *)
(* one scene, what the server has cached is that scene again and again,        *)
(* however often the cache drops it (app.js keepFrameWarm).                    *)
StillSceneStaysCached ==
    \A v \in Views : <>[](watching /\ stream /\ view = v) => []<>(frame = {Shown(v)})

(* What watch.py:34-37 says of GONE_AFTER_SECONDS: an item is called gone only *)
(* after it has been out of view that long.                                    *)
GoneMeansAbsent ==
    \A r \in Requests : req[r].pc = "loaded" =>
        \A i \in LeftView(r) : Since(r, unseen[r][i]) >= GoneAfter
===============================================================================
