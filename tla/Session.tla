------------------------------ MODULE Session -------------------------------
(***************************************************************************)
(* One session of a user: the turns of the conversation                    *)
(* (src/agent/engine.py AgentEngine.handle), the tools a turn may run that *)
(* touch the session (src/tools/context_tools.py), leave scans called      *)
(* directly, and the four places that each hold a part of the session:     *)
(* the cached document (src/utils/cache.py SessionState), the ADK session  *)
(* state, the location key (src/utils/location.py) and the cached frame.   *)
(*                                                                         *)
(* Requests of one session overlap, here or on other instances, between    *)
(* any two awaits.  Any of them may be cut off.  A frame is captured in    *)
(* the browser and cached when its request is served; requests overtake    *)
(* each other.  Of the document only its location and the utterances are   *)
(* kept; its other fields share their fate.                                *)
(***************************************************************************)
EXTENDS Naturals, Sequences

CONSTANTS
    Turns,          \* requests that are turns of the conversation or scans
    Looks,          \* requests that only bring a frame (/api/frame, observe)
    Places,         \* places the user may speak of
    NoPlace,        \* None
    NoFrame,        \* no frame in the cache
    Home,           \* "home", where a scan of a chat starts by default
    Resting,        \* default_label(), where any other scan starts
    MaxUtterances,  \* utterances the document keeps
    MaxLosses       \* bound: entries that expire or are lost to a restart

ASSUME SessionAssumption ==
    /\ {NoPlace, Home, Resting} \cap Places = {}
    /\ NoPlace \notin {Home, Resting}
    /\ NoFrame \notin Turns \cup Looks
    /\ Turns \cap Looks = {}
    /\ MaxUtterances \in Nat \ {0}
    /\ MaxLosses \in Nat

VARIABLES
    doc,        \* the document session:<id>: its location and its utterances
    adk,        \* current_location in the ADK session, NoPlace if there is none
    key,        \* the label at location:<id>, NoPlace if there is none
    frame,      \* the request whose frame is cached
    turn,       \* what each turn holds between its awaits
    config,     \* model credentials or none, a database for sessions or none
    looked,     \* the looks that were made
    flying,     \* requests whose frame is captured and not yet cached
    announced,  \* history: the place last announced, and how: told by the
                \*   user and acknowledged, or the destination of a scan
    since,      \* history: of a turn that was saved, the turns saved since
    raced,      \* history: turns that overlapped another
    losses      \* history: entries lost

stores == <<doc, adk, key, frame>>
history == <<announced, since, raced, losses>>
vars == <<stores, turn, config, looked, flying, history>>

Requests == Turns \cup Looks

Blank == [place |-> NoPlace, said |-> <<>>]

Docs == [place : Places \cup {NoPlace}, said : Seq(Turns)]

Announcements ==
    [place : Places \cup {NoPlace}, by : {"nobody", "user", "scan"}]

Origins == Places \cup {Home, Resting}

(* build_session_service: the ADK sessions are durable with a database.     *)
Configs == [genai : BOOLEAN, durable : BOOLEAN]

(* Between loading the document and saving it, or failing to.              *)
InFlight == {t \in Turns : turn[t].chat /\ turn[t].pc \notin {"sent", "arrived"}}

(* What a turn holds before it begins, and when it is over.                *)
AtRest(pc) ==
    [pc |-> pc, was |-> Blank, mine |-> Blank, state |-> Home, origin |-> Home,
     to |-> NoPlace, sees |-> NoFrame, later |-> {}, astray |-> {},
     chat |-> FALSE, results |-> FALSE]

Ends(t, pc) == turn' = [turn EXCEPT ![t] = AtRest(pc)]

(* The first utterances instead of the last.                               *)
Earliest(s) ==
    SubSeq(s, 1, IF Len(s) > MaxUtterances THEN MaxUtterances ELSE Len(s))

(* save_session keeps the last utterances.                                 *)
Latest(s) ==
    SubSeq(s, IF Len(s) > MaxUtterances THEN Len(s) - MaxUtterances + 1 ELSE 1,
           Len(s))

Saved(d) == [d EXCEPT !.said = Latest(@)]

Init ==
    /\ doc = Blank
    /\ adk = NoPlace /\ key = NoPlace /\ frame = NoFrame
    /\ turn = [t \in Turns |-> AtRest("idle")]
    /\ config \in Configs
    /\ looked = {} /\ flying = {}
    /\ announced = [place |-> NoPlace, by |-> "nobody"]
    /\ since = [t \in Turns |-> 0]
    /\ raced = {} /\ losses = 0

-----------------------------------------------------------------------------
(* A turn, up to the model.                                                *)

(* Request r captures a frame: to every turn under way it is later.        *)
Later(ts, r) ==
    [u \in Turns |->
        IF ts[u].chat THEN [ts[u] EXCEPT !.later = @ \cup {r}] ELSE ts[u]]

(* send: a turn may take a frame along.  To one without, no frame is too   *)
(* old.                                                                    *)
Sends(ts, t, framed) ==
    [ts EXCEPT ![t].pc = "sent", ![t].chat = TRUE,
               ![t].later = IF framed THEN {t} ELSE Requests]

Send(t, framed) ==
    /\ turn[t].pc = "idle"
    /\ IF framed
       THEN flying' = flying \cup {t} /\ turn' = Sends(Later(turn, t), t, framed)
       ELSE turn' = Sends(turn, t, framed) /\ UNCHANGED flying
    /\ UNCHANGED <<stores, config, looked, history>>

(* A frame that arrives with the turn is not cached first.                 *)
ArriveUncached(t) ==
    /\ turn[t].pc = "sent"
    /\ flying' = flying \ {t}
    /\ turn' = [turn EXCEPT ![t].pc = "arrived",
                            ![t].astray = flying \ turn[t].later]
    /\ UNCHANGED <<stores, config, looked, history>>

(* handle begins: a frame that comes with the turn is cached before        *)
(* anything else.  Earlier ones may still be on their way.                 *)
Arrive(t) ==
    /\ turn[t].pc = "sent"
    /\ frame' = IF t \in flying THEN t ELSE frame
    /\ flying' = flying \ {t}
    /\ turn' = [turn EXCEPT ![t].pc = "arrived",
                            ![t].astray = flying \ turn[t].later]
    /\ UNCHANGED <<doc, adk, key, config, looked, history>>

(* get_session; the intent is then classified on the copy.                 *)
Load(t) ==
    /\ turn[t].pc = "arrived"
    /\ turn' = [turn EXCEPT ![t].pc = IF config.genai THEN "loaded" ELSE "unaided",
                            ![t].was = doc]
    /\ raced' = IF InFlight = {} THEN raced ELSE raced \cup InFlight \cup {t}
    /\ UNCHANGED <<stores, config, looked, flying, announced, since, losses>>

(* _ensure_session: created from the copy if it is not there; the run then *)
(* works on its state.                                                     *)
Ensure(t) ==
    /\ turn[t].pc = "loaded"
    /\ LET from == IF turn[t].was.place = NoPlace THEN Home ELSE turn[t].was.place
           state == IF adk = NoPlace THEN from ELSE adk
       IN  /\ adk' = state
           /\ turn' = [turn EXCEPT ![t].pc = "running", ![t].state = state]
    /\ UNCHANGED <<doc, key, frame, config, looked, flying, history>>

-----------------------------------------------------------------------------
(* record_observation(kind="location"): the row and the state of the run,  *)
(* then the document, read and written; then the runner commits.           *)

Tell(t, p) ==
    /\ turn[t].pc = "running"
    /\ turn' = [turn EXCEPT ![t].pc = "telling", ![t].state = p]
    /\ UNCHANGED <<stores, config, looked, flying, history>>

TellLoad(t) ==
    /\ turn[t].pc = "telling"
    /\ turn' = [turn EXCEPT ![t].pc = "told",
                            ![t].mine = [doc EXCEPT !.place = turn[t].state]]
    /\ UNCHANGED <<stores, config, looked, flying, history>>

TellSave(t) ==
    /\ turn[t].pc = "told"
    /\ doc' = Saved(turn[t].mine)
    /\ turn' = [turn EXCEPT ![t].pc = "noted", ![t].mine = Blank]
    /\ UNCHANGED <<adk, key, frame, config, looked, flying, history>>

(* The place is kept for the rest of the turn only.                        *)
TellUncommitted(t) ==
    /\ turn[t].pc = "noted"
    /\ announced' = [place |-> turn[t].state, by |-> "user"]
    /\ turn' = [turn EXCEPT ![t].pc = "running"]
    /\ UNCHANGED <<stores, config, looked, flying, since, raced, losses>>

(* The answer of the tool commits what it changed of the ADK state.        *)
TellCommit(t) ==
    /\ turn[t].pc = "noted"
    /\ adk' = turn[t].state
    /\ announced' = [place |-> turn[t].state, by |-> "user"]
    /\ turn' = [turn EXCEPT ![t].pc = "running"]
    /\ UNCHANGED <<doc, key, frame, config, looked, flying, since, raced, losses>>

-----------------------------------------------------------------------------
(* leave_detection, from a turn's tool, from a turn without the model, or  *)
(* called directly.                                                        *)

\* current_location without its fallback.
LabelBare == key

(* current_location: the label last announced by a scan, or the default.   *)
Label == IF key = NoPlace THEN Resting ELSE key

Scan(t, origin, p) ==
    turn' = [turn EXCEPT ![t].pc = "scanning", ![t].origin = origin,
                         ![t].to = p]

(* The tool of a turn takes the origin from the ADK state.                 *)
CheckBeforeLeaving(t, p) ==
    /\ turn[t].pc = "running"
    /\ Scan(t, turn[t].state, p)
    /\ UNCHANGED <<stores, config, looked, flying, history>>

(* _handle_without_model gives no origin.                                  *)
ScanUnaided(t, p) ==
    /\ turn[t].pc = "unaided"
    /\ Scan(t, Label, p)
    /\ UNCHANGED <<stores, config, looked, flying, history>>

(* POST /api/leave-scan may give one.                                      *)
ScanDirect(t, p) ==
    /\ turn[t].pc = "idle"
    /\ \E o \in Places \cup {Label} : Scan(t, o, p)
    /\ UNCHANGED <<stores, config, looked, flying, history>>

(* get_frame, unless a direct call brought a frame of its own.             *)
ScanLook(t) ==
    /\ turn[t].pc = "scanning"
    /\ \E f \in IF turn[t].chat THEN {frame} ELSE {frame, t} :
          turn' = [turn EXCEPT ![t].pc = "scanned", ![t].sees = f]
    /\ UNCHANGED <<stores, config, looked, flying, history>>

(* A turn with the model goes on; any other is over, and saves nothing.    *)
GoesOn(t) ==
    IF turn[t].chat /\ config.genai
    THEN turn' = [turn EXCEPT ![t].pc = "running", ![t].results = TRUE,
                    ![t].origin = Home, ![t].to = NoPlace, ![t].sees = NoFrame]
    ELSE Ends(t, "over")

(* Vision answered: the items are filed under the origin, and the location *)
(* key becomes the destination.                                            *)
ScanFile(t) ==
    /\ turn[t].pc = "scanned"
    /\ turn[t].sees # NoFrame
    /\ key' = turn[t].to
    /\ announced' = [place |-> turn[t].to, by |-> "scan"]
    /\ GoesOn(t)
    /\ UNCHANGED <<doc, adk, frame, config, looked, flying, since, raced, losses>>

(* No frame, or vision did not answer: nothing is written.                 *)
ScanBlind(t) ==
    /\ turn[t].pc = "scanned"
    /\ GoesOn(t)
    /\ UNCHANGED <<stores, config, looked, flying, history>>

(* A tool that only reads: its answer is a workflow result all the same.   *)
ReadTool(t) ==
    /\ turn[t].pc = "running"
    /\ turn' = [turn EXCEPT ![t].results = TRUE]
    /\ UNCHANGED <<stores, config, looked, flying, history>>

-----------------------------------------------------------------------------
(* The end of a turn.                                                      *)

(* Every turn that was saved is one turn older.                            *)
Ages ==
    since' = [u \in Turns |-> IF turn[u].pc = "saved" THEN since[u] + 1 ELSE 0]

(* The copy of the document that the turn began with, and its utterance.   *)
EndTurn(t) ==
    /\ turn[t].pc = "running"
    /\ doc' = Saved([turn[t].was EXCEPT !.said = Append(@, t)])
    /\ Ages
    /\ Ends(t, "saved")
    /\ UNCHANGED <<adk, key, frame, config, looked, flying, announced, raced, losses>>

(* The model's quota is spent: saved as it began if a workflow ran.        *)
QuotaSpent(t) ==
    /\ turn[t].pc = "running"
    /\ Ends(t, "over")
    /\ doc' = IF turn[t].results THEN Saved(turn[t].was) ELSE doc
    /\ UNCHANGED <<adk, key, frame, config, looked, flying, history>>

(* get_current_context: what the agent believes of the user's place.       *)
KnownPlace == doc.place

(* A turn without the model that is not about leaving.                     *)
AnswerUnaided(t) ==
    /\ turn[t].pc = "unaided"
    /\ Ends(t, "over")
    /\ UNCHANGED <<stores, config, looked, flying, history>>

(* Cut off at any await, or an exception.                                  *)
TurnDies(t) ==
    /\ turn[t].pc \notin {"idle", "sent", "saved", "over"}
    /\ Ends(t, "over")
    /\ UNCHANGED <<stores, config, looked, flying, history>>

-----------------------------------------------------------------------------
(* The watch loop's frames, and the entries that go.                       *)

(* The page captures a frame; it does not wait for the answers to others.  *)
Capture(l) ==
    /\ l \notin looked
    /\ looked' = looked \cup {l}
    /\ flying' = flying \cup {l}
    /\ turn' = Later(turn, l)
    /\ UNCHANGED <<stores, config, history>>

(* put_frame: its request is served.                                       *)
Put(l) ==
    /\ l \in flying
    /\ frame' = l
    /\ flying' = flying \ {l}
    /\ UNCHANGED <<doc, adk, key, turn, config, looked, history>>

(* An entry expires, or an instance that kept it in memory goes.           *)
Lose ==
    /\ losses < MaxLosses
    /\ losses' = losses + 1
    /\ \/ doc' = Blank /\ UNCHANGED <<adk, key, frame>>
       \/ ~config.durable /\ adk' = NoPlace /\ UNCHANGED <<doc, key, frame>>
       \/ key' = NoPlace /\ UNCHANGED <<doc, adk, frame>>
       \/ frame' = NoFrame /\ UNCHANGED <<doc, adk, key>>
    /\ UNCHANGED <<turn, config, looked, flying, announced, since, raced>>

Next ==
    \/ \E t \in Turns :
          \/ \E framed \in BOOLEAN : Send(t, framed)
          \/ Arrive(t) \/ Load(t) \/ Ensure(t)
          \/ TellLoad(t) \/ TellSave(t) \/ TellCommit(t)
          \/ \E p \in Places :
                \/ Tell(t, p) \/ CheckBeforeLeaving(t, p)
                \/ ScanUnaided(t, p) \/ ScanDirect(t, p)
          \/ ScanLook(t) \/ ScanFile(t) \/ ScanBlind(t) \/ ReadTool(t)
          \/ EndTurn(t) \/ QuotaSpent(t) \/ AnswerUnaided(t) \/ TurnDies(t)
    \/ \E l \in Looks : Capture(l) \/ Put(l)
    \/ Lose

Spec == Init /\ [][Next]_vars

-----------------------------------------------------------------------------
(* Every entry and every local keeps its shape.                            *)
TypeOK ==
    /\ doc \in Docs
    /\ adk \in Places \cup {Home, NoPlace}
    /\ key \in Places \cup {NoPlace}
    /\ frame \in Requests \cup {NoFrame}
    /\ turn \in [Turns ->
         [pc : {"idle", "sent", "arrived", "loaded", "unaided", "running",
                "telling", "told", "noted", "scanning", "scanned", "saved",
                "over"},
          was : Docs, mine : Docs, state : Places \cup {Home},
          origin : Origins, to : Places \cup {NoPlace},
          sees : Requests \cup {NoFrame}, later : SUBSET Requests,
          astray : SUBSET Requests, chat : BOOLEAN, results : BOOLEAN]]
    /\ config \in Configs
    /\ looked \subseteq Looks
    /\ flying \subseteq Requests
    /\ announced \in Announcements
    /\ since \in [Turns -> Nat]
    /\ raced \subseteq Turns
    /\ losses \in 0 .. MaxLosses

Utterances(d) == {d.said[i] : i \in DOMAIN d.said}

(* What was said is remembered: a turn that was saved is in the document   *)
(* until as many were saved after it as the document keeps (cache.py:139), *)
(* unless another turn overlapped it, or an entry was lost                 *)
(* (AgentEngine.handle reads the document before the turn and writes it    *)
(* whole after).                                                           *)
SaidIsRemembered ==
    \A t \in Turns : turn[t].pc = "saved" =>
        \/ t \in Utterances(doc)
        \/ since[t] >= MaxUtterances
        \/ t \in raced \/ losses > 0

(* No frame that was cached before a turn's own is looked at any more: a   *)
(* turn that came with a frame sees that one, one captured later, or one   *)
(* captured earlier whose request was still on its way when the turn's     *)
(* came (AgentEngine.handle puts the frame before all else).               *)
ScanIsNotBehind ==
    \A t \in Turns : turn[t].chat =>
        turn[t].sees \in turn[t].later \cup turn[t].astray \cup {NoFrame}

(* No turns overlapped, and no entry was lost where sessions are not       *)
(* durable.                                                                *)
Undisturbed == raced = {} /\ (config.durable \/ losses = 0)

(* A place told in words reaches the next scan of a turn: as long as no    *)
(* scan announced another since, it files what it sees there, however many *)
(* turns, crashes and quota errors later (record_observation, the commit   *)
(* of the ADK state and check_before_leaving).                             *)
ScanStartsWhereTold ==
    \A t \in Turns :
        /\ turn[t].chat /\ config.genai /\ turn[t].pc \in {"scanning", "scanned"}
        /\ Undisturbed /\ announced.by # "scan"
        => turn[t].origin = IF announced.by = "user" THEN announced.place ELSE Home

(* "Remember something the user just told you [...]: where they are"       *)
(* (context_tools.py:64-68): once nothing is under way, nothing overlapped *)
(* and nothing was lost, get_current_context reports the place last told.  *)
PlaceIsRemembered ==
    InFlight = {} /\ raced = {} /\ losses = 0 /\ announced.by = "user"
        => KnownPlace = announced.place

=============================================================================
