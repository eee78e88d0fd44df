----------------------------- MODULE SessionProofs -----------------------------
(***************************************************************************)
(* What a session keeps, for any number of turns, looks, places and kept   *)
(* utterances, every interleaving of the awaits, every order in which      *)
(* frames come in, and any number of entries that are lost.                *)
(***************************************************************************)
EXTENDS Session, TLAPS

TurnStates ==
    [pc : {"idle", "sent", "arrived", "loaded", "unaided", "running",
           "telling", "told", "noted", "scanning", "scanned", "saved", "over"},
     was : Docs, mine : Docs, state : Places \cup {Home},
     origin : Origins, to : Places \cup {NoPlace},
     sees : Requests \cup {NoFrame}, later : SUBSET Requests,
     astray : SUBSET Requests, chat : BOOLEAN, results : BOOLEAN]

(* The places of a turn that its ADK session exists in.                    *)
Working == {"running", "telling", "told", "noted"}

(* The place the user last told: what a session that was not disturbed     *)
(* believes, if no scan announced another.                                 *)
LastTold == IF announced.by = "user" THEN announced.place ELSE Home

(* t is in s, and at most n others follow it.                              *)
Recent(s, t, n) == \E i \in 1 .. Len(s) : s[i] = t /\ Len(s) - i <= n

Kept(d, t) ==
    \/ Recent(d.said, t, since[t])
    \/ since[t] >= MaxUtterances
    \/ t \in raced \/ losses > 0

-----------------------------------------------------------------------------
(* The inductive invariant, in named parts.                                *)

(* A turn that is not under way holds nothing, and only turns of the       *)
(* conversation pass through the places of one.                            *)
LocalsFit ==
    \A t \in Turns :
        /\ turn[t].pc \in {"idle", "saved", "over"} => turn[t] = AtRest(turn[t].pc)
        /\ turn[t].pc \in {"sent", "arrived", "loaded", "unaided"} \cup Working
              => turn[t].chat
        /\ turn[t].pc = "unaided" => ~config.genai
        /\ turn[t].pc \in {"telling", "told", "noted"} => turn[t].state \in Places

(* No frame that is cached or on its way was cached before one that a turn *)
(* under way came with.                                                    *)
FrameIsFresh ==
    \A t \in Turns : turn[t].chat =>
        /\ turn[t].sees \in turn[t].later \cup turn[t].astray \cup {NoFrame}
        /\ turn[t].pc = "sent" =>
              /\ turn[t].sees = NoFrame
              /\ IF t \in flying THEN t \in turn[t].later ELSE turn[t].later = Requests
        /\ turn[t].pc # "sent" =>
              /\ frame \in turn[t].later \cup turn[t].astray \cup {NoFrame}
              /\ flying \subseteq turn[t].later \cup turn[t].astray

(* Two turns between their loads and their saves know of each other.       *)
OverlapsAreNoted ==
    \A t, u \in InFlight : t # u => t \in raced

(* A turn that was saved is near the end of the document, and of every     *)
(* copy of it.                                                             *)
SavedIsKept ==
    \A t \in Turns : turn[t].pc = "saved" =>
        /\ Kept(doc, t)
        /\ \A u \in InFlight : Kept(turn[u].was, t)
        /\ \A u \in Turns : turn[u].pc = "told" => Kept(turn[u].mine, t)

(* Without an ADK session no turn ever had one: no place was told.         *)
NothingTold ==
    Undisturbed /\ adk = NoPlace =>
        /\ doc.place = NoPlace /\ announced.by # "user"
        /\ \A t \in Turns :
              /\ turn[t].was.place = NoPlace
              /\ turn[t].pc \notin Working
              /\ ~(turn[t].chat /\ config.genai /\ turn[t].pc \in {"scanning", "scanned"})

(* The ADK session has the place last told, and so has the turn that runs. *)
StateIsLastTold ==
    Undisturbed /\ announced.by # "scan" =>
        /\ adk \in {LastTold, NoPlace}
        /\ \A t \in Turns :
              /\ turn[t].pc = "running" => turn[t].state = LastTold
              /\ turn[t].chat /\ config.genai /\ turn[t].pc \in {"scanning", "scanned"}
                    => turn[t].state = LastTold /\ turn[t].origin = LastTold

IInv ==
    /\ TypeOK
    /\ LocalsFit
    /\ FrameIsFresh
    /\ OverlapsAreNoted
    /\ SavedIsKept
    /\ NothingTold
    /\ StateIsLastTold

-----------------------------------------------------------------------------
(* The utterances.                                                         *)

\* What the cut to the last utterances keeps.
LEMMA LatestKeeps ==
  ASSUME NEW S, NEW s \in Seq(S)
  PROVE  /\ Latest(s) \in Seq(S)
         /\ \A t, n : n \in Nat /\ n < MaxUtterances /\ Recent(s, t, n)
              => Recent(Latest(s), t, n)
<1> DEFINE m == IF Len(s) > MaxUtterances THEN Len(s) - MaxUtterances + 1 ELSE 1
<1>1. MaxUtterances \in Nat /\ MaxUtterances > 0 /\ Len(s) \in Nat
  BY SessionAssumption
<1>2. m \in 1 .. Len(s) + 1 /\ Latest(s) = SubSeq(s, m, Len(s))
  BY <1>1 DEF Latest
<1> HIDE DEF m
<1>3. /\ Latest(s) \in Seq(S) /\ Len(Latest(s)) = Len(s) - m + 1
      /\ \A j \in 1 .. Len(s) - m + 1 : Latest(s)[j] = s[m + j - 1]
  BY <1>1, <1>2
<1>4. ASSUME NEW t, NEW n \in Nat, n < MaxUtterances, Recent(s, t, n)
      PROVE  Recent(Latest(s), t, n)
  <2>1. PICK i \in 1 .. Len(s) : s[i] = t /\ Len(s) - i <= n
    BY <1>4 DEF Recent
  <2>2. m <= i
    BY <1>1, <1>4, <2>1 DEF m
  <2>3. /\ i - m + 1 \in 1 .. Len(s) - m + 1
        /\ m + (i - m + 1) - 1 = i
        /\ (Len(s) - m + 1) - (i - m + 1) <= n
    BY <1>1, <1>2, <2>1, <2>2
  <2>4. Latest(s)[i - m + 1] = t
    BY <1>3, <2>1, <2>3
  <2>. QED
    BY <1>3, <2>3, <2>4 DEF Recent
<1>. QED
  BY <1>3, <1>4

\* What an utterance more does to the distance of the others.
LEMMA AppendKeeps ==
  ASSUME NEW S, NEW s \in Seq(S), NEW e \in S
  PROVE  /\ Append(s, e) \in Seq(S)
         /\ Recent(Append(s, e), e, 0)
         /\ \A t, n : n \in Nat /\ Recent(s, t, n) => Recent(Append(s, e), t, n + 1)
<1>1. /\ Append(s, e) \in Seq(S) /\ Len(s) \in Nat
      /\ Len(Append(s, e)) = Len(s) + 1 /\ Append(s, e)[Len(s) + 1] = e
      /\ \A i \in 1 .. Len(s) : Append(s, e)[i] = s[i]
  OBVIOUS
<1>2. Recent(Append(s, e), e, 0)
  BY <1>1 DEF Recent
<1>3. ASSUME NEW t, NEW n \in Nat, Recent(s, t, n) PROVE Recent(Append(s, e), t, n + 1)
  <2>1. PICK i \in 1 .. Len(s) : s[i] = t /\ Len(s) - i <= n
    BY <1>3 DEF Recent
  <2>2. i \in 1 .. Len(s) + 1 /\ Len(s) + 1 - i <= n + 1
    BY <1>1, <2>1
  <2>. QED
    BY <1>1, <2>1, <2>2 DEF Recent
<1>. QED
  BY <1>1, <1>2, <1>3

LEMMA RecentLater ==
  ASSUME NEW S, NEW s \in Seq(S), NEW t, NEW n \in Nat, Recent(s, t, n)
  PROVE  Recent(s, t, n + 1)
<1>1. PICK i \in 1 .. Len(s) : s[i] = t /\ Len(s) - i <= n
  BY DEF Recent
<1>. QED
  BY <1>1 DEF Recent

\* What save_session writes is a document, with its place, and with its last utterances.
LEMMA SavedKeeps ==
  ASSUME NEW d \in Docs
  PROVE  /\ Saved(d) \in Docs /\ Saved(d).place = d.place
         /\ \A t, n : n \in Nat /\ n < MaxUtterances /\ Recent(d.said, t, n)
              => Recent(Saved(d).said, t, n)
<1>1. d.said \in Seq(Turns) /\ Saved(d) = [place |-> d.place, said |-> Latest(d.said)]
  BY DEF Docs, Saved
<1>. QED
  BY <1>1, LatestKeeps DEF Docs

-----------------------------------------------------------------------------
(* Types.                                                                  *)

LEMMA BlankTyped == Blank \in Docs /\ Blank.place = NoPlace
<1>1. <<>> \in Seq(Turns)
  OBVIOUS
<1>. QED
  BY <1>1 DEF Blank, Docs

LEMMA RestTyped ==
  ASSUME NEW pc \in {"idle", "saved", "over"}
  PROVE  AtRest(pc) \in TurnStates
BY BlankTyped DEF AtRest, TurnStates, Origins

LEMMA RestSays ==
  ASSUME NEW pc
  PROVE  /\ AtRest(pc).pc = pc /\ ~AtRest(pc).chat /\ AtRest(pc).sees = NoFrame
         /\ AtRest(pc).was = Blank /\ AtRest(pc).later = {}
BY DEF AtRest

LEMMA InitTypeOK == Init => TypeOK
<1> SUFFICES ASSUME Init PROVE TypeOK
  OBVIOUS
<1>1. turn \in [Turns -> TurnStates]
  BY RestTyped DEF Init
<1>2. losses \in 0 .. MaxLosses /\ since \in [Turns -> Nat] /\ announced \in Announcements
  BY SessionAssumption DEF Init, Announcements
<1>. QED
  BY <1>1, <1>2, BlankTyped DEF Init, TypeOK, TurnStates

\* A frame that is captured makes every turn under way older by it, and
\* changes nothing else of it.
LEMMA LaterTyped ==
  ASSUME turn \in [Turns -> TurnStates], NEW r \in Requests
  PROVE  /\ Later(turn, r) \in [Turns -> TurnStates]
         /\ \A u \in Turns :
              /\ \A f \in {"pc", "was", "mine", "state", "origin", "to", "sees", "astray",
                           "chat", "results"} : Later(turn, r)[u][f] = turn[u][f]
              /\ turn[u].chat => Later(turn, r)[u].later = turn[u].later \cup {r}
              /\ ~turn[u].chat => Later(turn, r)[u] = turn[u]
<1>1. ASSUME NEW u \in Turns
      PROVE  /\ Later(turn, r)[u] \in TurnStates
             /\ \A f \in {"pc", "was", "mine", "state", "origin", "to", "sees", "astray",
                          "chat", "results"} : Later(turn, r)[u][f] = turn[u][f]
             /\ turn[u].chat => Later(turn, r)[u].later = turn[u].later \cup {r}
             /\ ~turn[u].chat => Later(turn, r)[u] = turn[u]
  <2>1. turn[u] \in TurnStates
    OBVIOUS
  <2>2. Later(turn, r)[u] = IF turn[u].chat THEN [turn[u] EXCEPT !.later = @ \cup {r}]
                            ELSE turn[u]
    BY DEF Later
  <2>. QED
    BY <2>1, <2>2 DEF TurnStates
<1>2. Later(turn, r) = [u \in Turns |-> Later(turn, r)[u]]
  BY DEF Later
<1>. QED
  BY <1>1, <1>2

\* A turn that is sent, with and without a frame.
LEMMA SendSays ==
  ASSUME TypeOK, LocalsFit, NEW t \in Turns, NEW framed \in BOOLEAN, Send(t, framed)
  PROVE  /\ turn' \in [Turns -> TurnStates]
         /\ turn'[t] = [turn[t] EXCEPT !.pc = "sent", !.chat = TRUE,
                                       !.later = IF framed THEN {t} ELSE Requests]
         /\ \A u \in Turns \ {t} : turn'[u] \in {turn[u], Later(turn, t)[u]}
         /\ \/ /\ flying' = flying /\ turn'[t].later = Requests
               /\ \A u \in Turns \ {t} : turn'[u] = turn[u]
            \/ /\ flying' = flying \cup {t} /\ turn'[t].later = {t}
               /\ \A u \in Turns \ {t} : turn'[u] = Later(turn, t)[u]
<1>0. turn \in [Turns -> TurnStates] /\ t \in Requests /\ turn[t] \in TurnStates
  BY DEF TypeOK, TurnStates, Requests
<1>1. ~turn[t].chat
  BY RestSays DEF Send, LocalsFit
<1> DEFINE new == [turn[t] EXCEPT !.pc = "sent", !.chat = TRUE,
                                  !.later = IF framed THEN {t} ELSE Requests]
<1>2. new \in TurnStates /\ new.later = IF framed THEN {t} ELSE Requests
  BY <1>0 DEF TurnStates
<1>3. Later(turn, t) \in [Turns -> TurnStates] /\ Later(turn, t)[t] = turn[t]
  BY <1>0, <1>1, LaterTyped
<1>4. CASE framed
  <2>1. turn' = [Later(turn, t) EXCEPT ![t] = new]
    BY <1>3, <1>4 DEF Send, Sends
  <2>2. flying' = flying \cup {t}
    BY <1>4 DEF Send
  <2> HIDE DEF new
  <2>. QED
    <3>1. turn'[t] = new /\ \A u \in Turns \ {t} : turn'[u] = Later(turn, t)[u]
      BY <1>2, <1>3, <2>1
    <3>2. new.later = {t} /\ turn' \in [Turns -> TurnStates]
      BY <1>2, <1>3, <1>4, <2>1
    <3>. QED
      BY <2>2, <3>1, <3>2 DEF new
<1>5. CASE ~framed
  <2>1. turn' = [turn EXCEPT ![t] = new]
    BY <1>0, <1>5 DEF Send, Sends
  <2>2. flying' = flying
    BY <1>5 DEF Send
  <2> HIDE DEF new
  <2>. QED
    <3>1. turn'[t] = new /\ \A u \in Turns \ {t} : turn'[u] = turn[u]
      BY <1>0, <1>2, <2>1
    <3>2. new.later = Requests /\ turn' \in [Turns -> TurnStates]
      BY <1>0, <1>2, <1>5, <2>1
    <3>. QED
      BY <2>2, <3>1, <3>2 DEF new
<1>. QED
  BY <1>4, <1>5

\* What a step makes of the turns.
LEMMA TurnsTyped ==
  ASSUME TypeOK, LocalsFit, [Next]_vars
  PROVE  turn' \in [Turns -> TurnStates]
<1>0. /\ turn \in [Turns -> TurnStates] /\ doc \in Docs
      /\ adk \in Places \cup {Home, NoPlace} /\ key \in Places \cup {NoPlace}
      /\ frame \in Requests \cup {NoFrame} /\ flying \subseteq Requests
  BY DEF TypeOK, TurnStates
<1>1. ASSUME NEW t \in Turns, NEW framed \in BOOLEAN, Send(t, framed)
      PROVE  turn' \in [Turns -> TurnStates]
  BY <1>1, SendSays
<1>a. ASSUME NEW t \in Turns, Arrive(t) PROVE turn' \in [Turns -> TurnStates]
  <2> DEFINE new == [turn[t] EXCEPT !.pc = "arrived", !.astray = flying \ turn[t].later]
  <2>1. new \in TurnStates
    BY <1>0 DEF TurnStates
  <2>2. turn' = [turn EXCEPT ![t] = new]
    BY <1>a DEF Arrive
  <2> HIDE DEF new
  <2>. QED
    BY <1>0, <2>1, <2>2
<1>2. ASSUME NEW t \in Turns, Load(t) PROVE turn' \in [Turns -> TurnStates]
  <2> DEFINE new == [turn[t] EXCEPT !.pc = IF config.genai THEN "loaded" ELSE "unaided",
                                    !.was = doc]
  <2>1. new \in TurnStates
    BY <1>0 DEF TurnStates
  <2>2. turn' = [turn EXCEPT ![t] = new]
    BY <1>2 DEF Load
  <2> HIDE DEF new
  <2>. QED
    BY <1>0, <2>1, <2>2
<1>3. ASSUME NEW t \in Turns, Ensure(t) PROVE turn' \in [Turns -> TurnStates]
  <2> DEFINE from == IF turn[t].was.place = NoPlace THEN Home ELSE turn[t].was.place
             state == IF adk = NoPlace THEN from ELSE adk
             new == [turn[t] EXCEPT !.pc = "running", !.state = state]
  <2>1. turn[t].was.place \in Places \cup {NoPlace}
    BY <1>0 DEF TurnStates, Docs
  <2>2. state \in Places \cup {Home}
    BY <1>0, <2>1
  <2>3. turn' = [turn EXCEPT ![t] = new]
    BY <1>3 DEF Ensure
  <2> HIDE DEF state
  <2>4. new \in TurnStates
    BY <1>0, <2>2 DEF TurnStates
  <2> HIDE DEF new
  <2>. QED
    BY <1>0, <2>3, <2>4
<1>4. ASSUME NEW t \in Turns, TellLoad(t) PROVE turn' \in [Turns -> TurnStates]
  <2> DEFINE mine == [doc EXCEPT !.place = turn[t].state]
             new == [turn[t] EXCEPT !.pc = "told", !.mine = mine]
  <2>1. mine \in Docs
    BY <1>0, <1>4 DEF TellLoad, LocalsFit, Docs
  <2>2. turn' = [turn EXCEPT ![t] = new]
    BY <1>4 DEF TellLoad
  <2> HIDE DEF mine
  <2>3. new \in TurnStates
    BY <1>0, <2>1 DEF TurnStates
  <2> HIDE DEF new
  <2>. QED
    BY <1>0, <2>2, <2>3
<1>5. ASSUME NEW t \in Turns, TellSave(t) PROVE turn' \in [Turns -> TurnStates]
  <2> DEFINE new == [turn[t] EXCEPT !.pc = "noted", !.mine = Blank]
  <2>1. new \in TurnStates
    <3>1. turn[t] \in TurnStates /\ Blank \in Docs
      BY <1>0, BlankTyped
    <3>. QED
      BY <3>1 DEF TurnStates
  <2>2. turn' = [turn EXCEPT ![t] = new]
    BY <1>5 DEF TellSave
  <2> HIDE DEF new
  <2>. QED
    BY <1>0, <2>1, <2>2
<1>b. ASSUME NEW t \in Turns, TellCommit(t) PROVE turn' \in [Turns -> TurnStates]
  <2> DEFINE new == [turn[t] EXCEPT !.pc = "running"]
  <2>1. new \in TurnStates
    BY <1>0 DEF TurnStates
  <2>2. turn' = [turn EXCEPT ![t] = new]
    BY <1>b DEF TellCommit
  <2> HIDE DEF new
  <2>. QED
    BY <1>0, <2>1, <2>2
<1>6. ASSUME NEW t \in Turns, NEW p \in Places, Tell(t, p)
      PROVE  turn' \in [Turns -> TurnStates]
  <2> DEFINE new == [turn[t] EXCEPT !.pc = "telling", !.state = p]
  <2>1. new \in TurnStates
    BY <1>0 DEF TurnStates
  <2>2. turn' = [turn EXCEPT ![t] = new]
    BY <1>6 DEF Tell
  <2> HIDE DEF new
  <2>. QED
    BY <1>0, <2>1, <2>2
<1>7. ASSUME NEW t \in Turns, NEW p \in Places,
             CheckBeforeLeaving(t, p) \/ ScanUnaided(t, p) \/ ScanDirect(t, p)
      PROVE  turn' \in [Turns -> TurnStates]
  <2>1. Label \in Origins /\ turn[t].state \in Origins
    BY <1>0 DEF Label, Origins, TurnStates
  <2>2. PICK o \in Origins : Scan(t, o, p)
    BY <1>7, <2>1 DEF CheckBeforeLeaving, ScanUnaided, ScanDirect, Origins
  <2> DEFINE new == [turn[t] EXCEPT !.pc = "scanning", !.origin = o, !.to = p]
  <2>3. new \in TurnStates
    BY <1>0 DEF TurnStates
  <2>4. turn' = [turn EXCEPT ![t] = new]
    BY <2>2 DEF Scan
  <2> HIDE DEF new
  <2>. QED
    BY <1>0, <2>3, <2>4
<1>8. ASSUME NEW t \in Turns, ScanLook(t) PROVE turn' \in [Turns -> TurnStates]
  <2>1. PICK f \in {frame, t} : turn' = [turn EXCEPT ![t].pc = "scanned", ![t].sees = f]
    BY <1>8 DEF ScanLook
  <2> DEFINE new == [turn[t] EXCEPT !.pc = "scanned", !.sees = f]
  <2>2. f \in Requests \cup {NoFrame}
    BY <1>0 DEF Requests
  <2>3. turn[t] \in TurnStates
    BY <1>0
  <2>4. new \in TurnStates
    BY <2>2, <2>3 DEF TurnStates
  <2>5. turn' = [turn EXCEPT ![t] = new]
    BY <2>1
  <2> HIDE DEF new
  <2>. QED
    BY <1>0, <2>4, <2>5
<1>9. ASSUME NEW t \in Turns, ScanFile(t) \/ ScanBlind(t)
      PROVE  turn' \in [Turns -> TurnStates]
  <2>1. AtRest("over") \in TurnStates /\ Home \in Origins
    BY RestTyped DEF Origins
  <2>2. GoesOn(t)
    BY <1>9 DEF ScanFile, ScanBlind
  <2> DEFINE new == [turn[t] EXCEPT !.pc = "running", !.results = TRUE, !.origin = Home,
                                    !.to = NoPlace, !.sees = NoFrame]
  <2>3. new \in TurnStates
    BY <1>0, <2>1 DEF TurnStates
  <2>4. turn' = [turn EXCEPT ![t] = new] \/ turn' = [turn EXCEPT ![t] = AtRest("over")]
    BY <2>2 DEF GoesOn, Ends
  <2> HIDE DEF new
  <2>. QED
    BY <1>0, <2>1, <2>3, <2>4
<1>10. ASSUME NEW t \in Turns, ReadTool(t) PROVE turn' \in [Turns -> TurnStates]
  <2> DEFINE new == [turn[t] EXCEPT !.results = TRUE]
  <2>1. new \in TurnStates
    BY <1>0 DEF TurnStates
  <2>2. turn' = [turn EXCEPT ![t] = new]
    BY <1>10 DEF ReadTool
  <2> HIDE DEF new
  <2>. QED
    BY <1>0, <2>1, <2>2
<1>11. ASSUME NEW t \in Turns,
              EndTurn(t) \/ QuotaSpent(t) \/ AnswerUnaided(t) \/ TurnDies(t)
       PROVE  turn' \in [Turns -> TurnStates]
  <2>1. Ends(t, "saved") \/ Ends(t, "over")
    BY <1>11 DEF EndTurn, QuotaSpent, AnswerUnaided, TurnDies
  <2>2. AtRest("saved") \in TurnStates /\ AtRest("over") \in TurnStates
    BY RestTyped
  <2>. QED
    BY <1>0, <2>1, <2>2 DEF Ends
<1>12. ASSUME NEW l \in Looks, Capture(l) \/ Put(l) PROVE turn' \in [Turns -> TurnStates]
  <2>1. l \in Requests
    BY DEF Requests
  <2>. QED
    BY <1>0, <1>12, <2>1, LaterTyped DEF Capture, Put
<1>13. CASE Lose \/ UNCHANGED vars
  BY <1>0, <1>13 DEF Lose, vars
<1>. QED
  BY <1>1, <1>2, <1>3, <1>4, <1>5, <1>6, <1>7, <1>8, <1>9, <1>10, <1>11, <1>12, <1>13,
     <1>a, <1>b DEF Next

\* Where each of the other variables comes from.
LEMMA Sources ==
  ASSUME TypeOK, LocalsFit, [Next]_vars
  PROVE  /\ config' = config
         /\ \/ doc' = doc \/ Lose
            \/ \E t \in Turns : EndTurn(t) \/ QuotaSpent(t) \/ TellSave(t)
         /\ adk' = adk \/ Lose \/ \E t \in Turns : Ensure(t) \/ TellCommit(t)
         /\ key' \in {key, NoPlace} \/ \E t \in Turns : ScanFile(t)
         /\ frame' \in {frame, NoFrame} \cup flying
         /\ looked' \subseteq Looks
         /\ flying' \subseteq flying \/ \E r \in Requests : flying' = flying \cup {r}
         /\ announced' = announced \/ \E t \in Turns : ScanFile(t) \/ TellCommit(t)
         /\ since' = since \/ \E t \in Turns : EndTurn(t)
         /\ raced' = raced \/ \E t \in Turns : raced' = raced \cup InFlight \cup {t}
         /\ losses' = losses \/ Lose
<1> USE DEF stores, history, vars
<1>1. ASSUME NEW t \in Turns, NEW framed \in BOOLEAN, Send(t, framed)
      PROVE  /\ UNCHANGED <<stores, config, looked, history>>
             /\ flying' \subseteq flying \/ \E r \in Requests : flying' = flying \cup {r}
  BY <1>1 DEF Send, Requests
<1>2. ASSUME NEW t \in Turns, Arrive(t)
      PROVE  /\ UNCHANGED <<doc, adk, key, config, looked, history>>
             /\ frame' \in {frame, NoFrame} \cup flying /\ flying' \subseteq flying
  BY <1>2 DEF Arrive
<1>3. ASSUME NEW l \in Looks, Capture(l) \/ Put(l)
      PROVE  /\ UNCHANGED <<doc, adk, key, config, history>>
             /\ frame' \in {frame, NoFrame} \cup flying
             /\ flying' \subseteq flying \/ \E r \in Requests : flying' = flying \cup {r}
             /\ looked' \subseteq Looks
  BY <1>3 DEF Capture, Put, Requests, TypeOK
<1>4. CASE \/ Lose \/ UNCHANGED vars
           \/ \E t \in Turns : \/ Load(t) \/ Ensure(t) \/ TellLoad(t) \/ TellSave(t)
                               \/ TellCommit(t)
  BY <1>4 DEF Lose, Load, Ensure, TellLoad, TellSave, TellCommit, TypeOK
<1>5. ASSUME NEW t \in Turns, NEW p \in Places,
             Tell(t, p) \/ CheckBeforeLeaving(t, p) \/ ScanUnaided(t, p) \/ ScanDirect(t, p)
      PROVE  UNCHANGED <<stores, config, looked, flying, history>>
  BY <1>5 DEF Tell, CheckBeforeLeaving, ScanUnaided, ScanDirect
<1>6. CASE \E t \in Turns : \/ ScanLook(t) \/ ScanFile(t) \/ ScanBlind(t) \/ ReadTool(t)
                            \/ EndTurn(t) \/ QuotaSpent(t) \/ AnswerUnaided(t) \/ TurnDies(t)
  BY <1>6 DEF ScanLook, ScanFile, ScanBlind, ReadTool, EndTurn, QuotaSpent, AnswerUnaided,
              TurnDies, TypeOK
<1>7. looked \subseteq Looks
  BY DEF TypeOK
<1>. QED
  BY <1>1, <1>2, <1>3, <1>4, <1>5, <1>6, <1>7 DEF Next

LEMMA StepTypeOK == TypeOK /\ LocalsFit /\ [Next]_vars => TypeOK'
<1> SUFFICES ASSUME TypeOK, LocalsFit, [Next]_vars PROVE TypeOK'
  OBVIOUS
<1>0. /\ turn \in [Turns -> TurnStates] /\ turn' \in [Turns -> TurnStates]
      /\ doc \in Docs /\ Blank \in Docs /\ losses \in 0 .. MaxLosses
      /\ \A t \in Turns : /\ turn[t].was \in Docs /\ turn[t].mine \in Docs
                          /\ turn[t].to \in Places \cup {NoPlace}
                          /\ turn[t].state \in Places \cup {Home}
  BY TurnsTyped, BlankTyped DEF TypeOK, TurnStates
<1>1. doc' \in Docs
  <2>1. ASSUME NEW t \in Turns, EndTurn(t) PROVE doc' \in Docs
    <3> DEFINE d == [turn[t].was EXCEPT !.said = Append(@, t)]
    <3>1. turn[t].was.said \in Seq(Turns) /\ turn[t].was \in Docs
      BY <1>0 DEF Docs
    <3>2. Append(turn[t].was.said, t) \in Seq(Turns)
      BY <3>1
    <3>3. d \in Docs
      BY <3>1, <3>2 DEF Docs
    <3>4. doc' = Saved(d)
      BY <2>1 DEF EndTurn
    <3> HIDE DEF d
    <3>. QED
      BY <3>3, <3>4, SavedKeeps
  <2>2. ASSUME NEW t \in Turns, QuotaSpent(t) \/ TellSave(t) PROVE doc' \in Docs
    BY <1>0, <2>2, SavedKeeps DEF QuotaSpent, TellSave
  <2>3. CASE Lose
    BY <1>0, <2>3 DEF Lose
  <2>. QED
    BY <1>0, <2>1, <2>2, <2>3, Sources
<1>2. adk' \in Places \cup {Home, NoPlace}
  <2>1. ASSUME NEW t \in Turns, Ensure(t) PROVE adk' \in Places \cup {Home}
    BY <1>0, <2>1 DEF Ensure, TypeOK, Docs
  <2>2. ASSUME NEW t \in Turns, TellCommit(t) PROVE adk' \in Places
    BY <2>2 DEF TellCommit, LocalsFit
  <2>3. Lose => adk' \in {adk, NoPlace}
    BY DEF Lose
  <2>. QED
    BY <2>1, <2>2, <2>3, Sources DEF TypeOK
<1>3. key' \in Places \cup {NoPlace}
  <2>1. ASSUME NEW t \in Turns, ScanFile(t) PROVE key' \in Places \cup {NoPlace}
    BY <1>0, <2>1 DEF ScanFile
  <2>. QED
    BY <2>1, Sources DEF TypeOK
<1>4. /\ frame' \in Requests \cup {NoFrame} /\ looked' \subseteq Looks
      /\ flying' \subseteq Requests /\ config' \in Configs
  BY Sources DEF TypeOK
<1>5. raced' \subseteq Turns
  BY Sources DEF TypeOK, InFlight
<1>6. losses' \in 0 .. MaxLosses
  <2>1. Lose => losses' \in 0 .. MaxLosses
    BY <1>0, SessionAssumption DEF Lose
  <2>. QED
    BY <1>0, <2>1, Sources
<1>7. announced' \in Announcements
  <2>1. ASSUME NEW t \in Turns, ScanFile(t) \/ TellCommit(t) PROVE announced' \in Announcements
    BY <1>0, <2>1 DEF ScanFile, TellCommit, Announcements, LocalsFit
  <2>. QED
    BY <2>1, Sources DEF TypeOK
<1>8. since' \in [Turns -> Nat]
  <2>1. ASSUME NEW t \in Turns, EndTurn(t) PROVE since' \in [Turns -> Nat]
    BY <2>1 DEF EndTurn, Ages, TypeOK
  <2>. QED
    BY <2>1, Sources DEF TypeOK
<1>. QED
  BY <1>0, <1>1, <1>2, <1>3, <1>4, <1>5, <1>6, <1>7, <1>8 DEF TypeOK, TurnStates

-----------------------------------------------------------------------------
(* Steps.                                                                  *)

(* What turn t does next.                                                  *)
Acts(t) ==
    \/ \E framed \in BOOLEAN : Send(t, framed)
    \/ Arrive(t) \/ Load(t) \/ Ensure(t) \/ TellLoad(t) \/ TellSave(t) \/ TellCommit(t)
    \/ \E p \in Places :
          \/ Tell(t, p) \/ CheckBeforeLeaving(t, p)
          \/ ScanUnaided(t, p) \/ ScanDirect(t, p)
    \/ ScanLook(t) \/ ScanFile(t) \/ ScanBlind(t) \/ ReadTool(t)
    \/ EndTurn(t) \/ QuotaSpent(t) \/ AnswerUnaided(t) \/ TurnDies(t)

\* Nothing but a frame that is captured, or itself, changes what a turn holds.
LEMMA OthersKeep ==
  ASSUME TypeOK, LocalsFit, [Next]_vars, NEW u \in Turns
  PROVE  \/ Acts(u)
         \/ /\ u \in flying => u \in flying'
            /\ \/ turn'[u] = turn[u] /\ flying' \subseteq flying
               \/ \E r \in Requests : turn'[u] = Later(turn, r)[u] /\ flying' = flying \cup {r}
<1>0. turn \in [Turns -> TurnStates]
  BY DEF TypeOK, TurnStates
<1>1. ASSUME NEW t \in Turns, t # u, NEW framed \in BOOLEAN, Send(t, framed)
      PROVE  \/ turn'[u] = turn[u] /\ flying' = flying
             \/ turn'[u] = Later(turn, t)[u] /\ flying' = flying \cup {t}
  BY <1>1, SendSays
<1>2. ASSUME NEW t \in Turns, t # u, Acts(t), ~ \E framed \in BOOLEAN : Send(t, framed)
      PROVE  turn'[u] = turn[u] /\ flying' \subseteq flying /\ (u \in flying => u \in flying')
  <2>1. flying' = flying \/ flying' = flying \ {t}
    BY <1>2 DEF Acts, Arrive, Load, Ensure, TellLoad, TellSave, TellCommit, Tell,
           CheckBeforeLeaving, ScanUnaided, ScanDirect, ScanLook, ScanFile, ScanBlind, ReadTool,
           EndTurn, QuotaSpent, AnswerUnaided, TurnDies
  <2>2. CASE \/ Arrive(t) \/ Load(t) \/ Ensure(t) \/ TellLoad(t) \/ TellSave(t)
             \/ TellCommit(t) \/ ReadTool(t) \/ ScanLook(t)
    BY <1>0, <1>2, <2>2 DEF Arrive, Load, Ensure, TellLoad, TellSave, TellCommit, ReadTool,
                            ScanLook
  <2>3. ASSUME NEW p \in Places,
               \/ Tell(t, p) \/ CheckBeforeLeaving(t, p)
               \/ ScanUnaided(t, p) \/ ScanDirect(t, p)
        PROVE  turn'[u] = turn[u]
    BY <1>0, <1>2, <2>3 DEF Tell, CheckBeforeLeaving, ScanUnaided, ScanDirect, Scan
  <2>4. CASE ScanFile(t) \/ ScanBlind(t)
    BY <1>0, <1>2, <2>4 DEF ScanFile, ScanBlind, GoesOn, Ends
  <2>5. CASE EndTurn(t) \/ QuotaSpent(t) \/ AnswerUnaided(t) \/ TurnDies(t)
    BY <1>0, <1>2, <2>5 DEF EndTurn, QuotaSpent, AnswerUnaided, TurnDies, Ends
  <2>6. turn'[u] = turn[u]
    BY <1>2, <2>2, <2>3, <2>4, <2>5 DEF Acts
  <2>. QED
    BY <1>2, <2>1, <2>6
<1>3. CASE Lose \/ UNCHANGED vars
  BY <1>3 DEF Lose, vars
<1>4. ASSUME NEW l \in Looks, Capture(l)
      PROVE  turn'[u] = Later(turn, l)[u] /\ flying' = flying \cup {l} /\ l \in Requests
  BY <1>4 DEF Capture, Requests
<1>5. ASSUME NEW l \in Looks, Put(l)
      PROVE  turn'[u] = turn[u] /\ flying' = flying \ {l} /\ l # u
  BY <1>5, SessionAssumption DEF Put
<1>6. Turns \subseteq Requests
  BY DEF Requests
<1>a. ASSUME NEW t \in Turns, Acts(t)
      PROVE  \/ Acts(u)
             \/ /\ u \in flying => u \in flying'
                /\ \/ turn'[u] = turn[u] /\ flying' \subseteq flying
                   \/ \E r \in Requests :
                         turn'[u] = Later(turn, r)[u] /\ flying' = flying \cup {r}
  BY <1>a, <1>1, <1>2, <1>6
<1>b. Lose \/ UNCHANGED vars \/ (\E t \in Turns : Acts(t)) \/ \E l \in Looks : Capture(l) \/ Put(l)
  BY DEF Next, Acts
<1>. QED
  BY <1>3, <1>4, <1>5, <1>a, <1>b

\* A turn under way that only gets older keeps its place and all it holds.
LEMMA OlderKeeps ==
  ASSUME TypeOK, NEW u \in Turns, NEW r \in Requests, turn'[u] = Later(turn, r)[u]
  PROVE  /\ turn'[u].pc = turn[u].pc /\ turn'[u].chat = turn[u].chat
         /\ turn'[u].was = turn[u].was /\ turn'[u].mine = turn[u].mine
         /\ turn'[u].state = turn[u].state /\ turn'[u].origin = turn[u].origin
         /\ turn'[u].sees = turn[u].sees /\ turn'[u].astray = turn[u].astray
         /\ turn[u].chat => turn'[u].later = turn[u].later \cup {r}
         /\ ~turn[u].chat => turn'[u] = turn[u]
<1>1. turn \in [Turns -> TurnStates]
  BY DEF TypeOK, TurnStates
<1>. QED
  BY <1>1, LaterTyped

\* What a turn holds after a step of its own: its place, whether it is one of the
\* conversation, its copies, its place of the user, its origin and its frames.
LEMMA ActSays ==
  ASSUME TypeOK, LocalsFit, NEW u \in Turns, Acts(u),
         NEW x, NEW y, x = turn[u], y = turn'[u]
  PROVE  \/ /\ x.pc = "idle" /\ y.pc = "sent" /\ ~x.chat /\ y.chat /\ y.was = x.was
            /\ y.mine = x.mine /\ y.sees = NoFrame /\ frame' = frame
            /\ \/ flying' = flying /\ y.later = Requests
               \/ flying' = flying \cup {u} /\ y.later = {u}
         \/ /\ x.pc = "sent" /\ y.pc = "arrived" /\ x.chat /\ y.chat /\ y.was = x.was
            /\ y.mine = x.mine /\ y.sees = x.sees /\ y.later = x.later
            /\ y.astray = flying \ x.later /\ flying' = flying \ {u}
            /\ frame' = IF u \in flying THEN u ELSE frame
         \/ /\ Load(u) /\ x.pc = "arrived" /\ y.pc = IF config.genai THEN "loaded" ELSE "unaided"
            /\ x.chat /\ y.chat /\ y.was = doc /\ y.mine = x.mine
            /\ y.sees = x.sees /\ y.later = x.later /\ y.astray = x.astray
            /\ flying' = flying /\ frame' = frame
         \/ /\ flying' = flying /\ frame' = frame /\ x.chat /\ y.chat /\ y.was = x.was
            /\ y.later = x.later /\ y.astray = x.astray
            /\ y.sees = x.sees
            /\ \/ Ensure(u) /\ x.pc = "loaded" /\ y.pc = "running" /\ y.state = adk'
               \/ /\ x.pc = "running" /\ y.pc = "telling" /\ y.state \in Places
               \/ /\ TellLoad(u) /\ x.pc = "telling" /\ y.pc = "told" /\ y.state = x.state
                  /\ y.mine.said = doc.said
               \/ TellSave(u) /\ x.pc = "told" /\ y.pc = "noted" /\ y.state = x.state
               \/ TellCommit(u) /\ x.pc = "noted" /\ y.pc = "running" /\ y.state = x.state
               \/ /\ x.pc = "running" /\ y.pc = "scanning" /\ y.state = x.state
                  /\ y.origin = x.state
               \/ x.pc = "unaided" /\ y.pc = "scanning" /\ ~config.genai
               \/ x.pc = "running" /\ y.pc = "running" /\ y.state = x.state
         \/ /\ flying' = flying /\ frame' = frame /\ x.pc = "idle" /\ y.pc = "scanning"
            /\ ~x.chat /\ ~y.chat /\ y.was = x.was
         \/ /\ flying' = flying /\ frame' = frame /\ x.pc = "scanning" /\ y.pc = "scanned"
            /\ y.chat = x.chat /\ y.was = x.was /\ y.later = x.later /\ y.astray = x.astray
            /\ (x.chat => y.sees = frame) /\ y.state = x.state /\ y.origin = x.origin
         \/ /\ flying' = flying /\ frame' = frame /\ x.pc = "scanned" /\ y.pc = "running"
            /\ x.chat /\ y.chat /\ config.genai /\ y.was = x.was /\ y.later = x.later
            /\ y.astray = x.astray /\ y.sees = NoFrame /\ y.state = x.state
         \/ /\ flying' = flying /\ frame' = frame /\ EndTurn(u) /\ y = AtRest("saved")
            /\ x.pc = "running" /\ x.chat
         \/ /\ flying' = flying /\ frame' = frame /\ y = AtRest("over")
            /\ x.pc # "saved"
<1>0. turn \in [Turns -> TurnStates] /\ x \in TurnStates /\ doc \in Docs
  BY DEF TypeOK, TurnStates
<1>f. /\ x.pc = "idle" => ~x.chat
      /\ x.pc \in {"sent", "arrived", "loaded", "unaided"} \cup Working => x.chat
      /\ x.pc = "unaided" => ~config.genai
  BY RestSays DEF LocalsFit
<1>1. ASSUME NEW framed \in BOOLEAN, Send(u, framed)
      PROVE  /\ x.pc = "idle" /\ y.pc = "sent" /\ ~x.chat /\ y.chat /\ y.was = x.was
             /\ y.mine = x.mine /\ y.sees = NoFrame /\ frame' = frame
             /\ \/ flying' = flying /\ y.later = Requests
                \/ flying' = flying \cup {u} /\ y.later = {u}
  <2>1. x.pc = "idle" /\ frame' = frame /\ x.sees = NoFrame
    BY <1>1, RestSays DEF Send, stores, LocalsFit
  <2>2. y = [x EXCEPT !.pc = "sent", !.chat = TRUE, !.later = IF framed THEN {u} ELSE Requests]
    BY <1>1, SendSays
  <2>3. y.pc = "sent" /\ y.chat /\ y.was = x.was /\ y.mine = x.mine /\ y.sees = x.sees
    BY <1>0, <2>2 DEF TurnStates
  <2>. QED
    BY <1>1, <1>f, <2>1, <2>3, SendSays
<1>2. CASE Arrive(u)
  <2>1. y = [x EXCEPT !.pc = "arrived", !.astray = flying \ x.later]
    BY <1>0, <1>2 DEF Arrive
  <2>. QED
    BY <1>0, <1>2, <1>f, <2>1 DEF Arrive, TurnStates
<1>3. CASE Load(u)
  <2>1. y = [x EXCEPT !.pc = IF config.genai THEN "loaded" ELSE "unaided", !.was = doc]
    BY <1>0, <1>3 DEF Load
  <2>. QED
    BY <1>0, <1>3, <1>f, <2>1 DEF Load, TurnStates, stores
<1>4. CASE Ensure(u)
  <2>1. y = [x EXCEPT !.pc = "running", !.state = adk'] /\ x.pc = "loaded"
        /\ flying' = flying /\ frame' = frame
    BY <1>0, <1>4 DEF Ensure
  <2>. QED
    BY <1>0, <1>4, <1>f, <2>1 DEF TurnStates
<1>5. CASE TellLoad(u)
  <2>1. y = [x EXCEPT !.pc = "told", !.mine = [doc EXCEPT !.place = x.state]]
        /\ x.pc = "telling" /\ flying' = flying /\ frame' = frame
    BY <1>0, <1>5 DEF TellLoad, stores
  <2>2. [doc EXCEPT !.place = x.state].said = doc.said
    BY <1>0 DEF Docs
  <2> DEFINE mine == [doc EXCEPT !.place = x.state]
  <2> HIDE DEF mine
  <2>3. y.pc = "told" /\ y.mine = mine /\ y.state = x.state /\ y.chat = x.chat
        /\ y.was = x.was /\ y.later = x.later /\ y.astray = x.astray /\ y.sees = x.sees
    <3>1. y = [x EXCEPT !.pc = "told", !.mine = mine]
      BY <2>1 DEF mine
    <3>. QED
      BY <1>0, <3>1 DEF TurnStates
  <2>4. x.chat /\ y.mine.said = doc.said
    BY <1>f, <2>1, <2>2, <2>3 DEF mine, Working
  <2>. QED
    BY <1>5, <2>1, <2>3, <2>4
<1>6. CASE TellSave(u)
  <2>1. y = [x EXCEPT !.pc = "noted", !.mine = Blank]
        /\ x.pc = "told" /\ flying' = flying /\ frame' = frame
    BY <1>0, <1>6 DEF TellSave
  <2>. QED
    BY <1>0, <1>6, <1>f, <2>1 DEF TurnStates, Working
<1>7. CASE TellCommit(u)
  <2>1. y = [x EXCEPT !.pc = "running"]
        /\ x.pc = "noted" /\ flying' = flying /\ frame' = frame
    BY <1>0, <1>7 DEF TellCommit
  <2>. QED
    BY <1>0, <1>7, <1>f, <2>1 DEF TurnStates, Working
<1>8. ASSUME NEW p \in Places, Tell(u, p)
      PROVE  /\ flying' = flying /\ frame' = frame /\ x.chat /\ y.chat /\ y.was = x.was
             /\ y.later = x.later /\ y.astray = x.astray
             /\ y.sees = x.sees
             /\ x.pc = "running" /\ y.pc = "telling" /\ y.state \in Places
  <2>1. y = [x EXCEPT !.pc = "telling", !.state = p]
        /\ x.pc = "running" /\ flying' = flying /\ frame' = frame
    BY <1>0, <1>8 DEF Tell, stores
  <2>. QED
    BY <1>0, <1>8, <1>f, <2>1 DEF TurnStates, Working
<1>9. ASSUME NEW p \in Places, CheckBeforeLeaving(u, p)
      PROVE  /\ flying' = flying /\ frame' = frame /\ x.chat /\ y.chat /\ y.was = x.was
             /\ y.later = x.later /\ y.astray = x.astray
             /\ y.sees = x.sees
             /\ x.pc = "running" /\ y.pc = "scanning" /\ y.state = x.state
             /\ y.origin = x.state
  <2>1. y = [x EXCEPT !.pc = "scanning", !.origin = x.state, !.to = p]
        /\ x.pc = "running" /\ flying' = flying /\ frame' = frame
    BY <1>0, <1>9 DEF CheckBeforeLeaving, Scan, stores
  <2>. QED
    BY <1>0, <1>f, <2>1 DEF TurnStates, Working
<1>10. ASSUME NEW p \in Places, ScanUnaided(u, p)
       PROVE  /\ flying' = flying /\ frame' = frame /\ x.chat /\ y.chat /\ y.was = x.was
              /\ y.later = x.later /\ y.astray = x.astray
              /\ y.sees = x.sees
              /\ x.pc = "unaided" /\ y.pc = "scanning" /\ ~config.genai
  <2>1. y = [x EXCEPT !.pc = "scanning", !.origin = Label, !.to = p]
        /\ x.pc = "unaided" /\ flying' = flying /\ frame' = frame
    BY <1>0, <1>10 DEF ScanUnaided, Scan, stores
  <2>. QED
    BY <1>0, <1>f, <2>1 DEF TurnStates
<1>11. ASSUME NEW p \in Places, ScanDirect(u, p)
       PROVE  /\ flying' = flying /\ frame' = frame /\ x.pc = "idle" /\ y.pc = "scanning"
              /\ ~x.chat /\ ~y.chat /\ y.was = x.was
  <2>1. PICK o : Scan(u, o, p)
    BY <1>11 DEF ScanDirect
  <2>2. y = [x EXCEPT !.pc = "scanning", !.origin = o, !.to = p]
        /\ x.pc = "idle" /\ flying' = flying /\ frame' = frame
    BY <1>0, <1>11, <2>1 DEF ScanDirect, Scan, stores
  <2>. QED
    BY <1>0, <1>f, <2>2 DEF TurnStates
<1>12. CASE ScanLook(u)
  <2>1. PICK f \in IF x.chat THEN {frame} ELSE {frame, u} :
           turn' = [turn EXCEPT ![u].pc = "scanned", ![u].sees = f]
    BY <1>12 DEF ScanLook
  <2>2. y = [x EXCEPT !.pc = "scanned", !.sees = f] /\ (x.chat => f = frame)
        /\ x.pc = "scanning" /\ flying' = flying /\ frame' = frame
    BY <1>0, <1>12, <2>1 DEF ScanLook, stores
  <2>. QED
    BY <1>0, <2>2 DEF TurnStates
<1>13. CASE ScanFile(u) \/ ScanBlind(u)
  <2>1. GoesOn(u) /\ x.pc = "scanned" /\ flying' = flying /\ frame' = frame
    BY <1>13 DEF ScanFile, ScanBlind, stores
  <2>2. \/ /\ x.chat /\ config.genai
           /\ y = [x EXCEPT !.pc = "running", !.results = TRUE, !.origin = Home,
                            !.to = NoPlace, !.sees = NoFrame]
        \/ y = AtRest("over")
    BY <1>0, <2>1 DEF GoesOn, Ends
  <2>. QED
    BY <1>0, <2>1, <2>2 DEF TurnStates
<1>14. CASE ReadTool(u)
  <2>1. y = [x EXCEPT !.results = TRUE]
        /\ x.pc = "running" /\ flying' = flying /\ frame' = frame
    BY <1>0, <1>14 DEF ReadTool, stores
  <2>. QED
    BY <1>0, <1>f, <2>1 DEF TurnStates, Working
<1>15. CASE EndTurn(u)
  <2>1. y = AtRest("saved") /\ x.pc = "running" /\ flying' = flying /\ frame' = frame
    BY <1>0, <1>15 DEF EndTurn, Ends
  <2>. QED
    BY <1>15, <1>f, <2>1 DEF Working
<1>16. CASE QuotaSpent(u) \/ AnswerUnaided(u) \/ TurnDies(u)
  <2>1. y = AtRest("over") /\ x.pc # "saved" /\ flying' = flying /\ frame' = frame
    BY <1>0, <1>16 DEF QuotaSpent, AnswerUnaided, TurnDies, Ends, stores
  <2>. QED
    BY <2>1
<1>. QED
  BY <1>1, <1>2, <1>3, <1>4, <1>5, <1>6, <1>7, <1>8, <1>9, <1>10, <1>11, <1>12, <1>13, <1>14,
     <1>15, <1>16 DEF Acts

LEMMA StepLocalsFit ==
  ASSUME TypeOK, LocalsFit, [Next]_vars
  PROVE  LocalsFit'
<1> DEFINE Fit(x) ==
      /\ x.pc \in {"idle", "saved", "over"} => x = AtRest(x.pc)
      /\ x.pc \in {"sent", "arrived", "loaded", "unaided"} \cup Working => x.chat
      /\ x.pc = "unaided" => ~config.genai
      /\ x.pc \in {"telling", "told", "noted"} => x.state \in Places
<1>0. turn \in [Turns -> TurnStates] /\ config' = config
  BY Sources DEF TypeOK, TurnStates
<1>r. \A pc \in {"idle", "saved", "over"} : AtRest(pc).pc = pc
  BY RestSays
<1>1. ASSUME NEW u \in Turns PROVE Fit(turn'[u])
  <2>0. turn[u] \in TurnStates /\ Fit(turn[u])
    BY <1>0 DEF LocalsFit
  <2>1. CASE turn'[u] = turn[u]
    BY <2>0, <2>1
  <2>2. ASSUME NEW r \in Requests, turn'[u] = Later(turn, r)[u]
        PROVE  Fit(turn'[u])
    <3>1. turn[u].pc \in {"idle", "saved", "over"} => ~turn[u].chat
      BY <2>0, RestSays
    <3>2. CASE ~turn[u].chat
      BY <2>0, <2>2, <3>2, OlderKeeps
    <3>3. CASE turn[u].chat
      BY <2>0, <2>2, <3>1, <3>3, OlderKeeps
    <3>. QED
      BY <3>2, <3>3
  <2>3. CASE Acts(u)
    <3> DEFINE x == turn[u]
               y == turn'[u]
    <3>1. CASE y = AtRest("saved") \/ y = AtRest("over")
      <4>1. y.pc \in {"saved", "over"} /\ y = AtRest(y.pc)
        BY <1>r, <3>1
      <4>. QED
        BY <4>1 DEF Working
    <3>2. CASE ~(y = AtRest("saved") \/ y = AtRest("over"))
      <4>1. /\ y.pc \in {"sent", "arrived", "loaded", "unaided"} \cup Working => y.chat
            /\ y.pc = "unaided" => ~config.genai
            /\ y.pc \notin {"idle", "saved", "over"}
            /\ y.pc \in {"telling", "told", "noted"} =>
                 \/ y.state \in Places
                 \/ x.pc \in {"telling", "told", "noted"} /\ y.state = x.state
        BY <2>3, <3>2, ActSays DEF Working
      <4>. QED
        BY <2>0, <4>1
    <3>. QED
      BY <3>1, <3>2
  <2> HIDE DEF Fit
  <2>. QED
    BY <2>1, <2>2, <2>3, OthersKeep
<1>. QED
  BY <1>0, <1>1 DEF LocalsFit

\* Whoever captures, brings or loses a frame: no turn under way is given one that
\* was cached before its own.
LEMMA StepFrameIsFresh ==
  ASSUME TypeOK, LocalsFit, FrameIsFresh, [Next]_vars
  PROVE  FrameIsFresh'
<1> DEFINE Ahead(u, x, f, fl) ==
      x.chat =>
        /\ x.sees \in x.later \cup x.astray \cup {NoFrame}
        /\ x.pc = "sent" => /\ x.sees = NoFrame
                            /\ IF u \in fl THEN u \in x.later ELSE x.later = Requests
        /\ x.pc # "sent" => /\ f \in x.later \cup x.astray \cup {NoFrame}
                            /\ fl \subseteq x.later \cup x.astray
<1>0. /\ turn \in [Turns -> TurnStates] /\ frame \in Requests \cup {NoFrame}
      /\ flying \subseteq Requests
  BY DEF TypeOK, TurnStates
<1>1. ASSUME NEW u \in Turns PROVE Ahead(u, turn'[u], frame', flying')
  <2>0. turn[u] \in TurnStates /\ Ahead(u, turn[u], frame, flying) /\ u \in Requests
        /\ turn[u].later \subseteq Requests
    BY <1>0 DEF FrameIsFresh, Requests, TurnStates
  <2>f. frame' \in {frame, NoFrame} \cup flying
    BY Sources
  <2>1. CASE turn'[u] = turn[u] /\ flying' \subseteq flying /\ (u \in flying => u \in flying')
    BY <2>0, <2>1, <2>f
  <2>2. ASSUME NEW r \in Requests, turn'[u] = Later(turn, r)[u], flying' = flying \cup {r}
        PROVE  Ahead(u, turn'[u], frame', flying')
    <3>1. CASE ~turn[u].chat
      <4>1. ~turn'[u].chat
        BY <2>2, <3>1, OlderKeeps
      <4>. QED
        BY <4>1
    <3>2. CASE turn[u].chat
      <4>1. /\ turn'[u].later = turn[u].later \cup {r} /\ turn'[u].pc = turn[u].pc
            /\ turn'[u].sees = turn[u].sees /\ turn'[u].astray = turn[u].astray
        BY <2>2, <3>2, OlderKeeps
      <4>. QED
        BY <2>0, <2>2, <2>f, <3>2, <4>1
    <3>. QED
      BY <3>1, <3>2
  <2>3. CASE Acts(u)
    <3>1. PICK x, y : x = turn[u] /\ y = turn'[u]
      OBVIOUS
    <3>2. CASE y = AtRest("saved") \/ y = AtRest("over")
      BY <3>1, <3>2, RestSays
    <3>3. CASE ~(y = AtRest("saved") \/ y = AtRest("over"))
      <4>1. /\ x.chat => Ahead(u, x, frame, flying)
            /\ x.later \subseteq Requests
        BY <2>0, <3>1
      <4>2. y.chat =>
              \/ /\ y.pc = "sent" /\ y.sees = NoFrame
                 /\ \/ flying' = flying /\ y.later = Requests
                    \/ flying' = flying \cup {u} /\ y.later = {u}
              \/ /\ x.pc = "sent" /\ y.pc = "arrived" /\ x.chat
                 /\ y.sees = x.sees /\ y.later = x.later
                 /\ y.astray = flying \ x.later /\ flying' = flying \ {u}
                 /\ frame' = IF u \in flying THEN u ELSE frame
              \/ /\ flying' = flying /\ frame' = frame /\ x.chat /\ x.pc # "sent"
                 /\ y.pc # "sent" /\ y.later = x.later /\ y.astray = x.astray
                 /\ y.sees \in {x.sees, frame, NoFrame}
        BY <2>3, <3>1, <3>3, ActSays
      <4>3. CASE x.pc = "sent" /\ y.pc = "arrived" /\ x.chat
                 /\ y.sees = x.sees /\ y.later = x.later
                 /\ y.astray = flying \ x.later /\ flying' = flying \ {u}
                 /\ frame' = IF u \in flying THEN u ELSE frame
        BY <1>0, <2>0, <3>1, <4>3
      <4>. QED
        BY <1>0, <2>0, <3>1, <4>1, <4>2, <4>3
    <3>. QED
      BY <3>2, <3>3
  <2> HIDE DEF Ahead
  <2>. QED
    BY <2>1, <2>2, <2>3, OthersKeep
<1>. QED
  BY <1>1 DEF FrameIsFresh

\* Where what a turn holds comes from.
LEMMA Provenance ==
  ASSUME TypeOK, LocalsFit, [Next]_vars, NEW u \in Turns,
         NEW x, NEW y, x = turn[u], y = turn'[u]
  PROVE  /\ u \in InFlight' => \/ u \in InFlight /\ y.was = x.was
                               \/ Load(u) /\ y.was = doc
         /\ y.was \in {x.was, doc, Blank}
         /\ y.pc = "told" => \/ x.pc = "told" /\ y.mine = x.mine
                             \/ TellLoad(u) /\ y.mine.said = doc.said
         /\ y.pc = "saved" => x.pc = "saved" \/ EndTurn(u)
         /\ x.pc = "saved" => y = x
         /\ y.pc \in Working
              => \/ x.pc \in Working /\ x.chat
                 \/ x.pc = "scanned" /\ x.chat /\ config.genai
                 \/ Ensure(u)
         /\ y.pc = "running"
              => \/ x.pc = "running" /\ y.state = x.state
                 \/ x.pc = "scanned" /\ x.chat /\ config.genai /\ y.state = x.state
                 \/ Ensure(u) /\ y.state = adk'
                 \/ TellCommit(u) /\ y.state = x.state
         /\ y.chat /\ config.genai /\ y.pc \in {"scanning", "scanned"}
              => /\ y.state = x.state
                 /\ \/ x.pc \in {"scanning", "scanned"} /\ x.chat /\ y.origin = x.origin
                    \/ x.pc = "running" /\ y.origin = x.state
<1>f. /\ u \in InFlight <=> x.chat /\ x.pc \notin {"sent", "arrived"}
      /\ u \in InFlight' <=> y.chat /\ y.pc \notin {"sent", "arrived"}
  BY DEF InFlight
<1>l. /\ x.pc \in Working => x.chat
      /\ x.pc = "saved" => x = AtRest("saved")
  BY DEF LocalsFit
<1>1. CASE y = x
  BY <1>f, <1>l, <1>1
<1>2. ASSUME NEW r \in Requests, y = Later(turn, r)[u]
      PROVE  /\ y.pc = x.pc /\ y.chat = x.chat /\ y.was = x.was /\ y.mine = x.mine
             /\ y.state = x.state /\ y.origin = x.origin
             /\ x.pc = "saved" => y = x
  <2>1. x.pc = "saved" => ~x.chat
    BY <1>l, RestSays
  <2>. QED
    BY <1>2, <2>1, OlderKeeps
<1>3. CASE Acts(u) /\ ~(y = AtRest("saved") \/ y = AtRest("over"))
  <2>1. x.pc = "saved" => ~x.chat
    BY <1>l, RestSays
  <2>2. /\ u \in InFlight' => \/ u \in InFlight /\ y.was = x.was
                              \/ Load(u) /\ y.was = doc
        /\ y.was \in {x.was, doc, Blank}
    BY <1>3, <1>f, ActSays
  <2>3. /\ y.pc = "told" => TellLoad(u) /\ y.mine.said = doc.said
        /\ y.pc # "saved"
        /\ x.pc # "saved"
    BY <1>3, <2>1, ActSays
  <2>4. /\ y.pc \in Working
              => \/ x.pc \in Working /\ x.chat
                 \/ x.pc = "scanned" /\ x.chat /\ config.genai
                 \/ Ensure(u)
        /\ y.pc = "running"
              => \/ x.pc = "running" /\ y.state = x.state
                 \/ x.pc = "scanned" /\ x.chat /\ config.genai /\ y.state = x.state
                 \/ Ensure(u) /\ y.state = adk'
                 \/ TellCommit(u) /\ y.state = x.state
    BY <1>3, ActSays DEF Working
  <2>5. y.chat /\ config.genai /\ y.pc \in {"scanning", "scanned"}
              => /\ y.state = x.state
                 /\ \/ x.pc \in {"scanning", "scanned"} /\ x.chat /\ y.origin = x.origin
                    \/ x.pc = "running" /\ y.origin = x.state
    BY <1>3, ActSays
  <2>. QED
    BY <2>2, <2>3, <2>4, <2>5
<1>4. CASE Acts(u) /\ (y = AtRest("saved") \/ y = AtRest("over"))
  <2>1. (EndTurn(u) /\ x.pc = "running") \/ (y = AtRest("over") /\ x.pc # "saved")
    <3>1. y.pc \in {"saved", "over"} /\ ~y.chat
      BY <1>4, RestSays
    <3>. QED
      BY <1>4, <3>1, ActSays
  <2>. QED
    BY <1>4, <1>f, <2>1, RestSays DEF Working
<1>. QED
  BY <1>1, <1>2, <1>3, <1>4, <1>f, <1>l, OthersKeep

LEMMA StepOverlapsAreNoted ==
  ASSUME TypeOK, LocalsFit, OverlapsAreNoted, [Next]_vars
  PROVE  OverlapsAreNoted'
<1>1. raced \subseteq raced'
  BY Sources
<1>2. ASSUME NEW t \in InFlight', NEW u \in InFlight', t # u PROVE t \in raced'
  <2>0. t \in Turns /\ u \in Turns
    BY DEF InFlight
  <2>1. (t \in InFlight \/ Load(t)) /\ (u \in InFlight \/ Load(u))
    BY <2>0, Provenance
  <2>2. CASE t \in InFlight /\ u \in InFlight
    BY <1>1, <1>2, <2>2 DEF OverlapsAreNoted
  <2>3. CASE Load(t) /\ u \in InFlight
    BY <2>3 DEF Load
  <2>4. CASE t \in InFlight /\ Load(u)
    BY <2>4 DEF Load
  <2>5. CASE Load(t) /\ Load(u) /\ ~(u \in InFlight)
    <3>1. turn \in [Turns -> TurnStates]
      BY DEF TypeOK, TurnStates
    <3>2. turn'[u] = turn[u]
      BY <1>2, <2>0, <2>5, <3>1 DEF Load
    <3>. QED
      BY <2>0, <2>5, <3>2 DEF InFlight
  <2>. QED
    BY <2>1, <2>2, <2>3, <2>4, <2>5
<1>. QED
  BY <1>2 DEF OverlapsAreNoted

\* What the history remembers it keeps.
LEMMA HistoryGrows ==
  ASSUME TypeOK, LocalsFit, [Next]_vars
  PROVE  /\ raced \subseteq raced' /\ (losses > 0 => losses' > 0)
         /\ Undisturbed' => Undisturbed /\ (adk' = adk \/ ~Lose)
<1>1. losses \in Nat /\ (Lose => losses' = losses + 1)
  BY SessionAssumption DEF TypeOK, Lose
<1>2. raced \subseteq raced' /\ config' = config /\ (losses' = losses \/ Lose)
  BY Sources
<1>3. Lose /\ config.durable => adk' = adk
  BY DEF Lose
<1>. QED
  BY <1>1, <1>2, <1>3 DEF Undisturbed

\* Where the document comes from.
LEMMA DocumentSource ==
  ASSUME TypeOK, LocalsFit, [Next]_vars
  PROVE  \/ doc' = doc
         \/ doc' = Blank /\ losses' > 0
         \/ \E u \in Turns : TellSave(u) /\ turn[u].pc = "told" /\ doc' = Saved(turn[u].mine)
         \/ \E u \in InFlight : QuotaSpent(u) /\ doc' = Saved(turn[u].was)
         \/ \E u \in InFlight :
               EndTurn(u) /\ doc' = Saved([turn[u].was EXCEPT !.said = Append(@, u)])
<1>1. ASSUME NEW u \in Turns, EndTurn(u) \/ QuotaSpent(u) PROVE u \in InFlight
  BY <1>1 DEF EndTurn, QuotaSpent, LocalsFit, InFlight, Working
<1>2. CASE Lose
  <2>1. losses \in Nat
    BY SessionAssumption DEF TypeOK
  <2>. QED
    BY <1>2, <2>1 DEF Lose
<1>3. ASSUME NEW u \in Turns, QuotaSpent(u) PROVE doc' \in {doc, Saved(turn[u].was)}
  BY <1>3 DEF QuotaSpent
<1>4. ASSUME NEW u \in Turns, TellSave(u) PROVE turn[u].pc = "told" /\ doc' = Saved(turn[u].mine)
  BY <1>4 DEF TellSave
<1>5. ASSUME NEW u \in Turns, EndTurn(u)
      PROVE  doc' = Saved([turn[u].was EXCEPT !.said = Append(@, u)])
  BY <1>5 DEF EndTurn
<1>. QED
  BY <1>1, <1>2, <1>3, <1>4, <1>5, Sources

\* The document of a turn that is saved: its place, its own utterance last, and
\* every other one further from the end.
LEMMA EndSays ==
  ASSUME NEW d \in Docs, NEW u \in Turns, NEW e, e = [d EXCEPT !.said = Append(@, u)]
  PROVE  /\ e \in Docs /\ e.place = d.place
         /\ Recent(e.said, u, 0)
         /\ \A t, n : n \in Nat /\ Recent(d.said, t, n) => Recent(e.said, t, n + 1)
<1>2. d.said \in Seq(Turns) /\ e.said = Append(d.said, u) /\ e.place = d.place
      /\ e = [place |-> d.place, said |-> Append(d.said, u)]
  BY DEF Docs
<1>3. e \in Docs
  BY <1>2, AppendKeeps DEF Docs
<1>. QED
  BY <1>2, <1>3, AppendKeeps

LEMMA StepSavedIsKept ==
  ASSUME TypeOK, LocalsFit, OverlapsAreNoted, SavedIsKept, [Next]_vars
  PROVE  SavedIsKept'
<1> DEFINE KeptNext(d, t) == \/ Recent(d.said, t, since'[t])
                             \/ since'[t] >= MaxUtterances
                             \/ t \in raced' \/ losses' > 0
<1>0. /\ turn \in [Turns -> TurnStates] /\ since \in [Turns -> Nat] /\ doc \in Docs
      /\ since' \in [Turns -> Nat] /\ MaxUtterances \in Nat \ {0}
      /\ \A u \in Turns : turn[u].was \in Docs /\ turn[u].mine \in Docs
  BY StepTypeOK, SessionAssumption DEF TypeOK, TurnStates
<1>h. raced \subseteq raced' /\ (losses > 0 => losses' > 0)
  BY HistoryGrows
<1>a. ASSUME NEW t \in Turns, turn[t].pc = "saved"
      PROVE  since'[t] \in {since[t], since[t] + 1}
  <2>1. ASSUME NEW u \in Turns, EndTurn(u) PROVE since'[t] = since[t] + 1
    BY <1>0, <1>a, <2>1 DEF EndTurn, Ages
  <2>2. since' = since \/ \E u \in Turns : EndTurn(u)
    BY Sources
  <2>. QED
    BY <2>1, <2>2
<1>k. ASSUME NEW t \in Turns, turn[t].pc = "saved", NEW d \in Docs, Kept(d, t)
      PROVE  KeptNext(d, t)
  <2>1. d.said \in Seq(Turns) /\ since[t] \in Nat
    BY <1>0 DEF Docs
  <2>2. Recent(d.said, t, since[t]) => Recent(d.said, t, since'[t])
    BY <1>a, <1>k, <2>1, RecentLater
  <2>. QED
    BY <1>0, <1>a, <1>h, <1>k, <2>1, <2>2 DEF Kept
<1>s. ASSUME NEW t \in Turns, NEW d \in Docs, KeptNext(d, t) PROVE KeptNext(Saved(d), t)
  <2>1. since'[t] \in Nat
    BY <1>0
  <2>2. since'[t] < MaxUtterances /\ Recent(d.said, t, since'[t])
          => Recent(Saved(d).said, t, since'[t])
    BY <2>1, SavedKeeps
  <2>. QED
    BY <1>0, <1>s, <2>1, <2>2
<1>e. ASSUME NEW t \in Turns, turn[t].pc = "saved", NEW u \in Turns, EndTurn(u),
             NEW d \in Docs, Kept(d, t)
      PROVE  KeptNext([d EXCEPT !.said = Append(@, u)], t)
  <2>1. since'[t] = since[t] + 1 /\ since[t] \in Nat
    BY <1>0, <1>e DEF EndTurn, Ages
  <2>2. PICK e : e = [d EXCEPT !.said = Append(@, u)]
    OBVIOUS
  <2>3. \A n \in Nat : Recent(d.said, t, n) => Recent(e.said, t, n + 1)
    BY <2>2, EndSays
  <2>4. Recent(d.said, t, since[t]) => Recent(e.said, t, since'[t])
    BY <2>1, <2>3
  <2>. QED
    BY <1>0, <1>e, <1>h, <2>1, <2>2, <2>4 DEF Kept
<1>1. ASSUME NEW t \in Turns, turn'[t].pc = "saved", turn[t].pc = "saved"
      PROVE  /\ KeptNext(doc', t)
             /\ \A u \in InFlight' : KeptNext(turn'[u].was, t)
             /\ \A u \in Turns : turn'[u].pc = "told" => KeptNext(turn'[u].mine, t)
  <2>k. /\ Kept(doc, t) /\ \A u \in InFlight : Kept(turn[u].was, t)
        /\ \A u \in Turns : turn[u].pc = "told" => Kept(turn[u].mine, t)
    BY <1>1 DEF SavedIsKept
  <2>f. InFlight \subseteq Turns
    BY DEF InFlight
  <2>1. KeptNext(doc', t)
    <3>1. CASE doc' = doc
      BY <1>0, <1>1, <1>k, <2>k, <3>1
    <3>2. CASE losses' > 0
      BY <3>2
    <3>3. ASSUME NEW u \in Turns, turn[u].pc = "told", doc' = Saved(turn[u].mine)
          PROVE  KeptNext(doc', t)
      <4>1. KeptNext(turn[u].mine, t)
        BY <1>0, <1>1, <1>k, <2>k, <3>3
      <4> HIDE DEF KeptNext
      <4>. QED
        BY <1>0, <1>s, <3>3, <4>1
    <3>4. ASSUME NEW u \in InFlight, doc' = Saved(turn[u].was) PROVE KeptNext(doc', t)
      <4>1. KeptNext(turn[u].was, t)
        BY <1>0, <1>1, <1>k, <2>f, <2>k, <3>4
      <4> HIDE DEF KeptNext
      <4>. QED
        BY <1>0, <1>s, <2>f, <3>4, <4>1
    <3>5. ASSUME NEW u \in InFlight, EndTurn(u),
                 doc' = Saved([turn[u].was EXCEPT !.said = Append(@, u)])
          PROVE  KeptNext(doc', t)
      <4>1. PICK e : e = [turn[u].was EXCEPT !.said = Append(@, u)]
        OBVIOUS
      <4>2. e \in Docs
        BY <1>0, <2>f, <4>1, EndSays
      <4>3. KeptNext(e, t)
        <5> HIDE DEF KeptNext
        <5>. QED
          BY <1>0, <1>1, <1>e, <2>f, <2>k, <3>5, <4>1
      <4> HIDE DEF KeptNext
      <4>. QED
        BY <1>s, <3>5, <4>1, <4>2, <4>3
    <3> HIDE DEF KeptNext
    <3>. QED
      BY <3>1, <3>2, <3>3, <3>4, <3>5, DocumentSource
  <2>2. ASSUME NEW u \in InFlight' PROVE KeptNext(turn'[u].was, t)
    <3>1. u \in Turns /\ ((u \in InFlight /\ turn'[u].was = turn[u].was) \/ turn'[u].was = doc)
      BY Provenance DEF InFlight
    <3> HIDE DEF KeptNext
    <3>. QED
      BY <1>0, <1>1, <1>k, <2>k, <3>1
  <2>3. ASSUME NEW u \in Turns, turn'[u].pc = "told" PROVE KeptNext(turn'[u].mine, t)
    <3>1. \/ turn[u].pc = "told" /\ turn'[u].mine = turn[u].mine
          \/ turn'[u].mine.said = doc.said
      BY <2>3, Provenance
    <3>2. CASE turn[u].pc = "told" /\ turn'[u].mine = turn[u].mine
      <4> HIDE DEF KeptNext
      <4>. QED
        BY <1>0, <1>1, <1>k, <2>k, <3>2
    <3>3. CASE turn'[u].mine.said = doc.said
      <4>1. KeptNext(doc, t)
        BY <1>0, <1>1, <1>k, <2>k
      <4>. QED
        BY <3>3, <4>1
    <3>. QED
      BY <3>1, <3>2, <3>3
  <2>. QED
    BY <2>1, <2>2, <2>3
<1>2. ASSUME NEW t \in Turns, turn'[t].pc = "saved", turn[t].pc # "saved", EndTurn(t)
      PROVE  /\ KeptNext(doc', t)
             /\ \A u \in InFlight' : KeptNext(turn'[u].was, t)
             /\ \A u \in Turns : turn'[u].pc = "told" => KeptNext(turn'[u].mine, t)
  <2>1. KeptNext(doc', t)
    <3>1. since'[t] = 0
      BY <1>2 DEF EndTurn, Ages
    <3>2. PICK e : e = [turn[t].was EXCEPT !.said = Append(@, t)]
      OBVIOUS
    <3>3. e \in Docs /\ Recent(e.said, t, 0)
      BY <1>0, <3>2, EndSays
    <3>4. doc' = Saved(e)
      BY <1>2, <3>2 DEF EndTurn
    <3>5. Recent(Saved(e).said, t, 0)
      <4>1. 0 \in Nat /\ 0 < MaxUtterances
        BY <1>0
      <4>2. \A n \in Nat : n < MaxUtterances /\ Recent(e.said, t, n) => Recent(Saved(e).said, t, n)
        BY <3>3, SavedKeeps
      <4>. QED
        BY <3>3, <4>1, <4>2
    <3>. QED
      BY <3>1, <3>4, <3>5
  <2>2. t \in InFlight
    BY <1>2 DEF EndTurn, LocalsFit, InFlight, Working
  <2>3. turn' = [turn EXCEPT ![t] = AtRest("saved")]
    BY <1>2 DEF EndTurn, Ends
  <2>4. ASSUME NEW u \in Turns, turn'[u].pc = "told" \/ u \in InFlight' PROVE t \in raced'
    <3>1. turn'[t].pc = "saved" /\ ~turn'[t].chat
      BY <1>0, <2>3, RestSays
    <3>2. u # t /\ turn'[u] = turn[u]
      BY <1>0, <2>3, <2>4, <3>1 DEF InFlight
    <3>3. u \in InFlight
      BY <2>4, <3>2 DEF InFlight, LocalsFit, Working
    <3>. QED
      BY <2>2, <3>2, <3>3, HistoryGrows DEF OverlapsAreNoted
  <2>. QED
    BY <2>1, <2>4 DEF InFlight
<1>3. \A t \in Turns : turn'[t].pc = "saved" => turn[t].pc = "saved" \/ EndTurn(t)
  BY Provenance
<1>. QED
  BY <1>1, <1>2, <1>3 DEF SavedIsKept, Kept

\* A place is in a document, or told, only after a turn made an ADK session.
LEMMA StepNothingTold ==
  ASSUME TypeOK, LocalsFit, NothingTold, [Next]_vars
  PROVE  NothingTold'
<1> SUFFICES ASSUME Undisturbed', adk' = NoPlace
             PROVE  /\ doc'.place = NoPlace /\ announced'.by # "user"
                    /\ \A t \in Turns :
                          /\ turn'[t].was.place = NoPlace
                          /\ turn'[t].pc \notin Working
                          /\ ~(turn'[t].chat /\ config'.genai
                                 /\ turn'[t].pc \in {"scanning", "scanned"})
  BY DEF NothingTold
<1>0. /\ turn \in [Turns -> TurnStates] /\ config' = config
      /\ \A t \in Turns : turn[t].was \in Docs
      /\ \A t \in Turns : turn[t].pc \in Working => turn[t].chat
  BY Sources DEF TypeOK, TurnStates, LocalsFit
<1>1. ASSUME NEW t \in Turns PROVE ~Ensure(t) /\ ~TellCommit(t)
  <2>1. Ensure(t) => adk' # NoPlace
    BY SessionAssumption DEF Ensure, TypeOK
  <2>2. TellCommit(t) => adk' # NoPlace
    BY SessionAssumption DEF TellCommit, LocalsFit
  <2>. QED
    BY <2>1, <2>2
<1>2. Undisturbed /\ adk = NoPlace
  BY <1>1, HistoryGrows, Sources
<1>3. /\ doc.place = NoPlace /\ announced.by # "user"
      /\ \A t \in Turns :
            /\ turn[t].was.place = NoPlace
            /\ turn[t].pc \notin Working
            /\ ~(turn[t].chat /\ config.genai /\ turn[t].pc \in {"scanning", "scanned"})
  BY <1>2 DEF NothingTold
<1>4. doc'.place = NoPlace
  <2>1. ASSUME NEW u \in InFlight
        PROVE  /\ Saved(turn[u].was).place = NoPlace
               /\ Saved([turn[u].was EXCEPT !.said = Append(@, u)]).place = NoPlace
    <3>1. u \in Turns
      BY DEF InFlight
    <3>2. PICK e : e = [turn[u].was EXCEPT !.said = Append(@, u)]
      OBVIOUS
    <3>3. e \in Docs /\ e.place = NoPlace
      BY <1>0, <1>3, <3>1, <3>2, EndSays
    <3>. QED
      BY <1>0, <1>3, <3>1, <3>2, <3>3, SavedKeeps
  <2>2. ASSUME NEW u \in Turns PROVE turn[u].pc # "told"
    BY <1>3 DEF Working
  <2>. QED
    BY <1>3, <2>1, <2>2, BlankTyped, DocumentSource
<1>5. announced'.by # "user"
  <2>1. ASSUME NEW t \in Turns, ScanFile(t) PROVE announced'.by = "scan"
    BY <2>1 DEF ScanFile
  <2>. QED
    BY <1>1, <1>3, <2>1, Sources
<1>6. ASSUME NEW t \in Turns
      PROVE  /\ turn'[t].was.place = NoPlace
             /\ turn'[t].pc \notin Working
             /\ ~(turn'[t].chat /\ config'.genai /\ turn'[t].pc \in {"scanning", "scanned"})
  <2>1. turn'[t].was \in {turn[t].was, doc, Blank}
    BY Provenance
  <2>2. turn'[t].pc \notin Working
    BY <1>1, <1>3, Provenance
  <2>3. ~(turn'[t].chat /\ config'.genai /\ turn'[t].pc \in {"scanning", "scanned"})
    <3>1. turn[t].pc # "running"
      BY <1>3 DEF Working
    <3>. QED
      BY <1>0, <1>3, <3>1, Provenance
  <2>. QED
    BY <1>3, <2>1, <2>2, <2>3, BlankTyped
<1>. QED
  BY <1>4, <1>5, <1>6

\* What the session takes for the user's place is what was told, with no overlap,
\* no loss, and no other announced by a scan.
LEMMA StepStateIsLastTold ==
  ASSUME IInv, [Next]_vars
  PROVE  StateIsLastTold'
<1> SUFFICES ASSUME Undisturbed', announced'.by # "scan"
             PROVE  /\ adk' \in {LastTold', NoPlace}
                    /\ \A t \in Turns :
                          /\ turn'[t].pc = "running" => turn'[t].state = LastTold'
                          /\ turn'[t].chat /\ config'.genai
                             /\ turn'[t].pc \in {"scanning", "scanned"}
                               => turn'[t].state = LastTold' /\ turn'[t].origin = LastTold'
  BY DEF StateIsLastTold
<1>0. /\ turn \in [Turns -> TurnStates] /\ TypeOK /\ LocalsFit /\ config' = config
      /\ Undisturbed /\ raced = {} /\ announced \in Announcements
  BY HistoryGrows, Sources DEF IInv, TypeOK, TurnStates, Undisturbed
<1>2. ASSUME NEW v \in Turns, TellCommit(v)
      PROVE  /\ adk' = LastTold'
             /\ \A t \in Turns :
                   /\ turn'[t].pc = "running" => turn'[t].state = LastTold'
                   /\ ~(turn'[t].chat /\ turn'[t].pc \in {"scanning", "scanned"})
  <2>1. /\ announced' = [place |-> turn[v].state, by |-> "user"] /\ adk' = turn[v].state
        /\ turn[v].pc = "noted" /\ v \in InFlight
    BY <1>0, <1>2 DEF TellCommit, LocalsFit, InFlight, Working
  <2>2. LastTold' = turn[v].state
    BY <2>1 DEF LastTold
  <2>3. turn'[v].pc = "running" /\ turn'[v].state = turn[v].state
    BY <1>0, <1>2 DEF TellCommit, TurnStates
  <2>4. ASSUME NEW t \in Turns, t # v
        PROVE  turn'[t].pc # "running"
               /\ ~(turn'[t].chat /\ turn'[t].pc \in {"scanning", "scanned"})
    <3>1. turn'[t] = turn[t]
      BY <1>0, <1>2, <2>4 DEF TellCommit
    <3>2. t \notin InFlight
      BY <1>0, <2>1, <2>4 DEF IInv, OverlapsAreNoted
    <3>. QED
      BY <1>0, <3>1, <3>2 DEF InFlight, LocalsFit, Working
  <2>. QED
    BY <2>1, <2>2, <2>3, <2>4
<1>3. ASSUME \A v \in Turns : ~TellCommit(v)
      PROVE  /\ adk' \in {LastTold', NoPlace}
             /\ \A t \in Turns :
                   /\ turn'[t].pc = "running" => turn'[t].state = LastTold'
                   /\ turn'[t].chat /\ config'.genai
                      /\ turn'[t].pc \in {"scanning", "scanned"}
                        => turn'[t].state = LastTold' /\ turn'[t].origin = LastTold'
  <2>1. announced' = announced
    <3>1. ASSUME NEW t \in Turns, ScanFile(t) PROVE announced'.by = "scan"
      BY <3>1 DEF ScanFile
    <3>. QED
      BY <1>0, <1>3, <3>1, Sources
  <2>2. LastTold' = LastTold
    BY <2>1 DEF LastTold
  <2>i. /\ adk \in {LastTold, NoPlace}
        /\ \A t \in Turns :
              /\ turn[t].pc = "running" => turn[t].state = LastTold
              /\ turn[t].chat /\ config.genai /\ turn[t].pc \in {"scanning", "scanned"}
                   => turn[t].state = LastTold /\ turn[t].origin = LastTold
    BY <1>0, <2>1 DEF IInv, StateIsLastTold
  <2>3. ASSUME NEW t \in Turns, Ensure(t) PROVE adk' = LastTold
    <3>1. adk = NoPlace => turn[t].was.place = NoPlace /\ announced.by # "user"
      BY <1>0 DEF IInv, NothingTold
    <3>. QED
      BY <2>i, <2>3, <3>1 DEF Ensure, LastTold
  <2>4. adk' \in {LastTold', NoPlace}
    <3>1. Lose => adk' \in {adk, NoPlace}
      BY DEF Lose
    <3>. QED
      BY <1>0, <1>3, <2>2, <2>3, <2>i, <3>1, Sources
  <2>5. ASSUME NEW t \in Turns, turn'[t].pc = "running" PROVE turn'[t].state = LastTold
    <3>1. \/ turn[t].pc = "running" /\ turn'[t].state = turn[t].state
          \/ turn[t].pc = "scanned" /\ turn[t].chat /\ config.genai
               /\ turn'[t].state = turn[t].state
          \/ Ensure(t) /\ turn'[t].state = adk'
      BY <1>0, <1>3, <2>5, Provenance
    <3>. QED
      BY <2>3, <2>i, <3>1
  <2>6. ASSUME NEW t \in Turns, turn'[t].chat, config'.genai,
               turn'[t].pc \in {"scanning", "scanned"}
        PROVE  turn'[t].state = LastTold /\ turn'[t].origin = LastTold
    <3>1. /\ turn'[t].state = turn[t].state
          /\ \/ turn[t].pc \in {"scanning", "scanned"} /\ turn[t].chat
                /\ turn'[t].origin = turn[t].origin
             \/ turn[t].pc = "running" /\ turn'[t].origin = turn[t].state
      BY <1>0, <2>6, Provenance
    <3>. QED
      BY <1>0, <2>6, <2>i, <3>1
  <2>. QED
    BY <2>2, <2>4, <2>5, <2>6
<1>. QED
  BY <1>2, <1>3

LEMMA InitIInv == Init => IInv
<1> SUFFICES ASSUME Init PROVE IInv
  OBVIOUS
<1>1. \A t \in Turns : turn[t] = AtRest("idle") /\ turn[t].pc = "idle" /\ ~turn[t].chat
                       /\ turn[t].was = Blank
  BY RestSays DEF Init
<1>2. LocalsFit /\ FrameIsFresh
  BY <1>1 DEF LocalsFit, FrameIsFresh, Working
<1>3. OverlapsAreNoted /\ SavedIsKept
  BY <1>1 DEF OverlapsAreNoted, SavedIsKept, InFlight
<1>4. NothingTold
  BY <1>1, BlankTyped DEF NothingTold, Init, Working
<1>5. StateIsLastTold
  BY <1>1 DEF StateIsLastTold, Init
<1>. QED
  BY <1>2, <1>3, <1>4, <1>5, InitTypeOK DEF IInv

LEMMA StepIInv == IInv /\ [Next]_vars => IInv'
BY StepTypeOK, StepLocalsFit, StepFrameIsFresh, StepOverlapsAreNoted, StepSavedIsKept,
   StepNothingTold, StepStateIsLastTold DEF IInv

-----------------------------------------------------------------------------
(* What holds in every reachable state.                                    *)

(* The conjunction above.                                                  *)
THEOREM Inductive == Spec => []IInv
<1>. QED
  BY InitIInv, StepIInv, PTL DEF Spec

(* The four stores of a session, the locals of its turns and the history   *)
(* keep their shape.                                                       *)
THEOREM TypeCorrect == Spec => []TypeOK
<1>1. IInv => TypeOK
  BY DEF IInv
<1>. QED
  BY <1>1, Inductive, PTL

(* A turn that was saved stays in the document until as many others were   *)
(* saved after it as the document keeps: neither a turn that did not       *)
(* overlap it, nor a quota error, nor a crash takes it out, for any number *)
(* of turns and of utterances kept.                                        *)
THEOREM NothingSaidIsLost == Spec => []SaidIsRemembered
<1>1. IInv => SaidIsRemembered
  <2> SUFFICES ASSUME IInv, NEW t \in Turns, turn[t].pc = "saved"
               PROVE  t \in Utterances(doc) \/ since[t] >= MaxUtterances
                        \/ t \in raced \/ losses > 0
    BY DEF SaidIsRemembered
  <2>1. Kept(doc, t) /\ doc.said \in Seq(Turns)
    BY DEF IInv, SavedIsKept, TypeOK, Docs
  <2>2. Recent(doc.said, t, since[t]) => t \in Utterances(doc)
    BY <2>1 DEF Recent, Utterances
  <2>. QED
    BY <2>1, <2>2 DEF Kept
<1>. QED
  BY <1>1, Inductive, PTL

(* The scan of a turn looks at no frame that was cached before the turn's  *)
(* own: what it sees besides that one was captured later, or was on its    *)
(* way when the turn came, whatever order the frames' requests are served  *)
(* in.                                                                     *)
THEOREM NoScanIsBehind == Spec => []ScanIsNotBehind
<1>1. IInv => ScanIsNotBehind
  BY DEF IInv, FrameIsFresh, ScanIsNotBehind
<1>. QED
  BY <1>1, Inductive, PTL

(* The scan of a turn starts where the user last said they were, as long   *)
(* as no scan announced another place since, turns did not overlap and     *)
(* nothing was lost.                                                       *)
THEOREM ScansStartWhereTold == Spec => []ScanStartsWhereTold
<1>1. IInv => ScanStartsWhereTold
  BY DEF IInv, StateIsLastTold, LastTold, ScanStartsWhereTold
<1>. QED
  BY <1>1, Inductive, PTL
===============================================================================
