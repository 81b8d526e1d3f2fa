------------------------------- MODULE Viewer -------------------------------
(***************************************************************************)
(* The remote desktop page                                                 *)
(* (integrations/lan-remote-access/rustdesk-web-build/classic-ui.js):      *)
(* three panels of which one is shown, the messages and frames of the      *)
(* RustDesk client, the timer for the first frame, and the pointer, whose  *)
(* moves are gathered until the next animation frame.  The client and the  *)
(* decoder are external.  A callback is a step.                            *)
(***************************************************************************)
CONSTANTS
  Points,  \* places of the pointer on the canvas
  NoPoint

ASSUME ViewerAssumption == NoPoint \notin Points

VARIABLES
  stage,        \* how far init().then(connect) has come
  panel,        \* what is shown: "error" and "late" are the status panel with its button
  timer,        \* firstFrameTimer is running
  since,        \* history: the last of success, its timeout, a frame, a prompt and an error
  pointer,      \* where the last move or press was
  pendingMove,
  moveFrame,    \* an animation frame is requested
  remote,       \* where the client was last told the pointer is
  overtaken     \* history: the last press was sent before an older move of another place

viewerVars == <<stage, panel, timer, since, pointer, pendingMove, moveFrame, remote,
                overtaken>>

ViewerStages == {"init", "prepare", "started", "over", "left"}
Panels == {"status", "error", "late", "password", "viewer"}

ViewerTypeOK ==
  /\ stage \in ViewerStages /\ panel \in Panels /\ timer \in BOOLEAN
  /\ since \in {"nothing", "success", "late", "frame", "password", "error"}
  /\ pointer \in Points \cup {NoPoint} /\ remote \in Points \cup {NoPoint}
  /\ pendingMove \in Points \cup {NoPoint} /\ moveFrame \in BOOLEAN /\ overtaken \in BOOLEAN

ViewerInit ==
  /\ stage = "init" /\ panel = "status" /\ timer = FALSE /\ since = "nothing"
  /\ pointer = NoPoint /\ pendingMove = NoPoint /\ moveFrame = FALSE /\ remote = NoPoint
  /\ overtaken = FALSE

pointerVars == <<pointer, pendingMove, moveFrame, remote, overtaken>>
-----------------------------------------------------------------------------
\* window.init() is done and connect runs up to its first await: without an id it ends, else it
\* makes the connection and prepares the decoder.
Connect(id) ==
  /\ stage = "init" /\ timer' = FALSE
  /\ stage' = IF id THEN "prepare" ELSE "over"
  /\ panel' = IF id THEN "status" ELSE "error"
  /\ UNCHANGED <<since, pointerVars>>

\* The decoder is there before the deadline of 15 seconds, and the client is started.
Prepared ==
  /\ stage = "prepare" /\ stage' = "started"
  /\ UNCHANGED <<panel, timer, since, pointerVars>>

\* The promise's catch: init or the decoder fails and nothing is started; or start fails.
Fails ==
  /\ stage \in {"init", "prepare", "started"} /\ panel' = "error"
  /\ stage' = IF stage = "started" THEN stage ELSE "over"
  /\ UNCHANGED <<timer, since, pointerVars>>

\* The client can report from the moment it is started.
Live == stage = "started"

\* A bug: only a new success clears the timer.
ClearedNever(type) == timer

\* Is the timer still running after a message or a frame?
Cleared(type) == FALSE

\* The first branches of messageBox, and renderFrame: the timer is cleared.
Report(type, shown) ==
  /\ Live /\ timer' = Cleared(type) /\ since' = type /\ panel' = shown
  /\ UNCHANGED <<stage, pointerVars>>

AskPassword == Report("password", "password")

ReportError == Report("error", "error")

RenderFrame == Report("frame", "viewer")

Connecting ==
  /\ Live /\ panel' = "status"
  /\ UNCHANGED <<stage, timer, since, pointerVars>>

\* A bug: the timer of success is not set.
ArmedNever == timer

\* Is the timer running after success?
Armed == TRUE

Success ==
  /\ Live /\ panel' = "status" /\ timer' = Armed /\ since' = "success"
  /\ UNCHANGED <<stage, pointerVars>>

\* 20 seconds have passed.
FirstFrameLate ==
  /\ timer /\ timer' = FALSE /\ panel' = "late" /\ since' = "late"
  /\ UNCHANGED <<stage, pointerVars>>

\* The button of the error panel loads the page again; the one of the viewer leaves it.
Retry ==
  /\ panel \in {"error", "late"} /\ stage # "left"
  /\ stage' = "init" /\ panel' = "status" /\ timer' = FALSE /\ since' = "nothing"
  /\ pointer' = NoPoint /\ pendingMove' = NoPoint /\ moveFrame' = FALSE /\ remote' = NoPoint
  /\ overtaken' = FALSE

DisconnectButton ==
  /\ panel = "viewer" /\ stage # "left" /\ stage' = "left" /\ timer' = FALSE
  /\ UNCHANGED <<panel, since, pointerVars>>
-----------------------------------------------------------------------------
pageVars == <<stage, panel, timer, since>>

\* A bug: a move is dropped while a frame is requested.
GatheredFirst(p) == IF moveFrame THEN pendingMove ELSE p

\* What pendingMove is after a move to p.
Gathered(p) == p

PointerMove(p) ==
  /\ panel = "viewer" /\ stage # "left" /\ p # pointer
  /\ pointer' = p /\ pendingMove' = Gathered(p) /\ moveFrame' = TRUE /\ overtaken' = FALSE
  /\ UNCHANGED <<pageVars, remote>>

\* The animation frame sends the last move.
AnimationFrame ==
  /\ moveFrame /\ stage # "left"
  /\ moveFrame' = FALSE /\ pendingMove' = NoPoint
  /\ remote' = IF pendingMove = NoPoint THEN remote ELSE pendingMove
  /\ UNCHANGED <<pageVars, pointer, overtaken>>

\* pointerdown and pointerup are sent at once, with their own place: a touch has made no move
\* before.  A move that was gathered earlier stays for its frame.
PointerButton(p) ==
  /\ panel = "viewer" /\ stage # "left"
  /\ pointer' = p /\ remote' = p /\ overtaken' = (pendingMove \notin {NoPoint, p})
  /\ UNCHANGED <<pageVars, pendingMove, moveFrame>>

PageStep == \/ \E id \in BOOLEAN : Connect(id)
            \/ Prepared \/ Fails

ViewerNext ==
  \/ PageStep \/ AskPassword \/ ReportError \/ RenderFrame \/ Connecting \/ Success
  \/ FirstFrameLate \/ Retry \/ DisconnectButton
  \/ \E p \in Points : PointerMove(p) \/ PointerButton(p)
  \/ AnimationFrame

\* Timers and animation frames run; nothing is promised of the client.
ViewerFairness == WF_viewerVars(FirstFrameLate) /\ WF_viewerVars(AnimationFrame)

ViewerSpec == ViewerInit /\ [][ViewerNext]_viewerVars /\ ViewerFairness
-----------------------------------------------------------------------------
\* The page says that no first frame came only when none did: the timer of one success never
\* fires after a frame, a prompt for the password or an error of the client that followed it.
\* (The catch of a failed start shows its error and leaves the timer alone.)
TimeoutIsGenuine ==
  /\ ViewerTypeOK
  /\ timer => since = "success"
  /\ panel = "late" => since = "late"

\* The wait for the first frame ends: with a picture, a message, or the timer.
WaitEnds == since = "success" ~> (since # "success" \/ stage = "left")

\* Moves are gathered, but the last one is not lost: the remote pointer comes to rest where the
\* last move or press was, with no older move left to send.  The exception is a press at another
\* place than a move that still waits for its frame: the move is sent after the press.
PointerArrives ==
  \A p \in Points :
    pointer = p /\ ~overtaken ~>
      (remote = p /\ ~moveFrame) \/ pointer # p \/ overtaken \/ stage = "left"
=============================================================================
