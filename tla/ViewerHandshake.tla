-------------------------- MODULE ViewerHandshake --------------------------
(***************************************************************************)
(* The handshake between the caller's thread and the viewer thread:        *)
(* Tracking::Reset stops the viewer while it clears the map and releases it*)
(* afterwards, System::Shutdown makes it finish, and the viewer's own menu *)
(* calls System::Reset (src/src/Viewer.cc, the Pangolin build).            *)
(*                                                                         *)
(* mMutexReset of System is held by the caller's thread from the test of   *)
(* mbReset to its clearing.  What Tracking::Reset does between stopping and*)
(* releasing the viewer is one step here; SlamSystem has its detail.       *)
(***************************************************************************)
EXTENDS Naturals

CONSTANTS
  MaxLost,      (* bound on the resets that Track asks for itself          *)
  MaxPresses    (* bound on the presses of the menu's Reset button         *)

ASSUME HandshakeBounds == MaxLost \in Nat /\ MaxPresses \in Nat

VARIABLES
  vw,     (* the Viewer object and its thread                              *)
  main,   (* the caller's thread and the flag mbReset of System            *)
  uses    (* resets asked for so far                                       *)

hvars == <<vw, main, uses>>

ViewerControl == { "start", "started", "draw", "menu", "reset", "stop",
                   "stopped", "checkFinish", "finish", "done" }

MainControl == { "frame", "requestStop", "waitStop", "clear", "release",
                 "served", "track", "waitFinish", "down" }

(* Type correctness of the viewer, the caller and the bounds. *)
HandshakeTypeOK ==
  /\ vw \in [ pc : ViewerControl, mbFinishRequested : BOOLEAN,
              mbFinished : BOOLEAN, mbStopped : BOOLEAN,
              mbStopRequested : BOOLEAN ]
  /\ main \in [ pc : MainControl, mbReset : BOOLEAN,
                viewerRan : BOOLEAN ]        \* history: at RequestStop
  /\ uses \in [ lost : 0 .. MaxLost, presses : 0 .. MaxPresses ]

(* The constructor: the viewer looks stopped and finished before it runs.  *)
HInit ==
  /\ vw = [ pc |-> "start", mbFinishRequested |-> FALSE, mbFinished |-> TRUE,
            mbStopped |-> TRUE, mbStopRequested |-> FALSE ]
  /\ main = [ pc |-> "frame", mbReset |-> FALSE, viewerRan |-> FALSE ]
  /\ uses = [ lost |-> 0, presses |-> 0 ]

ResetMutexIsFree ==
  main.pc \notin {"requestStop", "waitStop", "clear", "release", "served"}

ViewerGoto(from, to) ==
  /\ vw.pc = from
  /\ vw' = [vw EXCEPT !.pc = to]

MainGoto(from, to) ==
  /\ main.pc = from
  /\ main' = [main EXCEPT !.pc = to]

(***************************************************************************)
(* Viewer::Run.  Its first two assignments take no lock.                   *)
(***************************************************************************)
VStart ==
  /\ vw.pc = "start"
  /\ vw' = [vw EXCEPT !.pc = "started", !.mbFinished = FALSE]
  /\ UNCHANGED <<main, uses>>

VStarted ==
  /\ vw.pc = "started"
  /\ vw' = [vw EXCEPT !.pc = "draw", !.mbStopped = FALSE]
  /\ UNCHANGED <<main, uses>>

(* Keyframes, points and the current frame are drawn from the map. *)
Draw == ViewerGoto("draw", "menu") /\ UNCHANGED <<main, uses>>

Menu ==
  \/ ViewerGoto("menu", "stop") /\ UNCHANGED <<main, uses>>
  \/ /\ uses.presses < MaxPresses
     /\ ViewerGoto("menu", "reset")
     /\ uses' = [uses EXCEPT !.presses = @ + 1]
     /\ UNCHANGED main

(* mpSystem->Reset() waits for mMutexReset. *)
PressReset ==
  /\ ResetMutexIsFree
  /\ ViewerGoto("reset", "stop")
  /\ main' = [main EXCEPT !.mbReset = TRUE]
  /\ UNCHANGED uses

(* Fault: the viewer stops without saying so. *)
StopSilently ==
  /\ vw.pc = "stop"
  /\ vw' = IF vw.mbStopRequested /\ ~vw.mbFinishRequested
           THEN [vw EXCEPT !.pc = "stopped", !.mbStopRequested = FALSE]
           ELSE [vw EXCEPT !.pc = "checkFinish"]
  /\ UNCHANGED <<main, uses>>

(* Stop(): a finish request comes before a stop request. *)
VStop ==
  /\ vw.pc = "stop"
  /\ vw' = IF vw.mbStopRequested /\ ~vw.mbFinishRequested
           THEN [vw EXCEPT !.pc = "stopped", !.mbStopped = TRUE,
                           !.mbStopRequested = FALSE]
           ELSE [vw EXCEPT !.pc = "checkFinish"]
  /\ UNCHANGED <<main, uses>>

VResume ==
  /\ ~vw.mbStopped
  /\ ViewerGoto("stopped", "checkFinish")
  /\ UNCHANGED <<main, uses>>

VCheckFinish ==
  /\ ViewerGoto("checkFinish", IF vw.mbFinishRequested THEN "finish" ELSE "draw")
  /\ UNCHANGED <<main, uses>>

(* Fault: SetFinish is forgotten. *)
EndWithoutFinish == ViewerGoto("finish", "done") /\ UNCHANGED <<main, uses>>

VSetFinish ==
  /\ vw.pc = "finish"
  /\ vw' = [vw EXCEPT !.pc = "done", !.mbFinished = TRUE]
  /\ UNCHANGED <<main, uses>>

ViewerStep ==
  \/ VStart \/ VStarted \/ Draw \/ Menu \/ PressReset
  \/ VStop \/ VResume \/ VCheckFinish \/ VSetFinish

(***************************************************************************)
(* The caller: a frame of TrackRGBD, or Shutdown.                          *)
(***************************************************************************)
BeginFrame ==
  /\ MainGoto("frame", IF main.mbReset THEN "requestStop" ELSE "track")
  /\ UNCHANGED <<vw, uses>>

(* Viewer::RequestStop asks only a viewer that is not stopped. *)
RequestToViewer(v) ==
  IF v.mbStopped THEN v ELSE [v EXCEPT !.mbStopRequested = TRUE]

StopViewer ==
  /\ main.pc = "requestStop"
  /\ main' = [main EXCEPT !.pc = "waitStop",
                          !.viewerRan = vw.pc \notin {"start", "started"}]
  /\ vw' = RequestToViewer(vw)
  /\ UNCHANGED uses

(* Fault: the reset does not wait for the viewer. *)
GoOnWithoutViewer == MainGoto("waitStop", "clear") /\ UNCHANGED <<vw, uses>>

ViewerIsStopped ==
  /\ vw.mbStopped
  /\ MainGoto("waitStop", "clear")
  /\ UNCHANGED <<vw, uses>>

ClearTheMap == MainGoto("clear", "release") /\ UNCHANGED <<vw, uses>>

(* Viewer::Release *)
ReleaseViewer ==
  /\ MainGoto("release", "served")
  /\ vw' = [vw EXCEPT !.mbStopped = FALSE]
  /\ UNCHANGED uses

ResetServed ==
  /\ main.pc = "served"
  /\ main' = [main EXCEPT !.pc = "track", !.mbReset = FALSE]
  /\ UNCHANGED <<vw, uses>>

(* Track; a lost camera in a small map asks for a reset. *)
TrackFrame ==
  \/ MainGoto("track", "frame") /\ UNCHANGED <<vw, uses>>
  \/ /\ main.pc = "track"
     /\ uses.lost < MaxLost
     /\ main' = [main EXCEPT !.pc = "frame", !.mbReset = TRUE]
     /\ uses' = [uses EXCEPT !.lost = @ + 1]
     /\ UNCHANGED vw

FinishViewer ==
  /\ MainGoto("frame", "waitFinish")
  /\ vw' = [vw EXCEPT !.mbFinishRequested = TRUE]
  /\ UNCHANGED uses

ViewerIsFinished ==
  /\ vw.mbFinished
  /\ MainGoto("waitFinish", "down")
  /\ UNCHANGED <<vw, uses>>

MainThreadStep ==
  \/ BeginFrame \/ StopViewer \/ ViewerIsStopped \/ ClearTheMap
  \/ ReleaseViewer \/ ResetServed \/ TrackFrame
  \/ FinishViewer \/ ViewerIsFinished

HTerminated ==
  main.pc = "down" /\ vw.pc = "done" /\ UNCHANGED hvars

HNext == ViewerStep \/ MainThreadStep \/ HTerminated

HSpec == HInit /\ [][HNext]_hvars

(* Both threads are scheduled; nothing is assumed of the user. *)
HFairSpec == HSpec /\ WF_hvars(ViewerStep) /\ WF_hvars(MainThreadStep)

(***************************************************************************)
(* Properties                                                              *)
(***************************************************************************)

(* Tracking::Reset destroys the map only while the viewer, if it was       *)
(* running when it was asked to stop, is parked and draws nothing from it. *)
ClearsUndrawn ==
  main.pc \in {"clear", "release"} /\ main.viewerRan => vw.pc = "stopped"

(* The request to stop a running viewer is pending until it is answered:   *)
(* a viewer that has not yet noticed the Release of an earlier reset, and  *)
(* is still in its waiting loop, does not lose it.                         *)
StopNotLost ==
  main.pc = "waitStop" /\ main.viewerRan => vw.mbStopRequested \/ vw.mbStopped

(* A running viewer that is asked to stop does stop (Tracking::Reset waits *)
(* for that), so the reset goes on to clear the map, as long as nobody     *)
(* presses the Reset button: its handler waits for a mutex that the caller *)
(* holds while it waits for the viewer.                                    *)
ViewerStops ==
  [](uses.presses = 0)
    => (main.pc = "waitStop" /\ main.viewerRan ~> main.pc = "clear")

(* Shutdown's wait for the viewer ends. *)
ViewerFinishes == main.pc = "waitFinish" ~> main.pc = "down"
============================================================================
