----------------------- MODULE ViewerHandshake_proofs -----------------------
(***************************************************************************)
(* The viewer handshake is safe for any number of resets, however the two  *)
(* threads interleave.                                                     *)
(***************************************************************************)
EXTENDS ViewerHandshake, TLAPS

(* A viewer that says it is stopped is parked, or has not run yet; and a   *)
(* viewer that had run when the reset began has run.                       *)
HandshakeInv ==
  /\ HandshakeTypeOK
  /\ vw.mbStopped => vw.pc \in {"start", "started", "stopped"}
  /\ main.viewerRan => vw.pc \notin {"start", "started"}
  /\ main.pc \in {"clear", "release"} /\ main.viewerRan =>
       vw.pc = "stopped" /\ vw.mbStopped
  /\ StopNotLost

(* Each step keeps the invariant. *)
LEMMA HandshakeStep ==
  ASSUME HandshakeInv, HNext
  PROVE  HandshakeInv'
<1> USE HandshakeBounds
    DEF HandshakeInv, HandshakeTypeOK, ViewerControl, MainControl,
        StopNotLost, ViewerGoto, MainGoto
<1>1. CASE VStart BY <1>1 DEF VStart
<1>2. CASE VStarted BY <1>2 DEF VStarted
<1>3. CASE Draw BY <1>3 DEF Draw
<1>4. CASE Menu
  <2>1. CASE UNCHANGED <<main, uses>> BY <1>4, <2>1 DEF Menu
  <2>2. CASE /\ uses.presses < MaxPresses
             /\ ViewerGoto("menu", "reset")
             /\ uses' = [uses EXCEPT !.presses = @ + 1]
             /\ UNCHANGED main
    <3>1. uses.presses + 1 \in 0 .. MaxPresses BY <2>2
    <3> QED BY <2>2, <3>1
  <2> QED BY <1>4, <2>1, <2>2 DEF Menu
<1>5. CASE PressReset BY <1>5 DEF PressReset
<1>6. CASE VStop BY <1>6 DEF VStop
<1>7. CASE VResume BY <1>7 DEF VResume
<1>8. CASE VCheckFinish BY <1>8 DEF VCheckFinish
<1>9. CASE VSetFinish BY <1>9 DEF VSetFinish
<1>10. CASE BeginFrame BY <1>10 DEF BeginFrame
<1>11. CASE StopViewer BY <1>11 DEF StopViewer, RequestToViewer
<1>12. CASE ViewerIsStopped BY <1>12 DEF ViewerIsStopped
<1>13. CASE ClearTheMap BY <1>13 DEF ClearTheMap
<1>14. CASE ReleaseViewer BY <1>14 DEF ReleaseViewer
<1>15. CASE ResetServed BY <1>15 DEF ResetServed
<1>16. CASE TrackFrame
  <2>1. CASE UNCHANGED <<vw, uses>> BY <1>16, <2>1 DEF TrackFrame
  <2>2. CASE /\ uses.lost < MaxLost
             /\ main.pc = "track"
             /\ main' = [main EXCEPT !.pc = "frame", !.mbReset = TRUE]
             /\ uses' = [uses EXCEPT !.lost = @ + 1]
             /\ UNCHANGED vw
    <3>1. uses.lost + 1 \in 0 .. MaxLost BY <2>2
    <3> QED BY <2>2, <3>1
  <2> QED BY <1>16, <2>1, <2>2 DEF TrackFrame
<1>17. CASE FinishViewer BY <1>17 DEF FinishViewer
<1>18. CASE ViewerIsFinished BY <1>18 DEF ViewerIsFinished
<1>19. CASE HTerminated BY <1>19 DEF HTerminated, hvars
<1> QED
  BY <1>1, <1>2, <1>3, <1>4, <1>5, <1>6, <1>7, <1>8, <1>9, <1>10,
     <1>11, <1>12, <1>13, <1>14, <1>15, <1>16, <1>17, <1>18, <1>19
     DEF HNext, ViewerStep, MainThreadStep

(* The map is cleared only while a running viewer is parked, its request   *)
(* to stop is never lost, and the types are kept.                          *)
THEOREM ViewerSafe ==
  HSpec => [](HandshakeTypeOK /\ ClearsUndrawn /\ StopNotLost)
<1>1. HInit => HandshakeInv
  BY HandshakeBounds
     DEF HInit, HandshakeInv, HandshakeTypeOK, ViewerControl, MainControl,
         StopNotLost
<1>2. HandshakeInv /\ [HNext]_hvars => HandshakeInv'
  <2> SUFFICES ASSUME HandshakeInv, [HNext]_hvars
               PROVE  HandshakeInv'
    OBVIOUS
  <2>1. CASE UNCHANGED hvars
    BY <2>1 DEF hvars, HandshakeInv, HandshakeTypeOK, StopNotLost
  <2> QED BY <2>1, HandshakeStep
<1>3. HandshakeInv => HandshakeTypeOK /\ ClearsUndrawn /\ StopNotLost
  BY DEF HandshakeInv, ClearsUndrawn
<1> QED BY <1>1, <1>2, <1>3, PTL DEF HSpec
=============================================================================
