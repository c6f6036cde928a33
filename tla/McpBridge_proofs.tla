---------------------------- MODULE McpBridge_proofs ----------------------------
(***************************************************************************)
(* That start() returns only with a session that can be used, whatever     *)
(* tools a server lists and whenever it dies.                              *)
(***************************************************************************)
EXTENDS McpBridge, TLAPS

LEMMA InitialBridge == BridgeInit => BridgeInv
  BY DEF BridgeInit, BridgeInv, StartedIsUsable, Serving

\* The session's thread sets what it tells in the order that BridgeInv says.
LEMMA StepThread == BridgeInv /\ (Thread \/ ServerDies) => BridgeInv'
<1> SUFFICES ASSUME BridgeInv, Thread \/ ServerDies PROVE BridgeInv'
  OBVIOUS
<1> USE DEF BridgeInv, StartedIsUsable, Serving
<1>1. CASE RunLoop
  BY <1>1 DEF RunLoop
<1>2. CASE ListTools
  BY <1>2, BridgeAssumption DEF ListTools
<1>3. CASE SetSession
  BY <1>3 DEF SetSession
<1>4. CASE SetReady
  BY <1>4 DEF SetReady
<1>5. CASE ThreadFails
  BY <1>5 DEF ThreadFails
<1>6. CASE CloseLoop
  BY <1>6 DEF CloseLoop
<1>7. CASE ServerDies
  BY <1>7 DEF ServerDies
<1> QED  BY <1>1, <1>2, <1>3, <1>4, <1>5, <1>6, <1>7 DEF Thread

\* The desk's thread is told of nothing before it is there.
LEMMA StepClient ==
    ASSUME BridgeInv,
           \/ \E allowed \in BOOLEAN : StartBridge(allowed)
           \/ StartEnds \/ ConnectTimesOut
           \/ \E writes \in BOOLEAN : CallTool(writes)
           \/ CallAnswered \/ CallFails \/ CallTimesOut \/ Taken \/ Stop
    PROVE  BridgeInv'
<1> USE DEF BridgeInv, StartedIsUsable, Serving
<1>1. ASSUME NEW allowed \in BOOLEAN, StartBridge(allowed) PROVE BridgeInv'
  <2>1. CASE allowed
    BY <1>1, <2>1 DEF StartBridge
  <2>2. CASE ~allowed
    BY <1>1, <2>2 DEF StartBridge
  <2> QED  BY <2>1, <2>2
<1>2. CASE StartEnds
  <2>1. CASE error
    BY <1>2, <2>1 DEF StartEnds
  <2>2. CASE ~error
    <3>1. thread = "serving"
      BY <1>2, <2>2 DEF StartEnds
    <3> QED  BY <1>2, <2>2, <3>1 DEF StartEnds
  <2> QED  BY <2>1, <2>2
<1>3. CASE ConnectTimesOut
  BY <1>3 DEF ConnectTimesOut
<1>4. ASSUME NEW writes \in BOOLEAN, CallTool(writes) PROVE BridgeInv'
  <2>1. client' \in {"up", "calling"} /\ client = "up"
    BY <1>4 DEF CallTool
  <2> QED  BY <1>4, <2>1 DEF CallTool
<1>5. CASE CallAnswered
  BY <1>5 DEF CallAnswered
<1>6. CASE CallFails
  BY <1>6 DEF CallFails
<1>7. CASE CallTimesOut
  BY <1>7 DEF CallTimesOut
<1>8. CASE Taken
  BY <1>8 DEF Taken
<1>9. CASE Stop
  BY <1>9 DEF Stop
<1> QED  BY <1>1, <1>2, <1>3, <1>4, <1>5, <1>6, <1>7, <1>8, <1>9

LEMMA StepBridge == BridgeInv /\ [BridgeNext]_bridge => BridgeInv'
<1> SUFFICES ASSUME BridgeInv, [BridgeNext]_bridge PROVE BridgeInv'
  OBVIOUS
<1>1. CASE Thread \/ ServerDies
  BY <1>1, StepThread
<1>2. CASE UNCHANGED bridge
  BY <1>2 DEF bridge, BridgeInv, StartedIsUsable, Serving
<1> QED  BY <1>1, <1>2, StepClient DEF BridgeNext

\* A desk whose start() has returned has a session, the tools it lists and a loop to
\* run calls on, for any number of calls, deaths and restarts
\* (mcp_stdio.py:105-123, 140-148).
THEOREM StartIsEnough == BridgeSpec => []StartedIsUsable
<1>1. BridgeInv => StartedIsUsable
  BY DEF BridgeInv
<1> QED  BY InitialBridge, StepBridge, <1>1, PTL DEF BridgeSpec
================================================================================
