------------------------------- MODULE McpBridge -------------------------------
(***************************************************************************)
(* mcp_stdio.py: the desk's thread, the thread that owns the MCP session,  *)
(* and the server behind it, which may die or fall silent at any time.     *)
(***************************************************************************)
EXTENDS Naturals, Sequences

CONSTANT ServerTools          \* the lists of tools a server may have

VARIABLES
    alive,            \* does the server process answer?
    thread,           \* where the session's thread is
    loop,             \* its event loop: "none", "running", "closed"
    tools, session, ready, error,     \* what it tells the desk's thread
    client,           \* the desk's thread: "none", "starting" (in start()), "up",
                      \* "calling" (in call_tool()), "refused" (start() raised)
    answer            \* what its last call came to: "none", "ok", "failed"

bridge == <<alive, thread, loop, tools, session, ready, error, client, answer>>

NoTools == <<>>

\* A server lists some tool: a list that is not there yet is told from one that is.
ASSUME BridgeAssumption == NoTools \notin ServerTools

Serving == {"handshake", "listed", "session", "serving"}

--------------------------------------------------------------------------------
(* The session's thread.                                                      *)

\* _run: a new event loop.
RunLoop ==
    /\ thread = "new"
    /\ loop' = "running" /\ thread' = "handshake"
    /\ UNCHANGED <<alive, tools, session, ready, error, client, answer>>

\* Mutant: the desk is woken as soon as the handshake is done.
ListToolsReady ==
    /\ thread = "handshake" /\ alive
    /\ tools' \in ServerTools
    /\ ready' = TRUE
    /\ thread' = "listed"
    /\ UNCHANGED <<alive, loop, session, error, client, answer>>

\* _serve: the handshake, and the tools the server lists.
ListTools ==
    /\ thread = "handshake" /\ alive
    /\ tools' \in ServerTools
    /\ thread' = "listed"
    /\ UNCHANGED <<alive, loop, session, ready, error, client, answer>>

SetSession ==
    /\ thread = "listed"
    /\ session' = TRUE
    /\ thread' = "session"
    /\ UNCHANGED <<alive, loop, tools, ready, error, client, answer>>

SetReady ==
    /\ thread = "session"
    /\ ready' = TRUE
    /\ thread' = "serving"
    /\ UNCHANGED <<alive, loop, tools, session, error, client, answer>>

\* The handshake or a stream raises, if the thread notices.  The session stays set.
ThreadFails ==
    /\ thread \in Serving /\ ~alive
    /\ error' = TRUE /\ ready' = TRUE
    /\ thread' = "failed"
    /\ UNCHANGED <<alive, loop, tools, session, client, answer>>

CloseLoop ==
    /\ thread = "failed"
    /\ loop' = "closed" /\ thread' = "ended"
    /\ UNCHANGED <<alive, tools, session, ready, error, client, answer>>

ServerDies ==
    /\ alive
    /\ alive' = FALSE
    /\ UNCHANGED <<thread, loop, tools, session, ready, error, client, answer>>

--------------------------------------------------------------------------------
(* The desk's thread.                                                         *)

\* start() refuses a live server and a missing command; otherwise it starts the
\* thread and waits.
StartBridge(allowed) ==
    /\ client = "none"
    /\ IF allowed
       THEN alive' = TRUE /\ thread' = "new" /\ client' = "starting"
       ELSE UNCHANGED <<alive, thread>> /\ client' = "refused"
    /\ UNCHANGED <<loop, tools, session, ready, error, answer>>

\* It has been told: of an error, or of a session.
StartEnds ==
    /\ client = "starting" /\ ready
    /\ client' = IF error THEN "refused" ELSE "up"
    /\ UNCHANGED <<alive, thread, loop, tools, session, ready, error, answer>>

\* CONNECT_TIMEOUT
ConnectTimesOut ==
    /\ client = "starting" /\ ~ready
    /\ client' = "refused"
    /\ UNCHANGED <<alive, thread, loop, tools, session, ready, error, answer>>

\* call_tool raises at once for a tool that writes, without a session, or if its
\* loop is closed; otherwise the desk waits for the future.
CallTool(writes) ==
    /\ client = "up"
    /\ IF ~writes /\ session /\ loop = "running"
       THEN client' = "calling" /\ answer' = "none"
       ELSE answer' = "failed" /\ UNCHANGED client
    /\ UNCHANGED <<alive, thread, loop, tools, session, ready, error>>

\* A result.
CallAnswered ==
    /\ client = "calling" /\ alive /\ loop = "running"
    /\ client' = "up" /\ answer' = "ok"
    /\ UNCHANGED <<alive, thread, loop, tools, session, ready, error>>

\* An error, reported by the tool or by the connection.
CallFails ==
    /\ client = "calling"
    /\ client' = "up" /\ answer' = "failed"
    /\ UNCHANGED <<alive, thread, loop, tools, session, ready, error>>

\* Mutant: future.result() without a limit.
CallWaits == FALSE /\ UNCHANGED bridge

\* CALL_TIMEOUT: whatever comes later is dropped.
CallTimesOut ==
    /\ client = "calling"
    /\ client' = "up" /\ answer' = "failed"
    /\ UNCHANGED <<alive, thread, loop, tools, session, ready, error>>

\* The desk has taken what the call came to.
Taken == answer' = "none" /\ UNCHANGED <<alive, thread, loop, tools, session, ready, error, client>>

BridgeInit ==
    /\ alive = FALSE /\ thread = "none" /\ loop = "none" /\ tools = NoTools
    /\ session = FALSE /\ ready = FALSE /\ error = FALSE
    /\ client = "none" /\ answer = "none"

\* stop(), and the end of the process.
Stop ==
    /\ alive' = FALSE /\ thread' = "none" /\ loop' = "none" /\ tools' = NoTools
    /\ session' = FALSE /\ ready' = FALSE /\ error' = FALSE
    /\ client' = "none" /\ answer' = "none"

Thread == RunLoop \/ ListTools \/ SetSession \/ SetReady \/ ThreadFails \/ CloseLoop

BridgeNext ==
    \/ Thread \/ ServerDies
    \/ (\E allowed \in BOOLEAN : StartBridge(allowed))
    \/ StartEnds \/ ConnectTimesOut
    \/ (\E writes \in BOOLEAN : CallTool(writes))
    \/ CallAnswered \/ CallFails \/ CallTimesOut \/ Taken \/ Stop

BridgeSpec == BridgeInit /\ [][BridgeNext]_bridge

--------------------------------------------------------------------------------
(* Properties.                                                                *)

\* When start() has returned, the session it was waiting for is there, with its
\* tools and a loop to run calls on: the desk never discovers from a list that is
\* not filled yet (mcp_stdio.py:140-148).
StartedIsUsable ==
    client \in {"up", "calling"} => session /\ tools # NoTools /\ loop # "none"

\* What StartedIsUsable rests on.
BridgeInv ==
    /\ StartedIsUsable
    /\ client = "none" => thread = "none"
    /\ thread \in {"none", "new", "handshake", "listed", "session", "serving", "failed", "ended"}
    /\ thread \in {"none", "new", "handshake", "listed", "session"} => ~ready
    /\ thread \in Serving \cup {"failed"} => loop = "running"
    /\ thread \in {"listed", "session", "serving"} => tools # NoTools
    /\ thread \in {"session", "serving"} => session
    /\ thread \in {"failed", "ended"} => error
================================================================================
