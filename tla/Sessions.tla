------------------------------- MODULE Sessions -------------------------------
(***************************************************************************)
(* The requests that last: a shell in a container (internal/api/exec.go),  *)
(* the event stream of a page (SSEHandler in sse.go) and the log of a      *)
(* service that is followed (ServiceLogs in handlers.go).                  *)
(*                                                                         *)
(* A shell has two goroutines, one for each direction, over two            *)
(* connections that end independently; every buffer between them is        *)
(* finite, so each write may have to wait for the other side.              *)
(***************************************************************************)
EXTENDS Bounded

CONSTANTS
  Shell,        \* exec sessions
  Stream,       \* event streams and followed logs
  Buffer,       \* what fits into one direction of a connection
  SessionWork   \* bound: sessions opened, and messages sent

ASSUME SessionsAssumption ==
  /\ Buffer \in Nat \ {0}
  /\ SessionWork \in Nat

VARIABLES
  shell,    \* [Shell -> the two goroutines and what they move]
  stream,   \* [Stream -> the handler and its browser]
  clients   \* sseClients: the event streams that are registered

sessionVars == <<shell, stream, clients, work>>

\* browser, docker: the other ends.  input: the goroutine of execProxy; output:
\* the one it starts.  toShell, toDocker, toBrowser: what the buffers hold.
ShellState ==
  [browser : {"none", "open", "left"}, docker : {"none", "open", "ended", "closed"},
   input : {"none", "create", "attach", "receive", "write", "done"},
   output : {"none", "read", "send", "done"},
   toShell : 0 .. Buffer, toDocker : 0 .. Buffer, toBrowser : 0 .. Buffer]

NoShell == [browser |-> "none", docker |-> "none", input |-> "none", output |-> "none",
            toShell |-> 0, toDocker |-> 0, toBrowser |-> 0]

StreamState == [browser : {"none", "open", "left"}, kind : {"events", "log"},
                at : {"none", "wait", "fetch", "done"}]

Becomes(c, next) ==
  shell' = [shell EXCEPT ![c] = next] /\ UNCHANGED <<stream, clients>>

Moves(c, next) == Becomes(c, next) /\ UNCHANGED work

-----------------------------------------------------------------------------
\* ExecHandler: the WebSocket is open.
ExecHandler(c) ==
  /\ shell[c] = NoShell /\ Budget(SessionWork)
  /\ Becomes(c, [shell[c] EXCEPT !.browser = "open", !.input = "create"])

\* ContainerExecCreate and ContainerExecAttach; an error ends the session.  The
\* browser is not looked at before the first Receive.
ExecAttach(c) ==
  \/ shell[c].input = "create" /\ Moves(c, [shell[c] EXCEPT !.input = "attach"])
  \/ /\ shell[c].input = "attach"
     /\ Moves(c, [shell[c] EXCEPT !.input = "receive", !.output = "read", !.docker = "open"])
  \/ shell[c].input \in {"create", "attach"} /\ Moves(c, [shell[c] EXCEPT !.input = "done"])

\* Seeded fault: the connection to Docker is left open.
ReceiveNoClose(c) ==
  /\ shell[c].input = "receive"
  /\ \/ /\ shell[c].toShell > 0
        /\ Moves(c, [shell[c] EXCEPT !.toShell = @ - 1, !.input = "write"])
     \/ /\ shell[c].toShell = 0 /\ shell[c].browser = "left"
        /\ Moves(c, [shell[c] EXCEPT !.input = "done"])

\* websocket.Message.Receive: a message, or an error when the browser has left;
\* then execProxy returns, and resp.Close closes the connection to Docker.
Receive(c) ==
  /\ shell[c].input = "receive"
  /\ \/ /\ shell[c].toShell > 0
        /\ Moves(c, [shell[c] EXCEPT !.toShell = @ - 1, !.input = "write"])
     \/ /\ shell[c].toShell = 0 /\ shell[c].browser = "left"
        /\ Moves(c, [shell[c] EXCEPT !.input = "done", !.docker = "closed"])

\* Seeded fault: one goroutine for both directions.
WriteWhenRead(c) ==
  /\ shell[c].input = "write" /\ shell[c].output # "send"
  /\ \/ /\ shell[c].docker = "open" /\ shell[c].toDocker < Buffer
        /\ Moves(c, [shell[c] EXCEPT !.toDocker = @ + 1, !.input = "receive"])
     \/ /\ shell[c].docker # "open"
        /\ Moves(c, [shell[c] EXCEPT !.input = "receive"])

\* resp.Conn.Write waits while the container does not read; its error is dropped.
Write(c) ==
  /\ shell[c].input = "write"
  /\ \/ /\ shell[c].docker = "open" /\ shell[c].toDocker < Buffer
        /\ Moves(c, [shell[c] EXCEPT !.toDocker = @ + 1, !.input = "receive"])
     \/ /\ shell[c].docker # "open"
        /\ Moves(c, [shell[c] EXCEPT !.input = "receive"])

\* resp.Reader.Read fails when either end has closed the connection.
ReadEnds(c) ==
  /\ shell[c].output = "read" /\ shell[c].docker # "open"
  /\ Moves(c, [shell[c] EXCEPT !.output = "done"])

ReadOutput(c) ==
  /\ shell[c].output = "read" /\ shell[c].docker = "open"
  /\ Moves(c, [shell[c] EXCEPT !.output = "send"])

\* websocket.Message.Send waits while the browser does not read; its error, once
\* either side has closed the WebSocket, is dropped.
Send(c) ==
  /\ shell[c].output = "send"
  /\ \/ /\ shell[c].browser = "open" /\ shell[c].toBrowser < Buffer
        /\ Moves(c, [shell[c] EXCEPT !.toBrowser = @ + 1, !.output = "read"])
     \/ /\ shell[c].browser # "open" \/ shell[c].input = "done"
        /\ Moves(c, [shell[c] EXCEPT !.output = "read"])

-----------------------------------------------------------------------------
\* The browser and the container.
Types(c) ==
  /\ shell[c].browser = "open" /\ shell[c].toShell < Buffer /\ Budget(SessionWork)
  /\ Becomes(c, [shell[c] EXCEPT !.toShell = @ + 1])

Shows(c) ==
  /\ shell[c].browser = "open" /\ shell[c].toBrowser > 0
  /\ Moves(c, [shell[c] EXCEPT !.toBrowser = @ - 1])

Leaves(c) ==
  /\ shell[c].browser = "open"
  /\ Moves(c, [shell[c] EXCEPT !.browser = "left"])

ContainerReads(c) ==
  /\ shell[c].docker = "open" /\ shell[c].toDocker > 0
  /\ Moves(c, [shell[c] EXCEPT !.toDocker = @ - 1])

ContainerEnds(c) ==
  /\ shell[c].docker = "open"
  /\ Moves(c, [shell[c] EXCEPT !.docker = "ended"])

-----------------------------------------------------------------------------
\* SSEHandler registers its client and fetches the first data; ServiceLogs waits
\* for the first frame.
Connect(c, kind) ==
  /\ stream[c].at = "none" /\ Budget(SessionWork)
  /\ stream' = [stream EXCEPT ![c] = [browser |-> "open", kind |-> kind,
       at |-> IF kind = "events" THEN "fetch" ELSE "wait"]]
  /\ clients' = IF kind = "events" THEN clients \cup {c} ELSE clients
  /\ UNCHANGED shell

At(c, place) == stream' = [stream EXCEPT ![c].at = place] /\ UNCHANGED <<shell, work>>

\* Seeded fault: the client stays registered.
DisconnectKeeps(c) ==
  /\ stream[c].at = "wait" /\ stream[c].browser = "left"
  /\ At(c, "done") /\ UNCHANGED clients

\* select: the request's context is done; the deferred function deletes the
\* client.  A read of the log fails with the context, too.
Disconnect(c) ==
  /\ stream[c].at = "wait" /\ stream[c].browser = "left"
  /\ At(c, "done") /\ clients' = clients \ {c}

\* select: the ticker.
Tick(c) ==
  /\ stream[c].at = "wait" /\ stream[c].kind = "events"
  /\ At(c, "fetch") /\ UNCHANGED clients

\* The log has no more frames, and the request ends.
LogEnds(c) ==
  /\ stream[c].at = "wait" /\ stream[c].kind = "log"
  /\ At(c, "done") /\ UNCHANGED clients

\* fetchSubscriptionData and the write: calls to Docker have a timeout.
Fetched(c) ==
  /\ stream[c].at = "fetch" /\ At(c, "wait") /\ UNCHANGED clients

BrowserGone(c) ==
  /\ stream[c].browser = "open"
  /\ stream' = [stream EXCEPT ![c].browser = "left"]
  /\ UNCHANGED <<shell, clients, work>>

-----------------------------------------------------------------------------
SessionsInit ==
  /\ shell = [c \in Shell |-> NoShell]
  /\ stream = [c \in Stream |-> [browser |-> "none", kind |-> "log", at |-> "none"]]
  /\ clients = {}
  /\ work = 0

InputStep(c)  == ExecAttach(c) \/ Receive(c) \/ Write(c)
OutputStep(c) == ReadEnds(c) \/ Send(c)

SessionsNext ==
  \/ \E c \in Shell :
       \/ ExecHandler(c) \/ InputStep(c) \/ OutputStep(c) \/ ReadOutput(c)
       \/ Types(c) \/ Shows(c) \/ Leaves(c) \/ ContainerReads(c) \/ ContainerEnds(c)
  \/ \E c \in Stream :
       \/ \E kind \in {"events", "log"} : Connect(c, kind)
       \/ Disconnect(c) \/ Tick(c) \/ LogEnds(c) \/ Fetched(c) \/ BrowserGone(c)

SessionsSpec == SessionsInit /\ [][SessionsNext]_sessionVars

-----------------------------------------------------------------------------
\* Types.
SessionsTypeOK ==
  /\ shell \in [Shell -> ShellState]
  /\ stream \in [Stream -> StreamState]
  /\ clients \in SUBSET Stream
  /\ work \in Nat

\* When the browser leaves, both goroutines of its shell end and the connection
\* to Docker is closed, wherever they were, if the container reads its input.
ShellsEnd ==
  \A c \in Shell :
    shell[c].browser = "left" ~>
      /\ shell[c].input = "done" /\ shell[c].output \in {"none", "done"}
      /\ shell[c].docker \in {"none", "closed"}

\* Input that was typed reaches the container although the browser does not read
\* the output that piles up: neither direction waits for the other.
InputFlows ==
  \A c \in Shell : shell[c].input = "write" ~> shell[c].input # "write"

\* When the browser leaves, the handler of its stream ends and its client is
\* registered no more, also when ticks keep coming.
StreamsEnd ==
  \A c \in Stream :
    stream[c].browser = "left" ~> stream[c].at = "done" /\ c \notin clients
=============================================================================
