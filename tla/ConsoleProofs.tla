---------------------------- MODULE ConsoleProofs ----------------------------
(***************************************************************************)
(* Theorems about Sessions, for any number of shells and streams and any   *)
(* size of the buffers, and about Console, which runs one of its parts.    *)
(***************************************************************************)
EXTENDS Console, CheckersProofs, PagesProofs

-----------------------------------------------------------------------------
\* Sessions.

LEMMA SessionWorkCounted == SessionsTypeOK /\ Budget(SessionWork) => work' \in Nat
BY DEF SessionsTypeOK, Budget

LEMMA SessionsInitType == SessionsInit => SessionsTypeOK
BY SessionsAssumption DEF SessionsInit, SessionsTypeOK, NoShell, ShellState, StreamState

\* One field of a shell changes; what enters a buffer must fit, and what leaves
\* it must have been there.
LEMMA ShellFields ==
  ASSUME NEW r \in ShellState
  PROVE  /\ \A e \in {"none", "open", "left"} : [r EXCEPT !.browser = e] \in ShellState
         /\ \A e \in {"none", "open", "ended", "closed"} : [r EXCEPT !.docker = e] \in ShellState
         /\ \A e \in {"none", "create", "attach", "receive", "write", "done"} :
              [r EXCEPT !.input = e] \in ShellState
         /\ \A e \in {"none", "read", "send", "done"} : [r EXCEPT !.output = e] \in ShellState
         /\ \A e \in 0 .. Buffer : /\ [r EXCEPT !.toShell = e] \in ShellState
                                   /\ [r EXCEPT !.toDocker = e] \in ShellState
                                   /\ [r EXCEPT !.toBrowser = e] \in ShellState
BY DEF ShellState

LEMMA ShellBuffers ==
  ASSUME NEW r \in ShellState
  PROVE  /\ r.toShell > 0 => r.toShell - 1 \in 0 .. Buffer
         /\ r.toDocker > 0 => r.toDocker - 1 \in 0 .. Buffer
         /\ r.toBrowser > 0 => r.toBrowser - 1 \in 0 .. Buffer
         /\ r.toShell < Buffer => r.toShell + 1 \in 0 .. Buffer
         /\ r.toDocker < Buffer => r.toDocker + 1 \in 0 .. Buffer
         /\ r.toBrowser < Buffer => r.toBrowser + 1 \in 0 .. Buffer
BY SessionsAssumption DEF ShellState

\* A shell becomes another; buffers keep to their size.
LEMMA ShellMoves ==
  ASSUME SessionsTypeOK, NEW c \in Shell, NEW next \in ShellState, Becomes(c, next), work' \in Nat
  PROVE  SessionsTypeOK'
BY DEF Becomes, SessionsTypeOK

\* The goroutine that reads from the browser and writes to Docker.
LEMMA InputType ==
  ASSUME SessionsTypeOK, NEW c \in Shell, InputStep(c)
  PROVE  SessionsTypeOK'
<1> DEFINE r == shell[c]
<1>1. r \in ShellState /\ work \in Nat
  BY DEF SessionsTypeOK
<1>2. /\ [r EXCEPT !.input = "attach"] \in ShellState
      /\ [r EXCEPT !.input = "receive"] \in ShellState
      /\ [r EXCEPT !.input = "done"] \in ShellState
  BY <1>1, ShellFields
<1>3. [r EXCEPT !.input = "receive", !.output = "read", !.docker = "open"] \in ShellState
  <2>1. [[r EXCEPT !.input = "receive"] EXCEPT !.output = "read"] \in ShellState
    BY <1>2, ShellFields
  <2> QED
    BY <2>1, ShellFields
<1>4. [r EXCEPT !.input = "done", !.docker = "closed"] \in ShellState
  BY <1>2, ShellFields
<1>5. r.toShell > 0 => [r EXCEPT !.toShell = @ - 1, !.input = "write"] \in ShellState
  <2>1. r.toShell > 0 => [r EXCEPT !.toShell = r.toShell - 1] \in ShellState
    BY <1>1, ShellFields, ShellBuffers
  <2> QED
    BY <2>1, ShellFields
<1>6. r.toDocker < Buffer => [r EXCEPT !.toDocker = @ + 1, !.input = "receive"] \in ShellState
  <2>1. r.toDocker < Buffer => [r EXCEPT !.toDocker = r.toDocker + 1] \in ShellState
    BY <1>1, ShellFields, ShellBuffers
  <2> QED
    BY <2>1, ShellFields
<1>7. CASE ExecAttach(c)
  BY <1>1, <1>2, <1>3, <1>7, ShellMoves DEF ExecAttach, Moves
<1>8. CASE Receive(c)
  BY <1>1, <1>4, <1>5, <1>8, ShellMoves DEF Receive, Moves
<1>9. CASE Write(c)
  BY <1>1, <1>2, <1>6, <1>9, ShellMoves DEF Write, Moves
<1> QED
  BY <1>7, <1>8, <1>9 DEF InputStep

\* The goroutine that reads from Docker and sends to the browser.
LEMMA OutputType ==
  ASSUME SessionsTypeOK, NEW c \in Shell, OutputStep(c) \/ ReadOutput(c)
  PROVE  SessionsTypeOK'
<1> DEFINE r == shell[c]
<1>1. r \in ShellState /\ work \in Nat
  BY DEF SessionsTypeOK
<1>2. /\ [r EXCEPT !.output = "done"] \in ShellState
      /\ [r EXCEPT !.output = "send"] \in ShellState
      /\ [r EXCEPT !.output = "read"] \in ShellState
  BY <1>1, ShellFields
<1>3. r.toBrowser < Buffer => [r EXCEPT !.toBrowser = @ + 1, !.output = "read"] \in ShellState
  <2>1. r.toBrowser < Buffer => [r EXCEPT !.toBrowser = r.toBrowser + 1] \in ShellState
    BY <1>1, ShellFields, ShellBuffers
  <2> QED
    BY <2>1, ShellFields
<1>4. CASE ReadEnds(c) \/ ReadOutput(c)
  BY <1>1, <1>2, <1>4, ShellMoves DEF ReadEnds, ReadOutput, Moves
<1>5. CASE Send(c)
  BY <1>1, <1>2, <1>3, <1>5, ShellMoves DEF Send, Moves
<1> QED
  BY <1>4, <1>5 DEF OutputStep

\* The browser and the container.
LEMMA ShellEndsType ==
  ASSUME SessionsTypeOK, NEW c \in Shell,
         \/ ExecHandler(c) \/ Types(c) \/ Shows(c) \/ Leaves(c)
         \/ ContainerReads(c) \/ ContainerEnds(c)
  PROVE  SessionsTypeOK'
<1> DEFINE r == shell[c]
<1>1. r \in ShellState /\ work \in Nat
  BY DEF SessionsTypeOK
<1>2. [r EXCEPT !.browser = "open", !.input = "create"] \in ShellState
  <2>1. [r EXCEPT !.browser = "open"] \in ShellState
    BY <1>1, ShellFields
  <2> QED
    BY <2>1, ShellFields
<1>3. /\ r.toShell < Buffer => [r EXCEPT !.toShell = @ + 1] \in ShellState
      /\ r.toBrowser > 0 => [r EXCEPT !.toBrowser = @ - 1] \in ShellState
      /\ r.toDocker > 0 => [r EXCEPT !.toDocker = @ - 1] \in ShellState
  BY <1>1, ShellFields, ShellBuffers
<1>4. /\ [r EXCEPT !.browser = "left"] \in ShellState
      /\ [r EXCEPT !.docker = "ended"] \in ShellState
  BY <1>1, ShellFields
<1>5. CASE ExecHandler(c)
  BY <1>2, <1>5, ShellMoves, SessionWorkCounted DEF ExecHandler
<1>6. CASE Types(c)
  BY <1>3, <1>6, ShellMoves, SessionWorkCounted DEF Types
<1>7. CASE Shows(c) \/ ContainerReads(c)
  BY <1>1, <1>3, <1>7, ShellMoves DEF Shows, ContainerReads, Moves
<1>8. CASE Leaves(c) \/ ContainerEnds(c)
  BY <1>1, <1>4, <1>8, ShellMoves DEF Leaves, ContainerEnds, Moves
<1> QED
  BY <1>5, <1>6, <1>7, <1>8

LEMMA StreamType ==
  ASSUME SessionsTypeOK, NEW c \in Stream,
         \/ \E kind \in {"events", "log"} : Connect(c, kind)
         \/ Disconnect(c) \/ Tick(c) \/ LogEnds(c) \/ Fetched(c) \/ BrowserGone(c)
  PROVE  SessionsTypeOK'
<1>1. /\ stream \in [Stream -> StreamState] /\ stream[c] \in StreamState
      /\ clients \in SUBSET Stream /\ work \in Nat
  BY DEF SessionsTypeOK
<1>2. stream' \in [Stream -> StreamState]
  BY <1>1 DEF Connect, Disconnect, Tick, LogEnds, Fetched, BrowserGone, At, StreamState
<1>3. clients' \in SUBSET Stream /\ UNCHANGED shell
  BY <1>1 DEF Connect, Disconnect, Tick, LogEnds, Fetched, BrowserGone, At
<1>4. work' \in Nat
  BY <1>1, SessionWorkCounted DEF Connect, Disconnect, Tick, LogEnds, Fetched, BrowserGone, At
<1> QED
  BY <1>2, <1>3, <1>4 DEF SessionsTypeOK

LEMMA SessionsTypeStep == SessionsTypeOK /\ [SessionsNext]_sessionVars => SessionsTypeOK'
<1>1. SessionsTypeOK /\ UNCHANGED sessionVars => SessionsTypeOK'
  BY DEF sessionVars, SessionsTypeOK
<1> QED
  BY <1>1, InputType, OutputType, ShellEndsType, StreamType DEF SessionsNext

\* Types hold in every reachable state, and no buffer takes more than fits.
THEOREM SessionsTypeCorrect == SessionsSpec => []SessionsTypeOK
BY SessionsInitType, SessionsTypeStep, PTL DEF SessionsSpec

-----------------------------------------------------------------------------
\* Console: the parts that rest keep their invariants while one runs and counts
\* its work.

ConsoleInv == AlertsInv /\ ImageInv /\ SessionsTypeOK /\ ComposeInv /\ ViewsInv

LEMMA CheckersAtRest ==
  ASSUME work' \in Nat
  PROVE  /\ AlertsInv /\ UNCHANGED alertState => AlertsInv'
         /\ ImageInv /\ UNCHANGED imageState => ImageInv'
         /\ SessionsTypeOK /\ UNCHANGED sessionState => SessionsTypeOK'
<1>1. AlertsInv /\ UNCHANGED alertState => AlertsInv'
  BY DEF alertState, AlertsInv, AlertsTypeOK, TodoOK, RulesWere, StatsWere, AlertsWereTrue
<1>2. ImageInv /\ UNCHANGED imageState => ImageInv'
  BY DEF imageState, ImageInv, ImageUpdatesTypeOK, ListOK, Differed, ShownWasTrue
<1>3. SessionsTypeOK /\ UNCHANGED sessionState => SessionsTypeOK'
  BY DEF sessionState, SessionsTypeOK
<1> QED
  BY <1>1, <1>2, <1>3

LEMMA PagesAtRest ==
  ASSUME work' \in Nat
  PROVE  /\ ComposeInv /\ UNCHANGED composeState => ComposeInv'
         /\ ViewsInv /\ UNCHANGED viewState => ViewsInv'
BY ComposeAtRest, ViewsAtRest DEF composeState, viewState

LEMMA WorkTyped ==
  /\ AlertsInv => work \in Nat
  /\ ImageInv => work \in Nat
  /\ SessionsTypeOK => work \in Nat
  /\ ComposeInv => work \in Nat
  /\ ViewsInv => work \in Nat
BY DEF AlertsInv, AlertsTypeOK, ImageInv, ImageUpdatesTypeOK, SessionsTypeOK, ComposeInv, ViewsInv

LEMMA ConsoleInvInit == ConsoleInit => ConsoleInv
<1> SUFFICES ASSUME ConsoleInit PROVE ConsoleInv
  OBVIOUS
<1>1. AlertsInv /\ ImageInv /\ SessionsTypeOK
  BY AlertsInitInv, ImageInitInv, SessionsInitType DEF ConsoleInit
<1>2. work = 0
  BY DEF ConsoleInit, AlertsInit
<1>3. ComposeInv
  BY <1>2, ComposeInvInit DEF ConsoleInit
<1>4. ViewsInv
  BY <1>2, ViewsInvInit DEF ConsoleInit
<1> QED
  BY <1>1, <1>3, <1>4 DEF ConsoleInv

LEMMA ConsoleInvStep == ConsoleInv /\ [ConsoleNext]_consoleVars => ConsoleInv'
<1> SUFFICES ASSUME ConsoleInv, [ConsoleNext]_consoleVars PROVE ConsoleInv'
  OBVIOUS
<1> USE DEF ConsoleInv
<1>1. CASE AlertsRun
  <2>1. AlertsInv'
    BY <1>1, AlertsInvStep DEF AlertsRun
  <2>2. work' \in Nat
    BY <2>1 DEF AlertsInv, AlertsTypeOK
  <2> QED
    BY <1>1, <2>1, <2>2, CheckersAtRest, PagesAtRest DEF AlertsRun
<1>2. CASE ImagesRun
  <2>1. ImageInv'
    BY <1>2, ImageInvStep DEF ImagesRun
  <2>2. work' \in Nat
    BY <2>1 DEF ImageInv, ImageUpdatesTypeOK
  <2> QED
    BY <1>2, <2>1, <2>2, CheckersAtRest, PagesAtRest DEF ImagesRun
<1>3. CASE SessionsRun
  <2>1. SessionsTypeOK'
    BY <1>3, SessionsTypeStep DEF SessionsRun
  <2>2. work' \in Nat
    BY <2>1 DEF SessionsTypeOK
  <2> QED
    BY <1>3, <2>1, <2>2, CheckersAtRest, PagesAtRest DEF SessionsRun
<1>4. CASE ComposeRun
  <2>1. ComposeInv'
    BY <1>4, ComposeInvStep DEF ComposeRun
  <2>2. work' \in Nat
    BY <2>1 DEF ComposeInv
  <2> QED
    BY <1>4, <2>1, <2>2, CheckersAtRest, PagesAtRest DEF ComposeRun
<1>5. CASE ViewsRun
  <2>1. ViewsInv'
    BY <1>5, ViewsInvStep DEF ViewsRun
  <2>2. work' \in Nat
    BY <2>1 DEF ViewsInv
  <2> QED
    BY <1>5, <2>1, <2>2, CheckersAtRest, PagesAtRest DEF ViewsRun
<1>6. CASE UNCHANGED consoleVars
  <2>1. /\ UNCHANGED alertState /\ UNCHANGED imageState /\ UNCHANGED sessionState
        /\ UNCHANGED composeState /\ UNCHANGED viewState /\ UNCHANGED work
    BY <1>6 DEF consoleVars
  <2>2. work' \in Nat
    BY <2>1, WorkTyped
  <2> QED
    BY <2>1, <2>2, CheckersAtRest, PagesAtRest
<1> QED
  BY <1>1, <1>2, <1>3, <1>4, <1>5, <1>6 DEF ConsoleNext

LEMMA ConsoleInvAlways == ConsoleSpec => []ConsoleInv
BY ConsoleInvInit, ConsoleInvStep, PTL DEF ConsoleSpec

\* Whichever part runs, all types hold, and alerts and shown updates were true.
THEOREM ConsoleInvariants ==
  ConsoleSpec => [](ConsoleTypeOK /\ AlertsWereTrue /\ ShownWasTrue)
<1>1. ComposeInv => ComposeTypeOK
  BY DEF ComposeInv, ComposeTypeOK, Editor
<1>2. ConsoleInv => ConsoleTypeOK /\ AlertsWereTrue /\ ShownWasTrue
  BY <1>1, ViewsInvImplies DEF ConsoleInv, ConsoleTypeOK, AlertsInv, ImageInv
<1> QED
  BY <1>2, ConsoleInvAlways, PTL

\* The stack editor keeps its promise as a part of the console.
THEOREM ConsoleSavesOnlyTheEdit == ConsoleSpec => SaveChangesOnlyEdit
<1>1. ConsoleInv /\ [ConsoleNext]_consoleVars =>
        ComposeInv /\ [ComposeNext]_<<running, network, editor>>
  BY DEF ConsoleInv, ConsoleNext, AlertsRun, ImagesRun, SessionsRun, ComposeRun, ViewsRun,
     consoleVars, composeState
<1>2. ComposeInv /\ [ComposeNext]_<<running, network, editor>> =>
        (/\ editor.phase = "open" /\ editor'.phase = "saved"
         /\ editor.services = running /\ editor.networks = network
         => \A s \in StackService :
              LET old == running[s]  new == running'[s]
              IN /\ old.there /\ ~old.extra /\ old.halves % 2 = 0
                 /\ \A n \in old.nets : ClearName(n)
                 => new = [old EXCEPT !.image = IF s \in editor.edited THEN new.image ELSE @])
  BY SaveStep, SavedService DEF composeVars
<1> QED
  BY <1>1, <1>2, ConsoleInvAlways, PTL DEF ConsoleSpec, SaveChangesOnlyEdit
=============================================================================
