------------------------------- MODULE Console -------------------------------
(***************************************************************************)
(* What an operator looks at and works with: lists, the editor of a stack, *)
(* alerts, image updates, shells and streams.  The parts share no          *)
(* variable; a behaviour of this module is one of one of them, with the    *)
(* others at rest.                                                         *)
(***************************************************************************)
EXTENDS Alerts, ImageUpdates, Sessions, Compose, Views

VARIABLE focus   \* the part that runs

alertState   == <<rules, stats, check, history, rows, reports>>
imageState   == <<deployed, image, remote, data, checker, ran, published>>
sessionState == <<shell, stream, clients>>
composeState == <<running, network, editor>>
viewState    == <<services, tasks, networks, list, reader, shown>>

consoleVars == <<alertState, imageState, sessionState, composeState, viewState, work, focus>>

AlertsRun == /\ focus = "alerts" /\ AlertsNext
             /\ UNCHANGED <<imageState, sessionState, composeState, viewState, focus>>
ImagesRun == /\ focus = "images" /\ ImageUpdatesNext
             /\ UNCHANGED <<alertState, sessionState, composeState, viewState, focus>>
SessionsRun == /\ focus = "sessions" /\ SessionsNext
               /\ UNCHANGED <<alertState, imageState, composeState, viewState, focus>>
ComposeRun == /\ focus = "compose" /\ ComposeNext
              /\ UNCHANGED <<alertState, imageState, sessionState, viewState, focus>>
ViewsRun == /\ focus = "views" /\ ViewsNext
            /\ UNCHANGED <<alertState, imageState, sessionState, composeState, focus>>

ConsoleNext == AlertsRun \/ ImagesRun \/ SessionsRun \/ ComposeRun \/ ViewsRun

\* One state of rest for the two parts that begin in many.
ConsoleInit ==
  /\ focus \in {"alerts", "images", "sessions", "compose", "views"}
  /\ AlertsInit /\ ImageUpdatesInit /\ SessionsInit
  /\ IF focus = "compose" THEN ComposeInit
     ELSE /\ network = [n \in NetId |-> Unused] /\ editor = Closed
          /\ running = [s \in StackService |-> Gone]
  /\ IF focus = "views" THEN ViewsInit
     ELSE /\ services = NoServices /\ tasks = NoTasks /\ networks = {}
          /\ list = [p \in Reader |-> "services"] /\ reader = NoReader
          /\ shown = [p \in Reader |-> Answer("services", NoServices, NoTasks, {})]

\* The two checkers wake up again and again, and their calls return; goroutines
\* that can move do; the container of a shell reads its input; the end of a
\* request, which a select offers beside the ticker, is taken some time; lists
\* that have a stream are read again by its ticker.
ConsoleFair ==
  /\ WF_alertVars(focus = "alerts" /\ CheckStep)
  /\ WF_imageVars(focus = "images" /\ ListServices(Loop))
  /\ \A k \in Checker : WF_imageVars(focus = "images" /\ CheckerStep(k))
  /\ \A c \in Shell : /\ WF_sessionVars(focus = "sessions" /\ InputStep(c))
                      /\ WF_sessionVars(focus = "sessions" /\ OutputStep(c))
                      /\ WF_sessionVars(focus = "sessions" /\ ContainerReads(c))
  /\ \A c \in Stream : /\ SF_sessionVars(focus = "sessions" /\ Disconnect(c))
                       /\ WF_sessionVars(focus = "sessions" /\ Fetched(c))
  /\ \A p \in Reader : WF_viewVars(focus = "views" /\ list[p] \in Streamed /\ Read(p))

ConsoleSpec == ConsoleInit /\ [][ConsoleNext]_consoleVars /\ ConsoleFair

\* Types.
ConsoleTypeOK ==
  /\ AlertsTypeOK /\ ImageUpdatesTypeOK /\ SessionsTypeOK
  /\ ComposeTypeOK /\ ViewsTypeOK
=============================================================================
