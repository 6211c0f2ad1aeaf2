----------------------------- MODULE McpServer -----------------------------
(***************************************************************************)
(* The MCP widget: a server that hands tool calls to the browser over the  *)
(* common websocket and keeps long commands as tasks (widgets/             *)
(* widget-mcp-server.js, mcp/server/*.js, started by load-widget.js).      *)
(*                                                                         *)
(* An operation is one handler that awaits one request to the browser at a *)
(* time.  Handlers of different calls interleave at their awaits and meet  *)
(* in the table of tasks; answers may come late, wrong or never.           *)
(***************************************************************************)
EXTENDS Naturals, Sequences, FiniteSets

CONSTANTS
    Op,         \* operations that may be under way at a time
    Task,       \* background commands and their tasks
    MaxTasks,   \* taskManager.maxTasks
    MaxSockets  \* bound on the common websockets of the browser

ASSUME McpAssumption ==
    /\ MaxTasks \in Nat \ {0} /\ MaxSockets \in Nat \ {0}
    /\ IsFiniteSet(Task)

VARIABLES
    life,       \* the instance: off, starting, up, stopping
    socket,     \* the common websocket there is, by number
    handlerOn,  \* the one whose messages ipcHandler sees, or 0
    op,         \* what an operation awaits
    status,     \* of a task: none, working, completed, failed, cancelled, then gone
                \* (evicted or swept) or lost (dropped when the server stopped)
    order,      \* the tasks of the table, oldest first
    job         \* the command in the browser: none, running, done, killed; swept
                \* when its task is forgotten

mcpVars == <<life, socket, handlerOn, op, status, order, job>>
table == <<status, order>>

Terminal == {"completed", "failed", "cancelled"}
Free == [kind |-> "none", task |-> "none", socket |-> 0, did |-> FALSE, saw |-> "none"]
Busy(o) == op[o].kind # "none"
Kept == {t \in Task : status[t] \in Terminal \cup {"working"}}

McpTypeOK ==
    /\ life \in {"off", "starting", "up", "stopping"}
    /\ socket \in 1 .. MaxSockets /\ handlerOn \in 0 .. MaxSockets
    /\ op \in [Op -> [kind : {"none", "tool", "run", "status", "log", "cancel"},
                      task : Task \cup {"none"}, socket : 0 .. MaxSockets, did : BOOLEAN,
                      saw : {"none", "running", "done", "killed", "swept"}]]
    /\ status \in [Task -> Terminal \cup {"none", "working", "gone", "lost"}]
    /\ order \in Seq(Task)
    /\ job \in [Task -> {"none", "running", "done", "killed", "swept"}]

McpInit ==
    /\ life = "off" /\ socket = 1 /\ handlerOn = 0
    /\ op = [o \in Op |-> Free]
    /\ status = [t \in Task |-> "none"] /\ order = <<>>
    /\ job = [t \in Task |-> "none"]

-----------------------------------------------------------------------------
(* The widget instance.                                                    *)

\* runWidget, one instance at a time: the answers of the browser are heard on the
\* common websocket of this moment.  (Bound: no restart once a command was run.)
Start ==
    /\ life = "off" /\ \A t \in Task : job[t] = "none"
    /\ life' = "starting" /\ handlerOn' = socket
    /\ UNCHANGED <<socket, op, table, job>>

Listening == life = "starting" /\ life' = "up"
             /\ UNCHANGED <<socket, handlerOn, op, table, job>>

\* (Mutant) stop clears the timers and leaves the promises.
RejectedNone == op

\* stop rejects what is pending; every handler ends with an error.
Rejected == [o \in Op |-> Free]

\* stop.  The tasks are dropped as they are: their commands and files stay.
Stop ==
    /\ handlerOn' = 0
    /\ op' = Rejected
    /\ status' = [t \in Task |-> IF t \in Kept THEN "lost" ELSE status[t]]
    /\ order' = <<>>
    /\ job' = [t \in Task |-> IF t \in Kept THEN "swept" ELSE job[t]]
    /\ UNCHANGED socket

\* The port is taken: runWidget forgets the instance before it stops it.
StartFails == life = "starting" /\ life' = "off" /\ Stop

StopWidget == life = "up" /\ life' = "stopping" /\ Stop

\* SIGTERM, which the process survives.
Cleanup == life \in {"starting", "up"} /\ life' = "stopping" /\ Stop

\* The HTTP server has closed (which waits for streams that clients keep open).
Stopped == life = "stopping" /\ life' = "off"
           /\ UNCHANGED <<socket, handlerOn, op, table, job>>

\* The browser reconnects.  The handler stays where it is.
Reconnect == life # "stopping" /\ socket < MaxSockets /\ socket' = socket + 1
             /\ UNCHANGED <<life, handlerOn, op, table, job>>

-----------------------------------------------------------------------------
(* Calls of the clients.                                                   *)

\* sendToRenderer, with its timer.
Request(kind, t) == [kind |-> kind, task |-> t, socket |-> socket, did |-> FALSE, saw |-> "none"]

\* A call takes a free place, no matter which.
Place == CHOOSE o \in Op : ~Busy(o)
Call(kind, t) ==
    /\ life = "up" /\ \E o \in Op : ~Busy(o)
    /\ op' = [op EXCEPT ![Place] = Request(kind, t)]
    /\ UNCHANGED <<life, socket, handlerOn, table, job>>

\* Ids are fresh: which one is taken does not matter.
Unused == {t \in Task : status[t] = "none" /\ job[t] = "none" /\ \A o \in Op : op[o].task # t}

\* A tool that is one request to the browser.  (Bound: it meets no task, and is called
\* before the first command is.)
Tool == Unused = Task /\ Call("tool", "none")

\* execute_electerm_command with wait=false (from a client that knows tasks).
Run == Unused # {} /\ Call("run", CHOOSE t \in Unused : TRUE)

\* tasks/get of a working task: refreshTask.
Get(t) == status[t] = "working" /\ Call("status", t)

\* "Cancelling a terminal task is a no-op."
Cancellable(t) == status[t] = "working"

\* tasks/cancel: the process first.
Cancel(t) == Cancellable(t) /\ Call("cancel", t)

-----------------------------------------------------------------------------
(* The browser.                                                            *)

\* It does what a request asks for, if the request's websocket is still its own.
Renderer(o) ==
    LET t == op[o].task IN
    /\ Busy(o) /\ ~op[o].did /\ op[o].socket = socket
    /\ op' = [op EXCEPT ![o].did = TRUE, ![o].saw = IF op[o].kind = "status" THEN job[t] ELSE "none"]
    /\ job' = CASE op[o].kind = "run" -> [job EXCEPT ![t] = "running"]
                [] op[o].kind = "cancel" -> [job EXCEPT ![t] = IF @ = "running" THEN "killed" ELSE @]
                [] OTHER -> job
    /\ UNCHANGED <<life, socket, handlerOn, table>>

JobEnds(t) ==
    /\ t \in Kept /\ job[t] = "running"
    /\ job' = [job EXCEPT ![t] = "done"]
    /\ UNCHANGED <<life, socket, handlerOn, op, table>>

-----------------------------------------------------------------------------
(* The table of tasks.                                                     *)

\* _evictOldest takes the oldest task that has ended, or else the oldest of all.
Victim ==
    LET ended == {i \in DOMAIN order : status[order[i]] \in Terminal}
        among == IF ended = {} THEN DOMAIN order ELSE ended
    IN  order[CHOOSE i \in among : \A j \in among : i <= j]

Without(t) ==
    LET at == CHOOSE i \in DOMAIN order : order[i] = t
    IN  SubSeq(order, 1, at - 1) \o SubSeq(order, at + 1, Len(order))

\* onSweep asks the browser to remove the files of the command; nobody looks whether
\* it does.
Swept(t) == job' = [job EXCEPT ![t] = "swept"]

\* create: a new working task, in the place of another when the table is full.
Create(t) ==
    IF Cardinality(Kept) < MaxTasks
    THEN /\ status' = [status EXCEPT ![t] = "working"]
         /\ order' = Append(order, t)
         /\ UNCHANGED job
    ELSE /\ status' = [status EXCEPT ![t] = "working", ![Victim] = "gone"]
         /\ order' = Append(Without(Victim), t)
         /\ Swept(Victim)

\* (Mutant) The outcome is entered whatever the status is by now.
EnteredAlways(t, s) == [status EXCEPT ![t] = IF @ = "gone" THEN @ ELSE s]

\* complete, fail, cancelLocal: only a working task, which is still in the table, gets
\* an outcome.
Entered(t, s) == [status EXCEPT ![t] = IF @ = "working" THEN s ELSE @]

\* _markCancelled after the await of cancel looks at nothing: a task that has ended in
\* between becomes cancelled too.
Marked(t) == [status EXCEPT ![t] = IF @ = "gone" THEN @ ELSE "cancelled"]

\* sweep: the time of a task that has ended is over.
Sweep(t) ==
    /\ life = "up" /\ status[t] \in Terminal
    /\ status' = [status EXCEPT ![t] = "gone"]
    /\ order' = Without(t) /\ Swept(t)
    /\ UNCHANGED <<life, socket, handlerOn, op>>

-----------------------------------------------------------------------------
(* Answers.                                                                *)

\* (Mutant) A command that still runs counts as done.
FinishedOrGone(saw) == saw \in {"done", "running"}

\* The browser says that the command has ended.
Finished(saw) == saw = "done"

\* ipcHandler: the answer to the request of o, on the websocket it listens to.
Answered(o) ==
    LET t == op[o].task  kind == op[o].kind IN
    /\ life = "up" /\ op[o].did /\ op[o].socket = handlerOn
    /\ op' = [op EXCEPT ![o] = IF kind = "status" /\ Finished(op[o].saw)
                               THEN Request("log", t) ELSE Free]
    /\ \/ kind = "run" /\ Create(t)
       \/ kind # "run" /\ UNCHANGED <<order, job>> /\ status' =
             CASE kind = "log" -> Entered(t, "completed")
               [] kind = "cancel" -> Marked(t)
               [] kind = "status" /\ op[o].saw = "killed" -> Entered(t, "cancelled")
               [] kind = "status" /\ op[o].saw \in {"none", "swept"} -> Entered(t, "failed")
               [] OTHER -> status
    /\ UNCHANGED <<life, socket, handlerOn>>

\* The request of o fails in the browser, or its timer fires: a refresh fails the
\* task, a cancel marks it all the same.
Failed(o) ==
    LET t == op[o].task  kind == op[o].kind IN
    /\ life = "up" /\ Busy(o)
    /\ status' = CASE kind \in {"status", "log"} -> Entered(t, "failed")
                   [] kind = "cancel" -> Marked(t)
                   [] OTHER -> status
    /\ op' = [op EXCEPT ![o] = Free]
    /\ UNCHANGED <<life, socket, handlerOn, order, job>>

-----------------------------------------------------------------------------
McpNext ==
    \/ Start \/ Listening \/ StartFails \/ StopWidget \/ Cleanup \/ Stopped \/ Reconnect
    \/ Tool \/ Run
    \/ \E o \in Op : Renderer(o) \/ Answered(o) \/ Failed(o)
    \/ \E t \in Task : Get(t) \/ Cancel(t) \/ JobEnds(t) \/ Sweep(t)

\* Only the timers of the requests are certain.
McpSpec == McpInit /\ [][McpNext]_mcpVars /\ \A o \in Op : WF_mcpVars(Failed(o))

-----------------------------------------------------------------------------
(* Properties.                                                             *)

\* A task that is reported complete stands for a command that has ended.
CompleteIsDone == \A t \in Task : status[t] = "completed" => job[t] = "done"

\* The table and its order agree, and it keeps to its size.
TableSound ==
    /\ {order[i] : i \in DOMAIN order} = Kept /\ Len(order) = Cardinality(Kept)
    /\ Cardinality(Kept) <= MaxTasks

McpInv == McpTypeOK /\ CompleteIsDone /\ TableSound

\* The outcome of a task is final, whatever refreshes are still under way: it is only
\* forgotten, or overtaken by a cancel that was accepted while the task was working.
OutcomeStays ==
    [][\A t \in Task : status[t] \in Terminal /\ status'[t] # status[t] =>
          \/ status'[t] \in {"gone", "lost"}
          \/ status'[t] = "cancelled" /\ \E o \in Op : op[o].kind = "cancel" /\ op[o].task = t]_mcpVars

\* Every call is answered, by the browser, the timer or the end of the server.
CallsEnd == \A o \in Op : Busy(o) ~> ~Busy(o)
=============================================================================
