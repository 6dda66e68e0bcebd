---------------------------- MODULE ClientStream ----------------------------
(***************************************************************************)
(* The output path of one attached client: from the goroutine that reads a *)
(* pane's PTY, through the session event loop, to the client's writer      *)
(* goroutine and the wire.  The attach handshake takes a snapshot of every *)
(* pane while output keeps flowing; the writer parks live traffic until    *)
(* the snapshot is on the wire and then drops what the snapshot contains.  *)
(*                                                                         *)
(* Output is abstracted to the sequence number applyOutput gives it, a     *)
(* layout to the generation it was broadcast under.  The model follows one *)
(* client: writers share no state with one another.                        *)
(***************************************************************************)
EXTENDS Integers, Sequences

CONSTANTS
  Panes,        \* pane IDs
  Redrawn,      \* panes a focus, reset or window command re-renders
  Respawned,    \* panes `amux respawn` restarts
  MaxLoad,      \* bound: outputs, wakings of idle panes, and commands of
                \* other clients, in a behaviour
  EventCap,     \* capacity of the session event channel (128)
  QueueCap      \* capacity of each writer channel (4096)

ASSUME PanesAssumption == Redrawn \subseteq Panes /\ Respawned \subseteq Panes
ASSUME BoundAssumption == MaxLoad \in Nat
ASSUME CapAssumption == EventCap \in Nat \ {0} /\ QueueCap \in Nat \ {0}

VARIABLES
  outputSeq,     \* Pane.outputSeq
  reader,        \* output a readLoop has applied and not yet enqueued, or 0
  orphan,        \* the same for the readLoop of a replaced pane instance
  load,          \* outputs, wakings and commands so far
  events,        \* the session event channel
  generation,    \* Session.generation
  registered,    \* the client is in clientManager.clients
  conn,          \* where the connection's handler goroutine is
  snap,          \* attachResult: sequence number of every pane's snapshot
  snapGen,       \* attachResult: generation of the layout snapshot
  announce,      \* attachResult: not layoutBroadcasted
  unsent,        \* panes whose snapshot the handler has still to send
  commands,      \* clientWriter.commands
  paneCommands,  \* clientWriter.paneCommands
  stop,          \* clientWriter.stop is closed
  wpc,           \* where clientWriter.loop is
  bootstrapping, \* clientWriterState.bootstrapping
  minOutputSeq,  \* clientWriterState.minOutputSeq
  pending,       \* clientWriterState.pendingMessages
  screen,        \* per pane, what was written to the wire, in order
  layouts,       \* layout generations written to the wire, in order
  lost           \* per pane, output dropped because paneCommands was full

paneVars == <<outputSeq, reader, orphan>>
loopVars == <<events, generation, registered>>
handlerVars == <<conn, snap, snapGen, announce, unsent>>
writerVars == <<wpc, bootstrapping, minOutputSeq, pending>>
wireVars == <<screen, layouts>>
vars == <<paneVars, load, loopVars, handlerVars, commands,
          paneCommands, stop, writerVars, wireVars, lost>>

\* Panes whose stream only ever carries their own output.
Plain == Panes \ (Redrawn \cup Respawned)

Output(p, n) == [type |-> "output", pane |-> p, seq |-> n]
Render(p, n) == [type |-> "render", pane |-> p, seq |-> n]
Broadcast(g) == [type |-> "broadcast", gen |-> g]

Chunk == [type : {"output", "render"}, pane : Panes, seq : Nat]
PaneCommand == [type : {"redraw", "respawn"}, pane : Panes]
Event == [type : {"output"}, pane : Panes, seq : Nat]
         \cup PaneCommand
         \cup [type : {"layout", "announce", "attach", "detach"}]
Parked == Chunk \cup [type : {"broadcast"}, gen : Nat]
Command == [type : {"start", "finish"}]
           \cup [type : {"layout", "broadcast"}, gen : Nat]
           \cup [type : {"screen"}, pane : Panes, seq : Nat]
Requests == [type : {"redraw"}, pane : Redrawn]
            \cup [type : {"respawn"}, pane : Respawned]
            \cup [type : {"layout"}]
HandlerStates == {"accepted", "starting", "started", "attaching", "layout",
                  "screens", "finishing", "finished", "announcing", "live",
                  "closing", "closed"}

Init ==
  /\ outputSeq = [p \in Panes |-> 0]
  /\ reader = [p \in Panes |-> 0]
  /\ orphan = [p \in Panes |-> 0]
  /\ load = 0
  /\ events = << >>
  /\ generation = 0
  /\ registered = FALSE
  /\ conn = "accepted"
  /\ snap = [p \in Panes |-> 0]
  /\ snapGen = 0
  /\ announce = FALSE
  /\ unsent = {}
  /\ commands = << >>
  /\ paneCommands = << >>
  /\ stop = FALSE
  /\ wpc = "poll"
  /\ bootstrapping = FALSE
  /\ minOutputSeq = [p \in Panes |-> 0]
  /\ pending = << >>
  /\ screen = [p \in Panes |-> << >>]
  /\ layouts = << >>
  /\ lost = [p \in Panes |-> {}]

-----------------------------------------------------------------------------
(* The readLoop of a pane.                                                 *)

\* Faulty variant: the callback gets the counter before the increment.
ApplyOutputMiscounted(p) ==
  /\ reader[p] = 0
  /\ load < MaxLoad
  /\ load' = load + 1
  /\ outputSeq' = [outputSeq EXCEPT ![p] = @ + 1]
  /\ reader' = [reader EXCEPT ![p] = outputSeq[p] - 1]
  /\ UNCHANGED <<orphan, loopVars, handlerVars, commands,
                 paneCommands, stop, writerVars, wireVars, lost>>

\* readLoop applies what it read to the emulator (applyOutput, one step of
\* the pane actor) ...
ApplyOutput(p) ==
  /\ reader[p] = 0
  /\ load < MaxLoad
  /\ load' = load + 1
  /\ outputSeq' = [outputSeq EXCEPT ![p] = @ + 1]
  /\ reader' = [reader EXCEPT ![p] = outputSeq[p] + 1]
  /\ UNCHANGED <<orphan, loopVars, handlerVars, commands,
                 paneCommands, stop, writerVars, wireVars, lost>>

\* ... and then hands it to the session through onOutput.
EnqueuePaneOutput(p) ==
  /\ reader[p] # 0
  /\ Len(events) < EventCap
  /\ events' = Append(events, Output(p, reader[p]))
  /\ reader' = [reader EXCEPT ![p] = 0]
  /\ UNCHANGED <<outputSeq, orphan, load, generation, registered,
                 handlerVars, commands, paneCommands, stop, writerVars,
                 wireVars, lost>>

\* The readLoop of an instance that was replaced between the two steps: only
\* the check before applyOutput looks at suppressCallbacks.
EnqueueOrphanOutput(p) ==
  /\ orphan[p] # 0
  /\ Len(events) < EventCap
  /\ events' = Append(events, Output(p, orphan[p]))
  /\ orphan' = [orphan EXCEPT ![p] = 0]
  /\ UNCHANGED <<outputSeq, reader, load, generation, registered,
                 handlerVars, commands, paneCommands, stop, writerVars,
                 wireVars, lost>>

-----------------------------------------------------------------------------
(* Requests of other clients, as events of the session.                    *)

\* A command that redraws or respawns a pane, or changes the layout.
IssueCommand ==
  /\ load < MaxLoad
  /\ load' = load + 1
  /\ Len(events) < EventCap
  /\ \E c \in Requests : events' = Append(events, c)
  /\ UNCHANGED <<paneVars, generation, registered, handlerVars, commands,
                 paneCommands, stop, writerVars, wireVars, lost>>

-----------------------------------------------------------------------------
(* The session event loop.                                                 *)

\* enqueueAsync and enqueueAsyncPane: never block the loop, drop when full.
WriterRuns == ~stop /\ wpc # "done"

SendBroadcast(g) ==
  commands' = IF registered' /\ WriterRuns /\ Len(commands) < QueueCap
                THEN Append(commands, Broadcast(g)) ELSE commands

SendPane(c) ==
  paneCommands' = IF registered /\ WriterRuns /\ Len(paneCommands) < QueueCap
                    THEN Append(paneCommands, c) ELSE paneCommands

TakeEvent(t) ==
  /\ events # << >>
  /\ Head(events).type = t
  /\ events' = Tail(events)

\* paneOutputEvent: broadcastPaneOutputNow to the client.  Output of a pane that
\* was idle also broadcasts the layout, which shows the pane busy again.
HandlePaneOutput ==
  /\ TakeEvent("output")
  /\ LET e == Head(events) IN
       /\ SendPane(Output(e.pane, e.seq))
       /\ lost' = IF registered /\ WriterRuns /\ Len(paneCommands) >= QueueCap
                    THEN [lost EXCEPT ![e.pane] = @ \cup {e.seq}] ELSE lost
  /\ UNCHANGED registered
  /\ \/ UNCHANGED <<load, generation, commands>>
     \/ /\ load < MaxLoad
        /\ load' = load + 1
        /\ generation' = generation + 1
        /\ SendBroadcast(generation + 1)
  /\ UNCHANGED <<paneVars, handlerVars, stop, writerVars, wireVars>>

\* A focus, reset or window command: the pane is rendered on the loop, and
\* the render broadcast without a sequence number.
HandleRedraw ==
  /\ TakeEvent("redraw")
  /\ LET p == Head(events).pane IN SendPane(Render(p, outputSeq[p]))
  /\ UNCHANGED <<paneVars, load, generation, registered,
                 handlerVars, commands, stop, writerVars, wireVars, lost>>

\* cmdRespawn: replacePaneInstance puts a new pane with the same ID and a
\* sequence counter of its own in place, then a cleared screen is broadcast.
HandleRespawn ==
  /\ TakeEvent("respawn")
  /\ LET p == Head(events).pane IN
       /\ outputSeq' = [outputSeq EXCEPT ![p] = 0]
       /\ orphan' = [orphan EXCEPT ![p] = reader[p]]
       /\ reader' = [reader EXCEPT ![p] = 0]
       /\ SendPane(Render(p, 0))
  /\ UNCHANGED <<load, generation, registered, handlerVars,
                 commands, stop, writerVars, wireVars, lost>>

\* broadcastLayoutNow.
HandleLayout ==
  /\ TakeEvent("layout")
  /\ generation' = generation + 1
  /\ UNCHANGED registered
  /\ SendBroadcast(generation + 1)
  /\ UNCHANGED <<paneVars, load, handlerVars, paneCommands, stop,
                 writerVars, wireVars, lost>>

\* The broadcastLayout query that ends handleAttach.
HandleAnnounce ==
  /\ TakeEvent("announce")
  /\ generation' = generation + 1
  /\ UNCHANGED registered
  /\ SendBroadcast(generation + 1)
  /\ conn' = "live"
  /\ UNCHANGED <<paneVars, load, snap, snapGen, announce, unsent,
                 paneCommands, stop, writerVars, wireVars, lost>>

\* handleAttachEvent: register, re-negotiate the size (which may change the
\* layout and then broadcasts it, to the new client too), take the snapshots.
HandleAttach ==
  /\ TakeEvent("attach")
  /\ registered' = TRUE
  /\ \E changed \in BOOLEAN :
       /\ announce' = ~changed
       /\ generation' = IF changed THEN generation + 1 ELSE generation
       /\ IF changed THEN SendBroadcast(generation + 1) ELSE UNCHANGED commands
  /\ snap' = outputSeq
  /\ snapGen' = generation'
  /\ unsent' = Panes
  /\ conn' = "layout"
  /\ UNCHANGED <<paneVars, load, paneCommands, stop, writerVars,
                 wireVars, lost>>

HandleDetach ==
  /\ TakeEvent("detach")
  /\ registered' = FALSE
  /\ UNCHANGED <<paneVars, load, generation, handlerVars, commands,
                 paneCommands, stop, writerVars, wireVars, lost>>

-----------------------------------------------------------------------------
(* handleAttach, on the connection's goroutine.                            *)

\* send and the bootstrap calls block while the commands channel is full.
Enqueue(c) ==
  /\ WriterRuns
  /\ Len(commands) < QueueCap
  /\ commands' = Append(commands, c)

StartBootstrap ==
  /\ conn = "accepted"
  /\ Enqueue([type |-> "start"])
  /\ conn' = "starting"
  /\ UNCHANGED <<paneVars, load, loopVars, snap, snapGen, announce,
                 unsent, paneCommands, stop, writerVars, wireVars, lost>>

EnqueueAttachClient ==
  /\ conn = "started"
  /\ Len(events) < EventCap
  /\ events' = Append(events, [type |-> "attach"])
  /\ conn' = "attaching"
  /\ UNCHANGED <<paneVars, load, generation, registered, snap,
                 snapGen, announce, unsent, commands, paneCommands, stop,
                 writerVars, wireVars, lost>>

SendLayout ==
  /\ conn = "layout"
  /\ Enqueue([type |-> "layout", gen |-> snapGen])
  /\ conn' = "screens"
  /\ UNCHANGED <<paneVars, load, loopVars, snap, snapGen, announce,
                 unsent, paneCommands, stop, writerVars, wireVars, lost>>

SendScreen(p) ==
  /\ conn = "screens"
  /\ p \in unsent
  /\ Enqueue([type |-> "screen", pane |-> p, seq |-> snap[p]])
  /\ unsent' = unsent \ {p}
  /\ UNCHANGED <<paneVars, load, loopVars, conn, snap, snapGen,
                 announce, paneCommands, stop, writerVars, wireVars, lost>>

\* Send returns net.ErrClosed once the writer has exited: handleAttach closes
\* the connection and returns, and nothing detaches the registered client.
\* (Its other early return, a first window that cannot be created, needs a
\* session without windows: SessionClients models it.)
AbandonAttach ==
  /\ conn = "layout" \/ (conn = "screens" /\ unsent # {})
  /\ ~WriterRuns
  /\ conn' = "closed"
  /\ stop' = TRUE
  /\ UNCHANGED <<paneVars, load, loopVars, snap, snapGen, announce,
                 unsent, commands, paneCommands, writerVars, wireVars, lost>>

FinishBootstrap ==
  /\ conn = "screens"
  /\ unsent = {}
  /\ Enqueue([type |-> "finish"])
  /\ conn' = "finishing"
  /\ UNCHANGED <<paneVars, load, loopVars, snap, snapGen, announce,
                 unsent, paneCommands, stop, writerVars, wireVars, lost>>

\* finishBootstrap gives up silently when the writer is gone.
FinishWithoutWriter ==
  /\ conn = "finishing" \/ (conn = "screens" /\ unsent = {})
  /\ ~WriterRuns
  /\ conn' = "finished"
  /\ UNCHANGED <<paneVars, load, loopVars, snap, snapGen, announce,
                 unsent, commands, paneCommands, stop, writerVars, wireVars,
                 lost>>

AnnounceAttach ==
  /\ conn = "finished"
  /\ IF announce
       THEN /\ Len(events) < EventCap
            /\ events' = Append(events, [type |-> "announce"])
            /\ conn' = "announcing"
       ELSE /\ UNCHANGED events
            /\ conn' = "live"
  /\ UNCHANGED <<paneVars, load, generation, registered, snap,
                 snapGen, announce, unsent, commands, paneCommands, stop,
                 writerVars, wireVars, lost>>

\* readLoop returns: the deferred calls enqueue the detach, then close.
EnqueueDetachClient ==
  /\ conn = "live"
  /\ Len(events) < EventCap
  /\ events' = Append(events, [type |-> "detach"])
  /\ conn' = "closing"
  /\ UNCHANGED <<paneVars, load, generation, registered, snap,
                 snapGen, announce, unsent, commands, paneCommands, stop,
                 writerVars, wireVars, lost>>

Close ==
  /\ conn = "closing"
  /\ stop' = TRUE
  /\ conn' = "closed"
  /\ UNCHANGED <<paneVars, load, loopVars, snap, snapGen, announce,
                 unsent, commands, paneCommands, writerVars, wireVars, lost>>

-----------------------------------------------------------------------------
(* clientWriter.loop.  Each round polls the control channel first and only *)
(* then waits on both, so a pane command overtakes a control command only  *)
(* when the latter arrives after the poll.                                 *)

PollEmpty ==
  /\ wpc = "poll"
  /\ ~stop
  /\ commands = << >>
  /\ wpc' = "select"
  /\ UNCHANGED <<paneVars, load, loopVars, handlerVars, commands,
                 paneCommands, stop, bootstrapping, minOutputSeq, pending,
                 wireVars, lost>>

TakeCommand(t) ==
  /\ (wpc = "poll" /\ ~stop) \/ wpc = "select"
  /\ commands # << >>
  /\ Head(commands).type = t
  /\ commands' = Tail(commands)

TakePaneCommand ==
  /\ wpc = "select"
  /\ paneCommands # << >>
  /\ paneCommands' = Tail(paneCommands)

StopWriter ==
  /\ wpc \in {"poll", "select"}
  /\ stop
  /\ wpc' = "done"
  /\ UNCHANGED <<paneVars, load, loopVars, handlerVars, commands,
                 paneCommands, stop, bootstrapping, minOutputSeq, pending,
                 wireVars, lost>>

\* A successful writeClientMessage of a layout or of a pane's bytes.  The
\* connection is closed before stop is, so no write succeeds after it.
WriteLayout(g) ==
  /\ ~stop
  /\ layouts' = Append(layouts, g)
  /\ UNCHANGED screen

WriteScreen(p, n) ==
  /\ ~stop
  /\ screen' = [screen EXCEPT ![p] = Append(@, n)]
  /\ UNCHANGED layouts

HandleStart ==
  /\ TakeCommand("start")
  /\ bootstrapping' = TRUE
  /\ minOutputSeq' = [p \in Panes |-> 0]
  /\ pending' = << >>
  /\ wpc' = "poll"
  /\ conn' = "started"
  /\ UNCHANGED <<paneVars, load, loopVars, snap, snapGen, announce,
                 unsent, paneCommands, stop, wireVars, lost>>

\* clientWriterMessageCommand: Send writes even while bootstrapping.
HandleSendLayout ==
  /\ TakeCommand("layout")
  /\ WriteLayout(Head(commands).gen)
  /\ wpc' = "poll"
  /\ UNCHANGED <<paneVars, load, loopVars, handlerVars,
                 paneCommands, stop, bootstrapping, minOutputSeq, pending, lost>>

HandleSendScreen ==
  /\ TakeCommand("screen")
  /\ WriteScreen(Head(commands).pane, Head(commands).seq)
  /\ wpc' = "poll"
  /\ UNCHANGED <<paneVars, load, loopVars, handlerVars,
                 paneCommands, stop, bootstrapping, minOutputSeq, pending, lost>>

\* Faulty variant: the latest broadcast is parked first.
HandleBroadcastReversed ==
  /\ TakeCommand("broadcast")
  /\ IF bootstrapping
       THEN /\ pending' = <<Head(commands)>> \o pending
            /\ UNCHANGED wireVars
       ELSE /\ WriteLayout(Head(commands).gen)
            /\ UNCHANGED pending
  /\ wpc' = "poll"
  /\ UNCHANGED <<paneVars, load, loopVars, handlerVars,
                 paneCommands, stop, bootstrapping, minOutputSeq, lost>>

HandleBroadcast ==
  /\ TakeCommand("broadcast")
  /\ IF bootstrapping
       THEN /\ pending' = Append(pending, Head(commands))
            /\ UNCHANGED wireVars
       ELSE /\ WriteLayout(Head(commands).gen)
            /\ UNCHANGED pending
  /\ wpc' = "poll"
  /\ UNCHANGED <<paneVars, load, loopVars, handlerVars,
                 paneCommands, stop, bootstrapping, minOutputSeq, lost>>

\* Faulty variant: the last output of the snapshot is sent again.
StaleOffByOne(c) == c.type = "output" /\ c.seq < minOutputSeq[c.pane]

\* Output the snapshot already contains.
Stale(c) == c.type = "output" /\ c.seq <= minOutputSeq[c.pane]

\* Faulty variant: pane output is not parked.
HandlePaneCommandUnparked ==
  /\ TakePaneCommand
  /\ LET c == Head(paneCommands) IN
       \/ /\ TRUE
          /\ Stale(c)
          /\ UNCHANGED <<pending, wireVars>>
       \/ /\ TRUE
          /\ ~Stale(c)
          /\ WriteScreen(c.pane, c.seq)
          /\ UNCHANGED pending
  /\ wpc' = "poll"
  /\ UNCHANGED <<paneVars, load, loopVars, handlerVars, commands,
                 stop, bootstrapping, minOutputSeq, lost>>

HandlePaneCommand ==
  /\ TakePaneCommand
  /\ LET c == Head(paneCommands) IN
       \/ /\ bootstrapping
          /\ pending' = Append(pending, c)
          /\ UNCHANGED wireVars
       \/ /\ ~bootstrapping
          /\ Stale(c)
          /\ UNCHANGED <<pending, wireVars>>
       \/ /\ ~bootstrapping
          /\ ~Stale(c)
          /\ WriteScreen(c.pane, c.seq)
          /\ UNCHANGED pending
  /\ wpc' = "poll"
  /\ UNCHANGED <<paneVars, load, loopVars, handlerVars, commands,
                 stop, bootstrapping, minOutputSeq, lost>>

\* Faulty variant: filters by the panes' present counters.
HandleFinishCurrent ==
  /\ TakeCommand("finish")
  /\ minOutputSeq' = outputSeq
  /\ wpc' = "flush"
  /\ UNCHANGED <<paneVars, load, loopVars, handlerVars,
                 paneCommands, stop, bootstrapping, pending, wireVars, lost>>

\* clientWriterFinishBootstrapCommand, with its loop over the parked messages.
HandleFinish ==
  /\ TakeCommand("finish")
  /\ minOutputSeq' = snap
  /\ wpc' = "flush"
  /\ UNCHANGED <<paneVars, load, loopVars, handlerVars,
                 paneCommands, stop, bootstrapping, pending, wireVars, lost>>

FlushNext ==
  /\ wpc = "flush"
  /\ pending # << >>
  /\ LET c == Head(pending) IN
       \/ c.type = "broadcast" /\ WriteLayout(c.gen)
       \/ c.type # "broadcast" /\ Stale(c) /\ UNCHANGED wireVars
       \/ c.type # "broadcast" /\ ~Stale(c) /\ WriteScreen(c.pane, c.seq)
  /\ pending' = Tail(pending)
  /\ UNCHANGED <<paneVars, load, loopVars, handlerVars, commands,
                 paneCommands, stop, wpc, bootstrapping, minOutputSeq, lost>>

\* Faulty variant: the writer keeps parking after the flush.
FlushDoneStillParked ==
  /\ wpc = "flush"
  /\ pending = << >>
  /\ bootstrapping' = TRUE
  /\ wpc' = "poll"
  /\ conn' = "finished"
  /\ UNCHANGED <<paneVars, load, loopVars, snap, snapGen, announce,
                 unsent, commands, paneCommands, stop, minOutputSeq, pending,
                 wireVars, lost>>

FlushDone ==
  /\ wpc = "flush"
  /\ pending = << >>
  /\ bootstrapping' = FALSE
  /\ wpc' = "poll"
  /\ conn' = "finished"
  /\ UNCHANGED <<paneVars, load, loopVars, snap, snapGen, announce,
                 unsent, commands, paneCommands, stop, minOutputSeq, pending,
                 wireVars, lost>>

\* A write error closes the connection and ends the loop.
WriteFailsCommand ==
  /\ \/ TakeCommand("layout")
     \/ TakeCommand("screen")
     \/ TakeCommand("broadcast") /\ ~bootstrapping
  /\ wpc' = "done"
  /\ UNCHANGED <<paneVars, load, loopVars, handlerVars,
                 paneCommands, stop, bootstrapping, minOutputSeq, pending,
                 wireVars, lost>>

WriteFailsPane ==
  /\ TakePaneCommand
  /\ ~bootstrapping
  /\ ~Stale(Head(paneCommands))
  /\ wpc' = "done"
  /\ UNCHANGED <<paneVars, load, loopVars, handlerVars, commands,
                 stop, bootstrapping, minOutputSeq, pending, wireVars, lost>>

\* In the flush loop it also abandons the rest, and finish is acknowledged.
WriteFailsFlush ==
  /\ wpc = "flush"
  /\ pending # << >>
  /\ Head(pending).type = "broadcast" \/ ~Stale(Head(pending))
  /\ pending' = << >>
  /\ bootstrapping' = FALSE
  /\ wpc' = "done"
  /\ conn' = "finished"
  /\ UNCHANGED <<paneVars, load, loopVars, snap, snapGen, announce,
                 unsent, commands, paneCommands, stop, minOutputSeq, wireVars,
                 lost>>

-----------------------------------------------------------------------------
EventLoop == \/ HandlePaneOutput \/ HandleRedraw \/ HandleRespawn
             \/ HandleLayout \/ HandleAnnounce \/ HandleAttach
             \/ HandleDetach

Bootstrap == \/ StartBootstrap \/ EnqueueAttachClient \/ SendLayout
             \/ \E p \in Panes : SendScreen(p)
             \/ AbandonAttach \/ FinishBootstrap \/ FinishWithoutWriter
             \/ AnnounceAttach

Writer == \/ PollEmpty \/ StopWriter \/ HandleStart \/ HandleSendLayout
          \/ HandleSendScreen \/ HandleBroadcast \/ HandlePaneCommand
          \/ HandleFinish \/ FlushNext \/ FlushDone

WriteFails == WriteFailsCommand \/ WriteFailsPane \/ WriteFailsFlush

\* Every goroutine has run out of work.
Terminating ==
  /\ conn = "closed" /\ wpc = "done" /\ events = << >> /\ load = MaxLoad
  /\ \A p \in Panes : reader[p] = 0 /\ orphan[p] = 0
  /\ UNCHANGED vars

Next ==
  \/ \E p \in Panes : \/ ApplyOutput(p)
                       \/ EnqueuePaneOutput(p)
                       \/ EnqueueOrphanOutput(p)
  \/ IssueCommand
  \/ EventLoop
  \/ Bootstrap
  \/ EnqueueDetachClient \/ Close
  \/ Writer
  \/ WriteFails
  \/ Terminating

\* The goroutines run; what users and peers do is not assumed.  No connection
\* has a write deadline, so a write to a client that does not read never ends:
\* of the writer's steps only those that write nothing are fair.
Fairness ==
  /\ \A p \in Panes : WF_vars(EnqueuePaneOutput(p))
  /\ WF_vars(EventLoop)
  /\ WF_vars(Bootstrap)
  /\ WF_vars(Writer /\ UNCHANGED wireVars)

\* The client keeps reading its connection: the writes to it end.
ClientReads == WF_vars(Writer)

Spec == Init /\ [][Next]_vars
FairSpec == Spec /\ Fairness

-----------------------------------------------------------------------------
TypeOK ==
  /\ outputSeq \in [Panes -> Nat]
  /\ reader \in [Panes -> Nat]
  /\ orphan \in [Panes -> Nat]
  /\ load \in Nat
  /\ events \in Seq(Event)
  /\ generation \in Nat
  /\ registered \in BOOLEAN
  /\ conn \in HandlerStates
  /\ snap \in [Panes -> Nat]
  /\ snapGen \in Nat
  /\ announce \in BOOLEAN
  /\ unsent \subseteq Panes
  /\ commands \in Seq(Command)
  /\ paneCommands \in Seq(Chunk)
  /\ stop \in BOOLEAN
  /\ wpc \in {"poll", "select", "flush", "done"}
  /\ bootstrapping \in BOOLEAN
  /\ minOutputSeq \in [Panes -> Nat]
  /\ pending \in Seq(Parked)
  /\ screen \in [Panes -> Seq(Nat)]
  /\ layouts \in Seq(Nat)
  /\ lost \in [Panes -> SUBSET Nat]

\* Every pane whose screen only its output changes reaches the client as
\* PaneFeed promises: the hand-over from the attach snapshot to live output
\* loses nothing, repeats nothing and reorders nothing, however the readLoop,
\* the event loop, handleAttach and the writer interleave; only a full pane
\* queue may drop output.
Feed(p) == INSTANCE PaneFeed WITH
             produced <- outputSeq[p], shown <- screen[p], dropped <- lost[p]

FeedsEveryPane ==
  /\ \A p \in Plain : Feed(p)!Init
  /\ [][\A p \in Plain : [Feed(p)!Next]_(Feed(p)!vars)]_vars

\* Output n of pane p is somewhere between the pane and the wire.
In(q, p, n) == \E i \in 1..Len(q) : q[i] = Output(p, n)

InFlight(p, n) ==
  \/ reader[p] = n
  \/ In(events, p, n)
  \/ In(paneCommands, p, n)
  \/ In(pending, p, n)

\* While a registered client's writer runs, every output after the last one
\* on the wire is still on its way or was dropped by a full queue: a client
\* is never silently left behind by the bootstrap filter.
NotLeftBehind(p) ==
  (registered /\ WriterRuns /\ screen[p] # << >>) =>
    \A n \in (screen[p][Len(screen[p])] + 1)..outputSeq[p] :
      n \in lost[p] \/ InFlight(p, n)

CaughtUp == \A p \in Plain : NotLeftBehind(p)

\* The first bytes of a pane, and the first layout, on the wire are the ones
\* the attach snapshot took: startBootstrap parks everything the event loop
\* broadcasts to the client before its snapshot is written.
SnapshotFirst ==
  /\ \A p \in Panes : screen[p] # << >> => screen[p][1] = snap[p]
  /\ layouts # << >> => layouts[1] = snapGen

\* A client never goes back to an older layout: neither a broadcast parked
\* during the bootstrap nor the snapshot overtakes a newer one.
LayoutsInOrder ==
  \A i, j \in 1..Len(layouts) : i < j => layouts[i] <= layouts[j]

\* Output of a pane that a client watches, and whose connection it keeps
\* reading, is eventually on its wire, unless the pane queue was full or the
\* client went away.  A client that stops reading is shown nothing more: its
\* writer stays in writeClientMessage.
EventuallyShown ==
  ClientReads =>
    (conn = "live" ~>
       \/ conn # "live" \/ wpc = "done"
       \/ \A p \in Plain :
            screen[p] # << >> /\ (screen[p][Len(screen[p])] + 1)..outputSeq[p] \subseteq lost[p])

\* The writer's filter relies on "the monotonically increasing output
\* sequence" of a pane: what a respawned pane prints reaches the client too.
RespawnedOutputShown == \A p \in Panes \ Redrawn : NotLeftBehind(p)
=============================================================================
