------------------------ MODULE ClientStream_proofs ------------------------
(***************************************************************************)
(* Proofs about the client stream, for every set of panes, every capacity  *)
(* and every bound.                                                        *)
(***************************************************************************)
EXTENDS ClientStream, TLAPS

-----------------------------------------------------------------------------
(* The messages in the channels: which records belong to them, and which   *)
(* fields a message of a given type has.                                   *)

(* What is put on the session event channel is an event.                   *)
LEMMA EventMembers ==
  /\ \A p \in Panes, n \in Nat : Output(p, n) \in Event
  /\ [type |-> "layout"] \in Event /\ [type |-> "announce"] \in Event
  /\ [type |-> "attach"] \in Event /\ [type |-> "detach"] \in Event
  /\ PaneCommand \subseteq Event
  BY DEF Output, Event

(* Events about a pane name one of the session's panes.                    *)
LEMMA EventFields ==
  ASSUME NEW e \in Event
  PROVE  /\ e.type = "output" => e.pane \in Panes /\ e.seq \in Nat
         /\ e.type = "redraw" => e.pane \in Panes
         /\ e.type = "respawn" => e.pane \in Panes
  BY DEF Event, PaneCommand

(* What is put on clientWriter.commands is a command.                      *)
LEMMA CommandMembers ==
  /\ [type |-> "start"] \in Command /\ [type |-> "finish"] \in Command
  /\ \A g \in Nat : /\ [type |-> "layout", gen |-> g] \in Command
                     /\ Broadcast(g) \in Command
  /\ \A p \in Panes, n \in Nat :
       [type |-> "screen", pane |-> p, seq |-> n] \in Command
  BY DEF Command, Broadcast

(* Layouts carry a generation, screens a pane and its sequence number.     *)
LEMMA CommandFields ==
  ASSUME NEW c \in Command
  PROVE  /\ c.type = "layout" => c.gen \in Nat
         /\ c.type = "broadcast" => c \in Parked /\ c.gen \in Nat
         /\ c.type = "screen" => c.pane \in Panes /\ c.seq \in Nat
  BY DEF Command, Parked

(* What is put on clientWriter.paneCommands is a chunk of a pane.          *)
LEMMA ChunkMembers ==
  \A p \in Panes, n \in Nat : Output(p, n) \in Chunk /\ Render(p, n) \in Chunk
  BY DEF Chunk, Output, Render

(* Parked messages are chunks of a pane or layout broadcasts.              *)
LEMMA ParkedFields ==
  /\ Chunk \subseteq Parked
  /\ \A c \in Chunk : c.pane \in Panes /\ c.seq \in Nat
  /\ \A c \in Parked : IF c.type = "broadcast" THEN c.gen \in Nat
                                               ELSE c \in Chunk
  BY DEF Chunk, Parked

-----------------------------------------------------------------------------
(* What the shared parts of the actions do to the channels and the wire.   *)

(* A message put on a channel, or dropped because the channel is full.     *)
LEMMA MaybeAppend ==
  ASSUME NEW S, NEW s \in Seq(S), NEW x \in S, NEW t,
         t = s \/ t = Append(s, x)
  PROVE  t \in Seq(S)
  OBVIOUS

(* The event loop takes the oldest event.                                  *)
LEMMA TakeEventType ==
  ASSUME NEW t, events \in Seq(Event), TakeEvent(t)
  PROVE  events' \in Seq(Event) /\ Head(events) \in Event
         /\ Head(events).type = t
  BY DEF TakeEvent

(* The writer takes the oldest control command ...                         *)
LEMMA TakeCommandType ==
  ASSUME NEW t, commands \in Seq(Command), TakeCommand(t)
  PROVE  commands' \in Seq(Command) /\ Head(commands) \in Command
         /\ Head(commands).type = t
  BY DEF TakeCommand

(* ... or the oldest pane command.                                         *)
LEMMA TakePaneCommandType ==
  ASSUME paneCommands \in Seq(Chunk), TakePaneCommand
  PROVE  paneCommands' \in Seq(Chunk) /\ Head(paneCommands) \in Chunk
  BY DEF TakePaneCommand

(* enqueueAsync appends a broadcast or drops it.                           *)
LEMMA SendBroadcastType ==
  ASSUME NEW g \in Nat, commands \in Seq(Command), SendBroadcast(g)
  PROVE  commands' \in Seq(Command)
<1>1. commands' = commands \/ commands' = Append(commands, Broadcast(g))
  BY DEF SendBroadcast
<1>2. Broadcast(g) \in Command
  BY CommandMembers
<1>3. QED
  BY <1>1, <1>2, MaybeAppend

(* enqueueAsyncPane appends a chunk or drops it.                           *)
LEMMA SendPaneType ==
  ASSUME NEW c \in Chunk, paneCommands \in Seq(Chunk), SendPane(c)
  PROVE  paneCommands' \in Seq(Chunk)
  BY DEF SendPane

(* enqueue appends a control command.                                      *)
LEMMA EnqueueType ==
  ASSUME NEW c \in Command, commands \in Seq(Command), Enqueue(c)
  PROVE  commands' \in Seq(Command)
  BY DEF Enqueue

(* Writing a layout leaves the panes alone ...                             *)
LEMMA WriteLayoutType ==
  ASSUME NEW g \in Nat, layouts \in Seq(Nat), WriteLayout(g)
  PROVE  layouts' \in Seq(Nat) /\ screen' = screen
  BY DEF WriteLayout

(* ... and writing a pane's bytes leaves the layouts alone.                *)
LEMMA WriteScreenType ==
  ASSUME NEW p \in Panes, NEW n \in Nat, screen \in [Panes -> Seq(Nat)],
         WriteScreen(p, n)
  PROVE  screen' \in [Panes -> Seq(Nat)] /\ layouts' = layouts
  BY DEF WriteScreen

-----------------------------------------------------------------------------
(* Type correctness of the client stream: every step of the readLoops, the *)
(* event loop, handleAttach and the writer keeps the state well-formed.    *)
THEOREM TypeCorrect == Spec => []TypeOK
<1>1. Init => TypeOK
  <2> SUFFICES ASSUME Init PROVE TypeOK
    OBVIOUS
  <2>2. /\ events \in Seq(Event) /\ commands \in Seq(Command)
        /\ paneCommands \in Seq(Chunk) /\ pending \in Seq(Parked)
        /\ layouts \in Seq(Nat) /\ screen \in [Panes -> Seq(Nat)]
    BY DEF Init
  <2>3. QED
    BY <2>2 DEF Init, TypeOK, HandlerStates
<1>2. TypeOK /\ [Next]_vars => TypeOK'
  <2> SUFFICES ASSUME TypeOK, [Next]_vars PROVE TypeOK'
    OBVIOUS
  <2>0. /\ outputSeq \in [Panes -> Nat] /\ events \in Seq(Event)
        /\ generation \in Nat /\ generation + 1 \in Nat /\ snapGen \in Nat
        /\ snap \in [Panes -> Nat] /\ commands \in Seq(Command)
        /\ paneCommands \in Seq(Chunk) /\ pending \in Seq(Parked)
        /\ screen \in [Panes -> Seq(Nat)] /\ layouts \in Seq(Nat)
        /\ lost \in [Panes -> SUBSET Nat]
    BY DEF TypeOK
  <2> USE DEF paneVars, loopVars, handlerVars, writerVars, wireVars
  <2>1. ASSUME NEW p \in Panes, ApplyOutput(p) PROVE TypeOK'
    <3>1. load' \in Nat
      BY <2>1 DEF TypeOK, ApplyOutput
    <3>2. outputSeq' \in [Panes -> Nat] /\ reader' \in [Panes -> Nat]
      BY <2>1 DEF TypeOK, ApplyOutput
    <3>3. QED
      BY <2>1, <3>1, <3>2 DEF TypeOK, HandlerStates, ApplyOutput
  <2>2. ASSUME NEW p \in Panes, EnqueuePaneOutput(p) PROVE TypeOK'
    <3>1. reader[p] \in Nat /\ reader' \in [Panes -> Nat]
      BY <2>2 DEF TypeOK, EnqueuePaneOutput
    <3>2. Output(p, reader[p]) \in Event
      BY <3>1, EventMembers
    <3>3. events' \in Seq(Event)
      BY <2>2, <2>0, <3>2 DEF EnqueuePaneOutput
    <3>4. QED
      BY <2>2, <3>1, <3>3 DEF TypeOK, HandlerStates, EnqueuePaneOutput
  <2>3. ASSUME NEW p \in Panes, EnqueueOrphanOutput(p) PROVE TypeOK'
    <3>1. orphan[p] \in Nat /\ orphan' \in [Panes -> Nat]
      BY <2>3 DEF TypeOK, EnqueueOrphanOutput
    <3>2. Output(p, orphan[p]) \in Event
      BY <3>1, EventMembers
    <3>3. events' \in Seq(Event)
      BY <2>3, <2>0, <3>2 DEF EnqueueOrphanOutput
    <3>4. QED
      BY <2>3, <3>1, <3>3 DEF TypeOK, HandlerStates, EnqueueOrphanOutput
  <2>4. ASSUME IssueCommand PROVE TypeOK'
    <3>1. PICK c \in Requests : events' = Append(events, c)
      BY <2>4 DEF IssueCommand
    <3>2. c \in Event
      BY PanesAssumption DEF Requests, Event, PaneCommand
    <3>3. events' \in Seq(Event)
      BY <2>0, <3>1, <3>2
    <3>4. QED
      BY <2>4, <3>3 DEF TypeOK, HandlerStates, IssueCommand
  <2>6. ASSUME HandlePaneOutput PROVE TypeOK'
    <3>1. events' \in Seq(Event) /\ Head(events) \in Event
      BY <2>6, <2>0, TakeEventType DEF HandlePaneOutput
    <3>2. Head(events).pane \in Panes /\ Head(events).seq \in Nat
      BY <2>6, <3>1, EventFields DEF HandlePaneOutput, TakeEvent
    <3>3. paneCommands' \in Seq(Chunk)
      BY <2>6, <2>0, <3>2, ChunkMembers, SendPaneType DEF HandlePaneOutput
    <3>4. lost' \in [Panes -> SUBSET Nat]
      BY <2>6, <2>0, <3>2 DEF HandlePaneOutput
    <3>5. commands' \in Seq(Command) /\ generation' \in Nat /\ load' \in Nat
      <4>1. CASE UNCHANGED <<load, generation, commands>>
        BY <4>1 DEF TypeOK
      <4>2. CASE /\ load' = load + 1
                 /\ generation' = generation + 1
                 /\ SendBroadcast(generation + 1)
        <5>1. commands' \in Seq(Command)
          BY <4>2, <2>0, SendBroadcastType
        <5>2. QED
          BY <4>2, <5>1 DEF TypeOK
      <4>3. QED
        BY <2>6, <4>1, <4>2 DEF HandlePaneOutput
    <3>6. QED
      BY <2>6, <3>1, <3>2, <3>3, <3>4, <3>5 DEF TypeOK, HandlerStates, HandlePaneOutput
  <2>7. ASSUME HandleRedraw PROVE TypeOK'
    <3>1. events' \in Seq(Event) /\ Head(events) \in Event
      BY <2>7, <2>0, TakeEventType DEF HandleRedraw
    <3>2. Head(events).pane \in Panes
      BY <2>7, <3>1, EventFields DEF HandleRedraw, TakeEvent
    <3>3. paneCommands' \in Seq(Chunk)
      BY <2>7, <2>0, <3>2, ChunkMembers, SendPaneType DEF HandleRedraw
    <3>4. QED
      BY <2>7, <3>1, <3>2, <3>3 DEF TypeOK, HandlerStates, HandleRedraw
  <2>8. ASSUME HandleRespawn PROVE TypeOK'
    <3>1. events' \in Seq(Event) /\ Head(events) \in Event
      BY <2>8, <2>0, TakeEventType DEF HandleRespawn
    <3>2. Head(events).pane \in Panes
      BY <2>8, <3>1, EventFields DEF HandleRespawn, TakeEvent
    <3>3. paneCommands' \in Seq(Chunk)
      BY <2>8, <2>0, <3>2, ChunkMembers, SendPaneType DEF HandleRespawn
    <3>4. QED
      BY <2>8, <3>1, <3>2, <3>3 DEF TypeOK, HandlerStates, HandleRespawn
  <2>9. ASSUME HandleLayout PROVE TypeOK'
    <3>1. events' \in Seq(Event) /\ Head(events) \in Event
      BY <2>9, <2>0, TakeEventType DEF HandleLayout
    <3>2. commands' \in Seq(Command)
      BY <2>9, <2>0, SendBroadcastType DEF HandleLayout
    <3>3. QED
      BY <2>9, <3>1, <3>2 DEF TypeOK, HandlerStates, HandleLayout
  <2>10. ASSUME HandleAnnounce PROVE TypeOK'
    <3>1. events' \in Seq(Event) /\ Head(events) \in Event
      BY <2>10, <2>0, TakeEventType DEF HandleAnnounce
    <3>2. commands' \in Seq(Command)
      BY <2>10, <2>0, SendBroadcastType DEF HandleAnnounce
    <3>3. QED
      BY <2>10, <3>1, <3>2 DEF TypeOK, HandlerStates, HandleAnnounce
  <2>11. ASSUME HandleAttach PROVE TypeOK'
    <3>1. events' \in Seq(Event) /\ Head(events) \in Event
      BY <2>11, <2>0, TakeEventType DEF HandleAttach
    <3>2. generation' \in Nat /\ announce' \in BOOLEAN
      BY <2>11, <2>0 DEF HandleAttach
    <3>3. commands' \in Seq(Command)
      BY <2>11, <2>0, SendBroadcastType DEF HandleAttach
    <3>4. registered' \in BOOLEAN
      BY <2>11 DEF HandleAttach
    <3>5. QED
      BY <2>11, <3>1, <3>2, <3>3, <3>4 DEF TypeOK, HandlerStates, HandleAttach
  <2>12. ASSUME HandleDetach PROVE TypeOK'
    <3>1. events' \in Seq(Event) /\ Head(events) \in Event
      BY <2>12, <2>0, TakeEventType DEF HandleDetach
    <3>2. registered' \in BOOLEAN
      BY <2>12 DEF HandleDetach
    <3>3. QED
      BY <2>12, <3>1, <3>2 DEF TypeOK, HandlerStates, HandleDetach
  <2>13. ASSUME StartBootstrap PROVE TypeOK'
    <3>1. commands' \in Seq(Command)
      BY <2>13, <2>0, CommandMembers, EnqueueType DEF StartBootstrap
    <3>2. QED
      BY <2>13, <3>1 DEF TypeOK, HandlerStates, StartBootstrap
  <2>14. ASSUME EnqueueAttachClient PROVE TypeOK'
    BY <2>14, EventMembers DEF TypeOK, HandlerStates, EnqueueAttachClient
  <2>15. ASSUME SendLayout PROVE TypeOK'
    <3>1. commands' \in Seq(Command)
      BY <2>15, <2>0, CommandMembers, EnqueueType DEF SendLayout
    <3>2. QED
      BY <2>15, <3>1 DEF TypeOK, HandlerStates, SendLayout
  <2>16. ASSUME NEW p \in Panes, SendScreen(p) PROVE TypeOK'
    <3>1. commands' \in Seq(Command)
      BY <2>16, <2>0, CommandMembers, EnqueueType DEF SendScreen
    <3>2. QED
      BY <2>16, <3>1 DEF TypeOK, HandlerStates, SendScreen
  <2>17. ASSUME AbandonAttach PROVE TypeOK'
    BY <2>17 DEF TypeOK, HandlerStates, AbandonAttach
  <2>18. ASSUME FinishBootstrap PROVE TypeOK'
    <3>1. commands' \in Seq(Command)
      BY <2>18, <2>0, CommandMembers, EnqueueType DEF FinishBootstrap
    <3>2. QED
      BY <2>18, <3>1 DEF TypeOK, HandlerStates, FinishBootstrap
  <2>19. ASSUME FinishWithoutWriter PROVE TypeOK'
    BY <2>19 DEF TypeOK, HandlerStates, FinishWithoutWriter
  <2>20. ASSUME AnnounceAttach PROVE TypeOK'
    <3>1. events' = events \/ events' = Append(events, [type |-> "announce"])
      BY <2>20 DEF AnnounceAttach
    <3>2. events' \in Seq(Event)
      BY <2>0, <3>1, EventMembers, MaybeAppend
    <3>3. QED
      BY <2>20, <3>1, <3>2 DEF TypeOK, HandlerStates, AnnounceAttach
  <2>21. ASSUME EnqueueDetachClient PROVE TypeOK'
    BY <2>21, EventMembers DEF TypeOK, HandlerStates, EnqueueDetachClient
  <2>22. ASSUME Close PROVE TypeOK'
    BY <2>22 DEF TypeOK, HandlerStates, Close
  <2>23. ASSUME PollEmpty PROVE TypeOK'
    BY <2>23 DEF TypeOK, HandlerStates, PollEmpty
  <2>24. ASSUME StopWriter PROVE TypeOK'
    BY <2>24 DEF TypeOK, HandlerStates, StopWriter
  <2>25. ASSUME HandleStart PROVE TypeOK'
    <3>1. commands' \in Seq(Command) /\ Head(commands) \in Command
      BY <2>25, <2>0, TakeCommandType DEF HandleStart
    <3>2. bootstrapping' \in BOOLEAN
      BY <2>25 DEF HandleStart
    <3>3. pending' \in Seq(Parked)
      BY <2>25 DEF HandleStart
    <3>4. QED
      BY <2>25, <3>1, <3>2, <3>3 DEF TypeOK, HandlerStates, HandleStart
  <2>26. ASSUME HandleSendLayout PROVE TypeOK'
    <3>1. commands' \in Seq(Command) /\ Head(commands) \in Command
      BY <2>26, <2>0, TakeCommandType DEF HandleSendLayout
    <3>2. Head(commands).gen \in Nat
      BY <2>26, <3>1, CommandFields DEF HandleSendLayout, TakeCommand
    <3>3. layouts' \in Seq(Nat) /\ screen' = screen
      BY <2>26, <2>0, <3>2, WriteLayoutType DEF HandleSendLayout
    <3>4. QED
      BY <2>26, <3>1, <3>2, <3>3 DEF TypeOK, HandlerStates, HandleSendLayout
  <2>27. ASSUME HandleSendScreen PROVE TypeOK'
    <3>1. commands' \in Seq(Command) /\ Head(commands) \in Command
      BY <2>27, <2>0, TakeCommandType DEF HandleSendScreen
    <3>2. Head(commands).pane \in Panes /\ Head(commands).seq \in Nat
      BY <2>27, <3>1, CommandFields DEF HandleSendScreen, TakeCommand
    <3>3. screen' \in [Panes -> Seq(Nat)] /\ layouts' = layouts
      BY <2>27, <2>0, <3>2, WriteScreenType DEF HandleSendScreen
    <3>4. QED
      BY <2>27, <3>1, <3>2, <3>3 DEF TypeOK, HandlerStates, HandleSendScreen
  <2>28. ASSUME HandleBroadcast PROVE TypeOK'
    <3>1. commands' \in Seq(Command) /\ Head(commands) \in Command
      BY <2>28, <2>0, TakeCommandType DEF HandleBroadcast
    <3>2. Head(commands) \in Parked /\ Head(commands).gen \in Nat
      BY <2>28, <3>1, CommandFields DEF HandleBroadcast, TakeCommand
    <3>3. pending' = pending \/ pending' = Append(pending, Head(commands))
      BY <2>28 DEF HandleBroadcast
    <3>4. pending' \in Seq(Parked)
      BY <2>0, <3>2, <3>3, MaybeAppend
    <3>5. layouts' \in Seq(Nat) /\ screen' = screen
      BY <2>28, <2>0, <3>2, WriteLayoutType DEF HandleBroadcast, wireVars
    <3>6. QED
      BY <2>28, <3>1, <3>2, <3>3, <3>4, <3>5 DEF TypeOK, HandlerStates, HandleBroadcast
  <2>29. ASSUME HandlePaneCommand PROVE TypeOK'
    <3>1. paneCommands' \in Seq(Chunk) /\ Head(paneCommands) \in Chunk
      BY <2>29, <2>0, TakePaneCommandType DEF HandlePaneCommand
    <3>2. Head(paneCommands) \in Parked /\ Head(paneCommands).pane \in Panes /\ Head(paneCommands).seq \in Nat
      BY <2>29, <3>1, ParkedFields DEF HandlePaneCommand
    <3>3. pending' = pending \/ pending' = Append(pending, Head(paneCommands))
      BY <2>29 DEF HandlePaneCommand
    <3>4. pending' \in Seq(Parked)
      BY <2>0, <3>2, <3>3, MaybeAppend
    <3>5. screen' \in [Panes -> Seq(Nat)] /\ layouts' = layouts
      BY <2>29, <2>0, <3>2, WriteScreenType DEF HandlePaneCommand, wireVars
    <3>6. QED
      BY <2>29, <3>1, <3>2, <3>3, <3>4, <3>5 DEF TypeOK, HandlerStates, HandlePaneCommand
  <2>30. ASSUME HandleFinish PROVE TypeOK'
    <3>1. commands' \in Seq(Command) /\ Head(commands) \in Command
      BY <2>30, <2>0, TakeCommandType DEF HandleFinish
    <3>2. QED
      BY <2>30, <3>1 DEF TypeOK, HandlerStates, HandleFinish
  <2>31. ASSUME FlushNext PROVE TypeOK'
    <3>1. Head(pending) \in Parked /\ pending' \in Seq(Parked)
      BY <2>31, <2>0 DEF FlushNext
    <3>2. layouts' \in Seq(Nat) /\ screen' \in [Panes -> Seq(Nat)]
      <4>1. CASE Head(pending).type = "broadcast"
        <5>1. WriteLayout(Head(pending).gen)
          BY <2>31, <4>1 DEF FlushNext
        <5>2. Head(pending).gen \in Nat
          BY <3>1, <4>1, ParkedFields
        <5>3. QED
          BY <2>0, <5>1, <5>2, WriteLayoutType
      <4>2. CASE Head(pending).type # "broadcast"
        <5>1. Head(pending).pane \in Panes /\ Head(pending).seq \in Nat
          BY <3>1, <4>2, ParkedFields
        <5>2. \/ screen' = screen /\ layouts' = layouts
              \/ WriteScreen(Head(pending).pane, Head(pending).seq)
          BY <2>31, <4>2 DEF FlushNext
        <5>3. QED
          BY <2>0, <5>1, <5>2, WriteScreenType
      <4>3. QED
        BY <4>1, <4>2
    <3>3. QED
      BY <2>31, <3>1, <3>2 DEF TypeOK, HandlerStates, FlushNext
  <2>32. ASSUME FlushDone PROVE TypeOK'
    BY <2>32 DEF TypeOK, HandlerStates, FlushDone
  <2>33. ASSUME WriteFailsCommand PROVE TypeOK'
    <3>1. commands' \in Seq(Command)
      BY <2>33, <2>0, TakeCommandType DEF WriteFailsCommand
    <3>2. QED
      BY <2>33, <3>1 DEF TypeOK, HandlerStates, WriteFailsCommand
  <2>34. ASSUME WriteFailsPane PROVE TypeOK'
    <3>1. paneCommands' \in Seq(Chunk) /\ Head(paneCommands) \in Chunk
      BY <2>34, <2>0, TakePaneCommandType DEF WriteFailsPane
    <3>2. QED
      BY <2>34, <3>1 DEF TypeOK, HandlerStates, WriteFailsPane
  <2>35. ASSUME WriteFailsFlush PROVE TypeOK'
    <3>1. pending' \in Seq(Parked)
      BY <2>35 DEF WriteFailsFlush
    <3>2. bootstrapping' \in BOOLEAN
      BY <2>35 DEF WriteFailsFlush
    <3>3. QED
      BY <2>35, <3>1, <3>2 DEF TypeOK, HandlerStates, WriteFailsFlush
  <2>36. ASSUME Terminating PROVE TypeOK'
    BY <2>36 DEF TypeOK, HandlerStates, Terminating, vars
  <2>37. CASE UNCHANGED vars
    BY <2>37 DEF TypeOK, vars
  <2>38. QED
    BY <2>1, <2>2, <2>3, <2>4, <2>6, <2>7, <2>8, <2>9, <2>10,
       <2>11, <2>12, <2>13, <2>14, <2>15, <2>16, <2>17, <2>18, <2>19,
       <2>20, <2>21, <2>22, <2>23, <2>24, <2>25, <2>26, <2>27, <2>28,
       <2>29, <2>30, <2>31, <2>32, <2>33, <2>34, <2>35, <2>36, <2>37
    DEF Next, EventLoop, Bootstrap, Writer, WriteFails
<1>3. QED
  BY <1>1, <1>2, PTL DEF Spec
=============================================================================
