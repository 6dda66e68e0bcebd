--------------------------- MODULE SessionClients ---------------------------
(***************************************************************************)
(* The clients of a session: how connections are registered and removed,   *)
(* which client's terminal decides the size of the windows (the size       *)
(* owner), and when a server that exits unattached stops.                  *)
(*                                                                         *)
(* Each connection has a goroutine that attaches it, sends it the first    *)
(* screens, and then turns its messages into events.  The session loop     *)
(* handles the events one at a time; commands run on the loop as well.     *)
(***************************************************************************)
EXTENDS Integers, Sequences, SequencesExt

CONSTANTS
  Clients,      \* connections
  Kinds,        \* kinds of connections that may be made
  Sizes,        \* rows of a terminal; 0 when unknown
  MirrorSizes,  \* rows a window subscriber may ask for; 0 for none
  None,         \* no client
  MaxWindows,   \* bound: windows ever created
  MaxMessages   \* bound: messages of attached clients, commands and reloads

ASSUME SessionClientsAssumption ==
  /\ Kinds \subseteq {"interactive", "plain", "pane", "window"}
  /\ Sizes \subseteq Nat /\ MirrorSizes \subseteq Nat
  /\ None \notin Clients
  /\ MaxWindows \in Nat \ {0} /\ MaxMessages \in Nat

VARIABLES
  kind,           \* what each connection attaches as
  conn,           \* the step its goroutine is at
  events,         \* queue of the session loop
  clients,        \* registered clients, oldest first
  sizeClient,     \* the size owner
  rows,           \* terminal rows each client declared
  hadClient,      \* an interactive client has attached
  wantShutdown,   \* the server is told to stop
  windows,        \* windows, in order
  activeWindow,   \* the active one, 0 if none
  height,         \* height of each window ever created
  resized,        \* windows last sized by resize-window or by a subscriber, or
                  \* for an owner that an unknown UI event has replaced
  windowCounter,  \* number of windows ever created
  toShow,         \* clients that were told to enter copy mode
  reloading,      \* a Reload is under way (Session.shutdown is set)
  toLeave,        \* the clients that Reload has found registered
  unchecked,      \* a Reload has removed a client, or one has left during it
  messages        \* number of messages, commands and reloads so far

vars == <<kind, conn, events, clients, sizeClient, rows, hadClient, wantShutdown,
          windows, activeWindow, height, resized, windowCounter, toShow,
          reloading, toLeave, unchecked, messages>>

registry == <<clients, sizeClient, rows, hadClient, wantShutdown>>

layout == <<windows, activeWindow, height, resized, windowCounter>>

reload == <<reloading, toLeave, unchecked>>

GlobalBarHeight == 1

WindowIDs == 1..MaxWindows

Init ==
  /\ kind \in [Clients -> Kinds]
  /\ conn = [c \in Clients |-> "idle"]
  /\ events = << >> /\ clients = << >> /\ sizeClient = None
  /\ rows = [c \in Clients |-> 0]
  /\ hadClient = FALSE /\ wantShutdown = FALSE
  /\ windows = << >> /\ activeWindow = 0 /\ windowCounter = 0
  /\ height = [w \in WindowIDs |-> 0] /\ resized = {}
  /\ toShow = {} /\ reloading = FALSE /\ toLeave = {} /\ unchecked = FALSE
  /\ messages = 0

(***************************************************************************)
(* The client manager.                                                     *)
(***************************************************************************)
Registered(c) == c \in Range(clients)

\* Faulty variant: pane subscribers, scripts and mirrors negotiate too.
ParticipatesAll(c) == TRUE

ParticipatesInSizeNegotiation(c) == kind[c] = "interactive"

Scoped(c) == kind[c] \in {"pane", "window"}

\* The owner once c has done something, in a session whose clients are cs.
NoteClientActivity(owner, cs, c) ==
  IF ParticipatesInSizeNegotiation(c) /\ c \in Range(cs) THEN c ELSE owner

\* The owner, or the newest interactive client in its absence.
EffectiveSizeClient(owner, cs) ==
  LET candidates == SelectSeq(cs, ParticipatesInSizeNegotiation)
  IN  IF owner \in Range(candidates) THEN owner
      ELSE IF candidates = << >> THEN None
      ELSE Last(candidates)

\* Set the owner, and window w to the owner's size, if the owner has one.
SyncWindowSize(w, owner, cs, rs, hs, asked) ==
  LET c   == EffectiveSizeClient(owner, cs)
      fit == w # 0 /\ c # None /\ rs[c] # 0
  IN  /\ sizeClient' = c
      /\ height' = IF fit THEN [hs EXCEPT ![w] = rs[c] - GlobalBarHeight] ELSE hs
      /\ resized' = IF fit THEN asked \ {w} ELSE asked

(***************************************************************************)
(* Handlers of the session loop.                                           *)
(***************************************************************************)
\* ensureInitialWindowLocked: the first client to attach creates a window.
HandleAttach(e) ==
  LET c     == e.client
      first == windows = << >>
      w     == windowCounter + 1
      rs    == [rows EXCEPT ![c] = e.size]
      cs    == Append(clients, c)
  IN  /\ rows' = rs /\ clients' = cs
      /\ hadClient' = (hadClient \/ ParticipatesInSizeNegotiation(c))
      /\ IF first
         THEN /\ windows' = <<w>> /\ activeWindow' = w /\ windowCounter' = w
              /\ SyncWindowSize(w, NoteClientActivity(sizeClient, cs, c), cs, rs,
                   [height EXCEPT ![w] = e.size - GlobalBarHeight], resized)
         ELSE /\ SyncWindowSize(activeWindow, NoteClientActivity(sizeClient, cs, c), cs, rs, height, resized)
              /\ UNCHANGED <<windows, activeWindow, windowCounter>>
      /\ conn' = [conn EXCEPT ![c] = "sending"]
      /\ UNCHANGED <<wantShutdown, reload>>

\* The first window cannot be created: the client is not registered.
HandleAttachFails(e) ==
  /\ windows = << >>
  /\ rows' = [rows EXCEPT ![e.client] = e.size]
  /\ conn' = [conn EXCEPT ![e.client] = "closed"]
  /\ UNCHANGED <<clients, sizeClient, hadClient, wantShutdown, layout, reload>>

HandleAttachPane(e) ==
  /\ IF windows = << >>
     THEN /\ conn' = [conn EXCEPT ![e.client] = "closed"]
          /\ UNCHANGED clients
     ELSE /\ conn' = [conn EXCEPT ![e.client] = "sending"]
          /\ clients' = Append(clients, e.client)
  /\ UNCHANGED <<sizeClient, rows, hadClient, wantShutdown, layout, reload>>

\* A subscriber's size is a window's: no bar is taken off.
ResizeMirrorTarget(w, size) ==
  IF size # 0 /\ height[w] # size
  THEN height' = [height EXCEPT ![w] = size] /\ resized' = resized \cup {w}
  ELSE UNCHANGED <<height, resized>>

HandleAttachWindow(e) ==
  /\ IF ~Contains(windows, e.window)
     THEN /\ conn' = [conn EXCEPT ![e.client] = "closed"]
          /\ UNCHANGED <<clients, height, resized>>
     ELSE /\ ResizeMirrorTarget(e.window, e.size)
          /\ conn' = [conn EXCEPT ![e.client] = "sending"]
          /\ clients' = Append(clients, e.client)
  /\ UNCHANGED <<sizeClient, rows, hadClient, wantShutdown, windows, activeWindow, windowCounter, reload>>

HandleResizeMirror(e) ==
  /\ IF Contains(windows, e.window) THEN ResizeMirrorTarget(e.window, e.size)
                                    ELSE UNCHANGED <<height, resized>>
  /\ UNCHANGED <<registry, windows, activeWindow, windowCounter, conn, reload>>

HandleResize(e) ==
  /\ rows' = [rows EXCEPT ![e.client] = e.size]
  /\ SyncWindowSize(activeWindow, NoteClientActivity(sizeClient, clients, e.client), clients, rows', height, resized)
  /\ UNCHANGED <<clients, hadClient, wantShutdown, windows, activeWindow, windowCounter, conn, reload>>

\* activeInputPaneForWriteOnActor: input resizes only when the owner changes.
HandleInput(e) ==
  LET owner == NoteClientActivity(sizeClient, clients, e.client)
  IN  /\ IF owner # sizeClient
         THEN SyncWindowSize(activeWindow, owner, clients, rows, height, resized)
         ELSE UNCHANGED <<sizeClient, height, resized>>
      /\ UNCHANGED <<clients, rows, hadClient, wantShutdown, windows, activeWindow, windowCounter, conn, reload>>

\* So do UI events, but one the server does not know is refused after its
\* sender has become the owner: the window keeps the old owner's size.
HandleUIEvent(e) ==
  LET owner == NoteClientActivity(sizeClient, clients, e.client)
  IN  /\ \/ /\ owner = sizeClient
            /\ UNCHANGED <<sizeClient, height, resized>>
         \/ /\ owner # sizeClient /\ e.type # "unknown"
            /\ SyncWindowSize(activeWindow, owner, clients, rows, height, resized)
         \/ /\ owner # sizeClient /\ e.type = "unknown"
            /\ sizeClient' = owner
            /\ resized' = resized \cup {activeWindow}
            /\ UNCHANGED height
      /\ UNCHANGED <<clients, rows, hadClient, wantShutdown, windows, activeWindow, windowCounter, conn, reload>>

RemoveClient(c) == clients' = Remove(clients, c)

\* exit-unattached; a server that reloads does not look.
ExitIfUnattached ==
  /\ wantShutdown' = (wantShutdown \/ (hadClient /\ clients' = << >> /\ ~reloading))
  /\ unchecked' = (unchecked \/ reloading)

OwnerAfterRemoval(c) == IF sizeClient = c THEN None ELSE sizeClient

\* Faulty variant: a scoped client is left registered.
HandleDetachUnscoped(e) ==
  LET c == e.client
  IN  /\ IF ~Registered(c) \/ Scoped(c)
         THEN UNCHANGED <<clients, sizeClient, height, resized, wantShutdown, unchecked>>
         ELSE /\ RemoveClient(c)
              /\ SyncWindowSize(activeWindow, OwnerAfterRemoval(c), clients', rows, height, resized)
              /\ ExitIfUnattached
      /\ UNCHANGED <<rows, hadClient, windows, activeWindow, windowCounter, conn, reloading, toLeave>>

\* Faulty variant: only the size owner's departure is looked at.
HandleDetachOwner(e) ==
  LET c == e.client
  IN  /\ IF ~Registered(c)
         THEN UNCHANGED <<clients, sizeClient, height, resized, wantShutdown, unchecked>>
         ELSE /\ RemoveClient(c)
              /\ IF sizeClient # c
                 THEN UNCHANGED <<sizeClient, height, resized, wantShutdown, unchecked>>
                 ELSE /\ SyncWindowSize(activeWindow, None, clients', rows, height, resized)
                      /\ ExitIfUnattached
      /\ UNCHANGED <<rows, hadClient, windows, activeWindow, windowCounter, conn, reloading, toLeave>>

\* A scoped client leaves without a resize and without the exit check.
HandleDetach(e) ==
  LET c == e.client
  IN  /\ IF ~Registered(c)
         THEN UNCHANGED <<clients, sizeClient, height, resized, wantShutdown, unchecked>>
         ELSE /\ RemoveClient(c)
              /\ IF Scoped(c)
                 THEN /\ sizeClient' = OwnerAfterRemoval(c)
                      /\ UNCHANGED <<height, resized, wantShutdown, unchecked>>
                 ELSE /\ SyncWindowSize(activeWindow, OwnerAfterRemoval(c), clients', rows, height, resized)
                      /\ ExitIfUnattached
      /\ UNCHANGED <<rows, hadClient, windows, activeWindow, windowCounter, conn, reloading, toLeave>>

Handle(e) ==
  \/ e.type = "attach" /\ (HandleAttach(e) \/ HandleAttachFails(e))
  \/ e.type = "attachPane" /\ HandleAttachPane(e)
  \/ e.type = "attachWindow" /\ HandleAttachWindow(e)
  \/ e.type = "resizeMirror" /\ HandleResizeMirror(e)
  \/ e.type = "resize" /\ HandleResize(e)
  \/ e.type = "input" /\ HandleInput(e)
  \/ e.type \in {"focus", "ui", "shown", "unknown"} /\ HandleUIEvent(e)
  \/ e.type = "detach" /\ HandleDetach(e)

HandleEvent ==
  /\ events # << >>
  /\ Handle(Head(events))
  /\ events' = Tail(events)
  /\ UNCHANGED <<kind, toShow, messages>>

(***************************************************************************)
(* The connections.                                                        *)
(***************************************************************************)
Enqueue(type, c, size, w) ==
  events' = Append(events, [type |-> type, client |-> c, size |-> size, window |-> w])

\* The first message of a connection asks to attach.
Dial(c) ==
  /\ conn[c] = "idle"
  /\ conn' = [conn EXCEPT ![c] = "attaching"]
  /\ \/ /\ kind[c] \in {"interactive", "plain"}
        /\ \E s \in Sizes \ {0} : Enqueue("attach", c, s, 0)
     \/ /\ kind[c] = "pane"
        /\ Enqueue("attachPane", c, 0, 0)
     \/ /\ kind[c] = "window"
        /\ \E s \in MirrorSizes, w \in WindowIDs : Enqueue("attachWindow", c, s, w)
  /\ UNCHANGED <<kind, registry, layout, toShow, reload, messages>>

\* The first layout and screens are sent; the goroutine starts reading.
FinishAttach(c) ==
  /\ conn[c] = "sending"
  /\ conn' = [conn EXCEPT ![c] = "reading"]
  /\ UNCHANGED <<kind, events, registry, layout, toShow, reload, messages>>

\* A send fails: the connection is closed, and no detach event is queued.
FailAttach(c) ==
  /\ conn[c] = "sending"
  /\ conn' = [conn EXCEPT ![c] = "aborted"]
  /\ UNCHANGED <<kind, events, registry, layout, toShow, reload, messages>>

Message(c) ==
  /\ conn[c] = "reading" /\ messages < MaxMessages
  /\ messages' = messages + 1
  /\ UNCHANGED <<kind, conn, registry, layout, toShow, reload>>

SendInput(c) ==
  /\ ~Scoped(c) /\ Message(c)
  /\ Enqueue("input", c, 0, 0)

\* The terminal gets the focus, or the user opens or closes an overlay; a client
\* of another version may send events that this server does not know.
SendUIEvent(c) ==
  /\ ~Scoped(c) /\ Message(c)
  /\ \E type \in {"focus", "ui", "unknown"} : Enqueue(type, c, 0, 0)

\* A client that was told to enter copy mode reports that it shows it.
ReportCopyMode(c) ==
  /\ c \in toShow /\ conn[c] = "reading"
  /\ toShow' = toShow \ {c}
  /\ Enqueue("shown", c, 0, 0)
  /\ UNCHANGED <<kind, conn, registry, layout, reload, messages>>

SendResize(c) ==
  /\ ~Scoped(c) /\ Message(c)
  /\ \E s \in Sizes : Enqueue("resize", c, s, 0)

\* The only message a window subscriber may send.
SendResizeMirror(c) ==
  /\ kind[c] = "window" /\ Message(c)
  /\ \E s \in MirrorSizes \ {0}, w \in WindowIDs : Enqueue("resizeMirror", c, s, w)

\* The client detaches, or its connection breaks: readLoop returns.
Disconnect(c) ==
  /\ conn[c] = "reading"
  /\ conn' = [conn EXCEPT ![c] = "closed"]
  /\ Enqueue("detach", c, 0, 0)
  /\ UNCHANGED <<kind, registry, layout, toShow, reload, messages>>

(***************************************************************************)
(* Commands, each one mutation on the session loop.                        *)
(***************************************************************************)
Command ==
  /\ windows # << >> /\ messages < MaxMessages
  /\ messages' = messages + 1
  /\ UNCHANGED <<kind, conn, events, clients, rows, hadClient, wantShutdown, reload>>

\* Faulty variant: a new window takes the newest client's size.
NewWindowForgetful ==
  LET w == windowCounter + 1
  IN  /\ Command /\ UNCHANGED toShow
      /\ w \in WindowIDs
      /\ windows' = Append(windows, w) /\ activeWindow' = w /\ windowCounter' = w
      /\ SyncWindowSize(w, None, clients, rows,
           [height EXCEPT ![w] = height[activeWindow]],
           IF activeWindow \in resized THEN resized \cup {w} ELSE resized)

NewWindow ==
  LET w == windowCounter + 1
  IN  /\ Command /\ UNCHANGED toShow
      /\ w \in WindowIDs
      /\ windows' = Append(windows, w) /\ activeWindow' = w /\ windowCounter' = w
      /\ SyncWindowSize(w, sizeClient, clients, rows,
           [height EXCEPT ![w] = height[activeWindow]],
           IF activeWindow \in resized THEN resized \cup {w} ELSE resized)

SelectWindow ==
  /\ Command /\ UNCHANGED toShow
  /\ \E w \in Range(windows) :
       /\ activeWindow' = w
       /\ SyncWindowSize(w, sizeClient, clients, rows, height, resized)
  /\ UNCHANGED <<windows, windowCounter>>

\* Faulty variant: the next window becomes active at the size it had.
CloseWindowUnsized(w) ==
  /\ windows' = Remove(windows, w)
  /\ activeWindow' = IF w = activeWindow THEN Head(windows') ELSE activeWindow
  /\ UNCHANGED <<sizeClient, height, resized, windowCounter>>

\* Faulty variant: the closed window stays the active one.
CloseWindowUnfocused(w) ==
  /\ windows' = Remove(windows, w)
  /\ UNCHANGED <<activeWindow, sizeClient, height, resized, windowCounter>>

\* closePaneInWindow for the last pane of a window that is not the last one.
CloseWindow(w) ==
  /\ windows' = Remove(windows, w)
  /\ IF w = activeWindow
     THEN /\ activeWindow' = Head(windows')
          /\ SyncWindowSize(Head(windows'), sizeClient, clients, rows, height, resized)
     ELSE UNCHANGED <<activeWindow, sizeClient, height, resized>>
  /\ UNCHANGED windowCounter

KillWindow ==
  /\ Command /\ UNCHANGED toShow
  /\ Len(windows) > 1
  /\ \E w \in Range(windows) : CloseWindow(w)

\* resize-window sets every window, whatever the size owner has.
ResizeWindow ==
  /\ Command /\ UNCHANGED toShow
  /\ \E s \in Sizes \ {0} :
       height' = [w \in WindowIDs |-> IF Contains(windows, w) THEN s - GlobalBarHeight ELSE height[w]]
  /\ resized' = resized \cup Range(windows)
  /\ UNCHANGED <<sizeClient, windows, activeWindow, windowCounter>>

\* copy-mode is broadcast to the clients; the session does not change.
CopyMode ==
  /\ Command
  /\ toShow' = {c \in Range(clients) : ~Scoped(c)}
  /\ UNCHANGED <<sizeClient, layout>>

(***************************************************************************)
(* Reload.  An exec that succeeds replaces the process, and this session   *)
(* ends; what is of interest here is one that fails.                       *)
(***************************************************************************)
RequestReload ==
  /\ ~reloading /\ messages < MaxMessages
  /\ messages' = messages + 1
  /\ reloading' = TRUE /\ toLeave' = Range(clients)
  /\ UNCHANGED <<kind, conn, events, registry, layout, toShow, unchecked>>

\* The clients Reload has found are removed: no resize, no exit check, and no
\* new owner among those that have attached since.
DisconnectClientsForReload ==
  /\ reloading /\ toLeave # {}
  /\ clients' = SelectSeq(clients, LAMBDA c : c \notin toLeave)
  /\ sizeClient' = IF sizeClient \in toLeave THEN None ELSE sizeClient
  /\ unchecked' = (unchecked \/ clients' # clients)
  /\ toLeave' = {}
  /\ UNCHANGED <<kind, conn, events, rows, hadClient, wantShutdown, layout, toShow, reloading, messages>>

\* A step before the clients are removed fails, or the exec after it.
ReloadFails ==
  /\ reloading
  /\ reloading' = FALSE /\ toLeave' = {}
  /\ UNCHANGED <<kind, conn, events, registry, layout, toShow, unchecked, messages>>

Next ==
  \/ HandleEvent
  \/ \E c \in Clients :
       \/ Dial(c) \/ FinishAttach(c) \/ FailAttach(c)
       \/ SendInput(c) \/ SendUIEvent(c) \/ ReportCopyMode(c)
       \/ SendResize(c) \/ SendResizeMirror(c)
       \/ Disconnect(c)
  \/ NewWindow \/ SelectWindow \/ KillWindow \/ ResizeWindow \/ CopyMode
  \/ RequestReload \/ DisconnectClientsForReload \/ ReloadFails

Spec == Init /\ [][Next]_vars

(***************************************************************************)
(* Properties.                                                             *)
(***************************************************************************)
Event == [type : {"attach", "attachPane", "attachWindow", "resizeMirror", "resize", "input",
                  "focus", "ui", "shown", "unknown", "detach"},
          client : Clients, size : Sizes \cup MirrorSizes \cup {0}, window : WindowIDs \cup {0}]

\* Types: a client is registered once, and the active window is a window.
TypeOK ==
  /\ kind \in [Clients -> Kinds]
  /\ conn \in [Clients -> {"idle", "attaching", "sending", "reading", "closed", "aborted"}]
  /\ events \in Seq(Event)
  /\ clients \in Seq(Clients) /\ IsInjective(clients)
  /\ sizeClient \in Clients \cup {None}
  /\ rows \in [Clients -> Sizes \cup {0}]
  /\ hadClient \in BOOLEAN /\ wantShutdown \in BOOLEAN
  /\ windows \in Seq(WindowIDs)
  /\ activeWindow \in Range(windows) \cup {0}
  /\ activeWindow = 0 => windows = << >>
  /\ height \in [WindowIDs -> Int] /\ resized \subseteq WindowIDs
  /\ windowCounter \in 0..MaxWindows /\ messages \in 0..MaxMessages
  /\ toShow \subseteq Clients /\ toLeave \subseteq Clients
  /\ reloading \in BOOLEAN /\ unchecked \in BOOLEAN

\* The size owner is a registered interactive client, and there is one while
\* an interactive client is registered (clientManager.effectiveSizeClient),
\* unless a reload that failed has removed clients.
OwnerIsAttached ==
  /\ sizeClient # None => Registered(sizeClient) /\ kind[sizeClient] = "interactive"
  /\ sizeClient = None /\ ~unchecked => \A c \in Range(clients) : kind[c] # "interactive"

\* Whatever is attached, detached, selected or closed, the active window fits
\* the owner's terminal (recalcSize, activateWindow), unless someone has resized
\* it or its owner became the owner with a UI event the server does not know.
ActiveWindowFits ==
  (sizeClient # None /\ rows[sizeClient] # 0 /\ activeWindow \notin resized) =>
    height[activeWindow] = rows[sizeClient] - GlobalBarHeight

\* The size passes from an owner that stays to another client only while the
\* loop handles an event of that client's connection (noteClientActivity):
\* nobody's departure, no other client's resize and no command's own mutation,
\* such as a new window, takes it away.  The event may be the report of a client
\* that a command told to enter copy mode, which the comment in
\* clientConn.handleCommand rules out: "Only real terminal interaction (input,
\* resize, focus) should transfer size ownership between clients."
OwnershipByOwnEvent ==
  [][(sizeClient' # sizeClient /\ sizeClient # None /\ sizeClient \in Range(clients')) =>
       /\ events # << >> /\ events' = Tail(events)
       /\ Head(events).client = sizeClient'
       /\ Head(events).type \in {"attach", "resize", "input", "focus", "ui", "shown", "unknown"}]_vars

\* Once every connection has closed after an interactive one had attached, the
\* server is told to stop (exit-unattached; comment on Session.exitServer), if
\* none was a pane or window subscriber, none broke before its first screens,
\* and none left or was removed during a reload that failed.
ExitsWhenUnattached ==
  (/\ hadClient /\ events = << >> /\ ~unchecked
   /\ \A c \in Clients : conn[c] = "idle" \/ (conn[c] = "closed" /\ ~Scoped(c)))
    => wantShutdown

\* A connection that has closed does not stay registered: the detach event that
\* removes it is queued, and nothing the connection queued before it can
\* register it again after.
ClosedIsForgotten ==
  \A c \in Clients : conn[c] = "closed" /\ Registered(c) =>
    events # << >> /\ \E i \in DOMAIN events :
      /\ events[i].type = "detach" /\ events[i].client = c
      /\ \A j \in DOMAIN events : events[j].client = c => j <= i
=============================================================================
