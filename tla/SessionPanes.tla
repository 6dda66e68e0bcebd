---------------------------- MODULE SessionPanes ----------------------------
(***************************************************************************)
(* A session's panes: the flat registry (Session.Panes), the windows that  *)
(* lay them out, the stack of soft-closed panes that undo can restore, the *)
(* timers of the undo manager, and the shells behind the panes.  Every     *)
(* action is one event of the session's event loop, except those of the    *)
(* environment: timers firing, shells exiting, and respawns being built.   *)
(*                                                                         *)
(* A window's layout tree is abstracted to the set of panes in it.         *)
(* Whether a split finds room (or is refused because its target is the     *)
(* lead pane) is a choice.                                                 *)
(***************************************************************************)
EXTENDS Integers, Sequences, FiniteSets

CONSTANTS
  MaxWindows,     \* bound on window IDs ever allocated
  MaxRequests     \* bound on panes created, respawns, kill --cleanups and
                  \* refused splits, together

ASSUME BoundsAssumption == {MaxWindows, MaxRequests} \subseteq Nat

Pane == 1..MaxRequests

\* A pane's placeholder (0), the shell first built for it (1), its respawns.
Instance == 0..(MaxRequests + 1)

VARIABLES
  registry,       \* Session.Panes, by ID
  layout,         \* [windows, active, previous]: Session.Windows and its IDs
  closed,         \* UndoManager.closedPanes, most recent last
  grace,          \* panes with a running grace timer (closedPaneTimers)
  due, stale,     \* panes with an undoExpiryEvent queued: of their present
                  \* soft close, or of one that was undone since
  cleanupKills,   \* keys of UndoManager.pendingCleanupKills
  cleanupTimers,  \* those whose timer still runs
  cleanupDue,     \* panes with a paneCleanupTimeoutEvent queued
  building,       \* panes whose localPaneBuildResultEvent is to come
  current,        \* the instance a pane's ID stands for
  running,        \* <<pane, instance>> with a live shell
  exits,          \* paneExitEvents queued, with the instance that exited
  respawning,     \* respawns between the build and the swap
  abandoned,      \* shells whose respawn command ended before its swap
  created,        \* Session.counter
  createdWindows, \* Session.windowCounter
  respawns, cleanups, \* commands issued so far
  refused,        \* splits that failed so far
  exiting         \* the last pane is gone and the server shuts down

undoVars == <<closed, grace, due, stale>>
cleanupVars == <<cleanupKills, cleanupTimers, cleanupDue, cleanups>>
shellVars == <<current, running, exits, respawning, abandoned, respawns>>
idVars == <<created, createdWindows, refused>>
vars == <<registry, layout, undoVars, cleanupVars, building, shellVars, idVars,
          exiting>>

Request == created + respawns + cleanups + refused < MaxRequests

\* A split finds room, or does not.
Fits == UNCHANGED refused
Refused == Request /\ refused' = refused + 1

Closed == {closed[i] : i \in 1..Len(closed)}

-----------------------------------------------------------------------------
(* Windows. *)

Ids(l) == {l.windows[i].id : i \in 1..Len(l.windows)}

Position(l, id) == CHOOSE i \in 1..Len(l.windows) : l.windows[i].id = id

PanesOf(l) == UNION {l.windows[i].panes : i \in 1..Len(l.windows)}

FindWindowByPaneID(l, p) ==
  CHOOSE i \in 1..Len(l.windows) : p \in l.windows[i].panes

ActiveWindow(l) == IF l.active \in Ids(l) THEN l.active ELSE l.windows[1].id

\* 0 when there is no previous window; a dangling ID is also forgotten.
PreviousWindow(l) ==
  IF l.previous = l.active \/ l.previous \notin Ids(l) THEN 0 ELSE l.previous

ForgetStale(l) ==
  [l EXCEPT !.previous = IF @ \in Ids(l) \cup {0, l.active} THEN @ ELSE 0]

ActivateWindow(l, id) ==
  [l EXCEPT !.previous = IF l.active \in {0, id} THEN @
                         ELSE IF l.active \in Ids(l) THEN l.active ELSE 0,
            !.active = id]

\* Faulty variant: one that keeps naming the removed window as the previous one.
RemoveWindowKeepingPrevious(l, id) ==
  LET rest == [l EXCEPT !.windows = SelectSeq(@, LAMBDA w : w.id # id)]
      next == IF PreviousWindow(rest) # 0 THEN PreviousWindow(rest)
              ELSE IF rest.windows # << >> THEN rest.windows[1].id ELSE 0
  IN  IF l.active = id THEN [rest EXCEPT !.active = next] ELSE rest

RemoveWindow(l, id) ==
  LET rest == [l EXCEPT !.windows = SelectSeq(@, LAMBDA w : w.id # id)]
      next == IF PreviousWindow(rest) # 0 THEN PreviousWindow(rest)
              ELSE IF rest.windows # << >> THEN rest.windows[1].id ELSE 0
      left == IF l.active = id THEN [ForgetStale(rest) EXCEPT !.active = next]
              ELSE rest
  IN  [left EXCEPT !.previous = IF @ = id THEN 0 ELSE @]

\* Removing a whole window hands the focus to the first one left.
CloseWholeWindow(l, id) ==
  LET rest == RemoveWindow(l, id)
  IN  IF l.active = id /\ rest.windows # << >>
      THEN ActivateWindow(rest, rest.windows[1].id) ELSE rest

TakePane(l, p) ==
  [l EXCEPT !.windows[FindWindowByPaneID(l, p)].panes = @ \ {p}]

ClosePaneInWindow(l, p) ==
  IF p \notin PanesOf(l) THEN l
  ELSE LET w == l.windows[FindWindowByPaneID(l, p)]
       IN  IF w.panes = {p} THEN CloseWholeWindow(l, w.id) ELSE TakePane(l, p)

Split(l, id, p) == [l EXCEPT !.windows[Position(l, id)].panes = @ \cup {p}]

AppendWindow(l, id, ps) ==
  [l EXCEPT !.windows = Append(@, [id |-> id, panes |-> ps])]

-----------------------------------------------------------------------------
(* Removal. *)

\* Faulty variant: one that forgets the cleanup entry without stopping its timer.
FinalizePaneRemovalTimerOn(p) ==
  /\ registry' = registry \ {p}
  /\ layout' = ClosePaneInWindow(layout, p)
  /\ cleanupKills' = cleanupKills \ {p}
  /\ exiting' = (Cardinality(registry) <= 1)
  /\ UNCHANGED <<cleanupTimers, cleanupDue, cleanups, building>>

\* removePane, closePaneInWindow, and the exit with the last pane.
FinalizePaneRemoval(p) ==
  /\ registry' = registry \ {p}
  /\ layout' = ClosePaneInWindow(layout, p)
  /\ cleanupKills' = cleanupKills \ {p}
  /\ cleanupTimers' = cleanupTimers \ {p}
  /\ exiting' = (Cardinality(registry) <= 1)
  /\ UNCHANGED <<cleanupDue, cleanups, building>>

\* The runtime that p's ID stands for is closed, its callbacks with it.
CloseRuntime(ps) == running' = running \ {<<p, current[p]>> : p \in ps}

\* Faulty variant: one that drops the pane without closing its runtime.
FinalizeClosedPaneOpen(p) ==
  /\ closed' = SelectSeq(closed, LAMBDA q : q # p)
  /\ grace' = grace \ {p}
  /\ UNCHANGED running

\* finalizeClosedPane: p leaves the undo stack for good.
FinalizeClosedPane(p) ==
  /\ closed' = SelectSeq(closed, LAMBDA q : q # p)
  /\ grace' = grace \ {p}
  /\ CloseRuntime({p})

-----------------------------------------------------------------------------
Init ==
  /\ registry = {}
  /\ layout = [windows |-> << >>, active |-> 0, previous |-> 0]
  /\ closed = << >> /\ grace = {} /\ due = {} /\ stale = {}
  /\ cleanupKills = {} /\ cleanupTimers = {} /\ cleanupDue = {}
  /\ building = {}
  /\ current = [p \in Pane |-> 0]
  /\ running = {} /\ exits = {} /\ respawning = {} /\ abandoned = {}
  /\ created = 0 /\ createdWindows = 0
  /\ respawns = 0 /\ cleanups = 0 /\ refused = 0
  /\ exiting = FALSE

\* preparePendingLocalPane and startPendingLocalPaneBuild: a placeholder is
\* registered at once, its shell is built in the background.
RegisterPlaceholder ==
  /\ Request
  /\ created' = created + 1
  /\ registry' = registry \cup {created'}
  /\ building' = building \cup {created'}
  /\ UNCHANGED <<undoVars, cleanupVars, shellVars, exiting>>

\* Faulty variant: one that starts afresh whatever panes are left.
EnsureInitialWindowFresh ==
  /\ ~exiting /\ layout.windows = << >>
  /\ createdWindows < MaxWindows
  /\ createdWindows' = createdWindows + 1
  /\ RegisterPlaceholder
  /\ layout' = [AppendWindow(layout, createdWindows', {created'})
                  EXCEPT !.active = createdWindows']
  /\ Fits

\* The first attach creates a window; panes left without any are gathered.
EnsureInitialWindow ==
  /\ ~exiting /\ layout.windows = << >>
  /\ createdWindows < MaxWindows
  /\ createdWindows' = createdWindows + 1
  /\ \/ /\ registry = {}
        /\ RegisterPlaceholder
        /\ layout' = [AppendWindow(layout, createdWindows', {created'})
                        EXCEPT !.active = createdWindows']
        /\ Fits
     \/ /\ registry # {}
        /\ \/ /\ layout' = [AppendWindow(layout, createdWindows', registry)
                              EXCEPT !.active = createdWindows']
              /\ Fits
           \/ /\ Cardinality(registry) > 1 /\ Refused
              /\ layout' = layout
        /\ UNCHANGED <<registry, undoVars, cleanupVars, building, shellVars,
                       created, exiting>>

\* split and spawn; a placeholder that finds no room is taken back.
CreatePane(id) ==
  /\ ~exiting /\ id \in Ids(layout)
  /\ UNCHANGED createdWindows
  /\ \/ /\ Fits
        /\ RegisterPlaceholder
        /\ layout' = Split(layout, id, created')
     \/ /\ Refused
        /\ created' = created + 1
        /\ UNCHANGED <<registry, layout, undoVars, cleanupVars, building,
                       shellVars, exiting>>

NewWindow ==
  /\ ~exiting /\ layout.windows # << >>
  /\ createdWindows < MaxWindows
  /\ createdWindows' = createdWindows + 1
  /\ RegisterPlaceholder
  /\ layout' = ActivateWindow(
                 AppendWindow(layout, createdWindows', {created'}),
                 createdWindows')
  /\ UNCHANGED refused

\* Faulty variant: one that puts the built pane back when it finds none.
BuildResultRevives(p, ok) ==
  /\ ~exiting /\ p \in building
  /\ building' = building \ {p}
  /\ IF p \in registry \cup Closed \/ layout.windows = << >>
     THEN UNCHANGED <<registry, layout>>
     ELSE /\ registry' = registry \cup {p}
          /\ layout' = Split(layout, ActiveWindow(layout), p)
  /\ UNCHANGED <<undoVars, cleanupVars, shellVars, idVars, exiting>>

\* localPaneBuildResultEvent: the pane that has the ID now is replaced,
\* whatever it is; a failure removes it.
BuildResult(p, ok) ==
  /\ ~exiting /\ p \in building
  /\ building' = building \ {p}
  /\ IF p \notin registry
     THEN UNCHANGED <<registry, layout, cleanupVars, current, running>>
     ELSE IF ok /\ p \in PanesOf(layout)
     THEN /\ current' = [current EXCEPT ![p] = 1]
          /\ running' = (running \ {<<p, current[p]>>}) \cup {<<p, 1>>}
          /\ UNCHANGED <<registry, layout, cleanupVars>>
     ELSE /\ registry' = registry \ {p}
          /\ layout' = ClosePaneInWindow(layout, p)
          /\ cleanupKills' = cleanupKills \ {p}
          /\ cleanupTimers' = cleanupTimers \ {p}
          /\ CloseRuntime({p})
          /\ UNCHANGED <<cleanupDue, cleanups, current>>
  /\ UNCHANGED <<undoVars, exits, respawning, abandoned, respawns, idVars,
                 exiting>>

-----------------------------------------------------------------------------
(* Closing and undo. *)

\* Faulty variants: they leave the pane registered, or start no timer.
SoftCloseRegistered(ps, order) ==
  /\ closed' = closed \o order
  /\ grace' = grace \cup ps
  /\ UNCHANGED <<registry, due, stale>>

SoftCloseNoTimer(ps, order) ==
  /\ registry' = registry \ ps
  /\ closed' = closed \o order
  /\ UNCHANGED <<grace, due, stale>>

\* softClosePane, for a pane that is not the last.
SoftClose(ps, order) ==
  /\ registry' = registry \ ps
  /\ closed' = closed \o order
  /\ grace' = grace \cup ps
  /\ UNCHANGED <<due, stale>>

Kill(p) ==
  /\ ~exiting /\ p \in registry
  /\ \/ /\ registry = {p}
        /\ FinalizePaneRemoval(p)
        /\ CloseRuntime({p})
        /\ UNCHANGED undoVars
     \/ /\ registry # {p}
        /\ SoftClose({p}, <<p>>)
        /\ layout' = ClosePaneInWindow(layout, p)
        /\ UNCHANGED <<cleanupVars, building, running, exiting>>
  /\ UNCHANGED <<current, exits, respawning, abandoned, respawns, idVars>>

\* Soft-closes the active window's panes one by one.  If they were the last
\* the final one is closed for good, and the runtimes of all of them.
CloseWindow ==
  /\ ~exiting /\ layout.windows # << >>
  /\ LET id == ActiveWindow(layout)
         ps == layout.windows[Position(layout, id)].panes
     IN  \E order \in [1..Cardinality(ps) -> ps] :
           /\ \A p \in ps : \E i \in DOMAIN order : order[i] = p
           /\ \/ /\ registry # ps
                 /\ SoftClose(ps, order)
                 /\ UNCHANGED <<cleanupKills, cleanupTimers, running, exiting>>
              \/ /\ registry = ps
                 /\ LET last == order[Len(order)] IN
                      /\ SoftClose(ps, SubSeq(order, 1, Len(order) - 1))
                      /\ cleanupKills' = cleanupKills \ {last}
                      /\ cleanupTimers' = cleanupTimers \ {last}
                 /\ CloseRuntime(ps)
                 /\ exiting' = TRUE
           /\ layout' = CloseWholeWindow(layout, id)
  /\ UNCHANGED <<cleanupDue, cleanups, building, current, exits, respawning,
                 abandoned, respawns, idVars>>

\* undoClosePane: registered again first, then split into the active window.
\* The error of a failed split leaves the registration in place.
Undo ==
  /\ ~exiting /\ closed # << >>
  /\ LET p == closed[Len(closed)] IN
       /\ closed' = SubSeq(closed, 1, Len(closed) - 1)
       /\ grace' = grace \ {p}
       /\ due' = due \ {p}
       /\ stale' = stale \cup (due \cap {p})
       /\ registry' = registry \cup {p}
       /\ \/ /\ layout.windows # << >> /\ Fits
             /\ layout' = Split(layout, ActiveWindow(layout), p)
          \/ /\ (layout.windows = << >> /\ Fits) \/ Refused
             /\ UNCHANGED layout
  /\ UNCHANGED <<cleanupVars, building, shellVars, created, createdWindows,
                 exiting>>

GraceTimerFires(p) ==
  /\ p \in grace
  /\ grace' = grace \ {p}
  /\ due' = due \cup {p}
  /\ UNCHANGED <<registry, layout, closed, stale, cleanupVars, building,
                 shellVars, idVars, exiting>>

\* The event carries only the pane's ID, so one of a soft close that was
\* undone is handled like any other.
UndoExpiry(p) ==
  /\ ~exiting
  /\ \/ p \in due /\ due' = due \ {p} /\ UNCHANGED stale
     \/ p \in stale /\ stale' = stale \ {p} /\ UNCHANGED due
  /\ IF p \in Closed THEN FinalizeClosedPane(p)
     ELSE UNCHANGED <<closed, grace, running>>
  /\ UNCHANGED <<registry, layout, cleanupVars, building, current, exits,
                 respawning, abandoned, respawns, idVars, exiting>>

-----------------------------------------------------------------------------
(* kill --cleanup *)

\* beginPaneCleanupKill: signals, if there is a process, and starts a timer.
KillCleanup(p) ==
  /\ ~exiting /\ p \in registry
  /\ Request
  /\ p \notin cleanupKills
  /\ cleanups' = cleanups + 1
  /\ cleanupKills' = cleanupKills \cup {p}
  /\ cleanupTimers' = cleanupTimers \cup {p}
  /\ UNCHANGED <<registry, layout, undoVars, cleanupDue, building, shellVars,
                 idVars, exiting>>

CleanupTimerFires(p) ==
  /\ p \in cleanupTimers
  /\ cleanupTimers' = cleanupTimers \ {p}
  /\ cleanupDue' = cleanupDue \cup {p}
  /\ UNCHANGED <<registry, layout, undoVars, cleanupKills, cleanups, building,
                 shellVars, idVars, exiting>>

\* Does nothing, not even to the table, while the pane is soft-closed.
CleanupTimeout(p) ==
  /\ ~exiting /\ p \in cleanupDue
  /\ cleanupDue' = cleanupDue \ {p}
  /\ IF p \in registry
     THEN /\ registry' = registry \ {p}
          /\ layout' = ClosePaneInWindow(layout, p)
          /\ cleanupKills' = cleanupKills \ {p}
          /\ cleanupTimers' = cleanupTimers \ {p}
          /\ exiting' = (Cardinality(registry) <= 1)
          /\ CloseRuntime({p})
     ELSE UNCHANGED <<registry, layout, cleanupKills, cleanupTimers, exiting,
                      running>>
  /\ UNCHANGED <<undoVars, cleanups, building, current, exits, respawning,
                 abandoned, respawns, idVars>>

-----------------------------------------------------------------------------
(* Shells. *)

\* The callbacks of the instance an ID stands for are not suppressed.
ShellExits(p) ==
  /\ <<p, current[p]>> \in running
  /\ running' = running \ {<<p, current[p]>>}
  /\ exits' = exits \cup {<<p, current[p]>>}
  /\ UNCHANGED <<registry, layout, undoVars, cleanupVars, building, current,
                 respawning, abandoned, respawns, idVars, exiting>>

\* paneExitEvent also carries only the ID.
PaneExit(p, i) ==
  /\ ~exiting /\ <<p, i>> \in exits
  /\ exits' = exits \ {<<p, i>>}
  /\ \/ /\ p \in Closed
        /\ FinalizeClosedPane(p)
        /\ UNCHANGED <<registry, layout, due, stale, cleanupVars, building,
                       exiting>>
     \/ /\ p \in registry
        /\ FinalizePaneRemoval(p)
        /\ UNCHANGED <<undoVars, running>>
     \/ /\ p \notin registry \cup Closed
        /\ UNCHANGED <<registry, layout, undoVars, cleanupVars, building,
                       running, exiting>>
  /\ UNCHANGED <<current, respawning, abandoned, respawns, idVars>>

\* cmdRespawn up to the mutation: the target is looked up, its replacement
\* built outside the event loop.
RespawnBuilt(p) ==
  /\ ~exiting /\ p \in PanesOf(layout)
  /\ Request
  /\ respawns' = respawns + 1
  /\ respawning' = respawning \cup
       {[pane |-> p, target |-> current[p], new |-> respawns + 2]}
  /\ running' = running \cup {<<p, respawns + 2>>}
  /\ UNCHANGED <<registry, layout, undoVars, cleanupVars, building, current,
                 exits, abandoned, idVars, exiting>>

\* The swap, refused when the pane is gone, was replaced, or has no window.
RespawnSwap(r) ==
  /\ ~exiting /\ r \in respawning
  /\ respawning' = respawning \ {r}
  /\ IF /\ r.pane \in registry
        /\ current[r.pane] = r.target
        /\ r.pane \in PanesOf(layout)
     THEN /\ current' = [current EXCEPT ![r.pane] = r.new]
          /\ running' = running \ {<<r.pane, r.target>>}
     ELSE /\ running' = running \ {<<r.pane, r.new>>}
          /\ UNCHANGED current
  /\ UNCHANGED <<registry, layout, undoVars, cleanupVars, building, exits,
                 abandoned, respawns, idVars, exiting>>

\* The command's context ends before the event loop accepts the mutation:
\* nobody closes the shell that was built.
RespawnAbandoned(r) ==
  /\ r \in respawning
  /\ respawning' = respawning \ {r}
  /\ abandoned' = abandoned \cup {<<r.pane, r.new>>}
  /\ UNCHANGED <<registry, layout, undoVars, cleanupVars, building, current,
                 running, exits, respawns, idVars, exiting>>

-----------------------------------------------------------------------------
(* Window commands. *)

Arrange(l) ==
  /\ ~exiting
  /\ layout' = l
  /\ UNCHANGED <<registry, undoVars, cleanupVars, building, shellVars, created,
                 createdWindows, exiting>>

WindowCommand(l) == Arrange(l) /\ UNCHANGED refused

SelectWindow(id) ==
  /\ id \in Ids(layout)
  /\ WindowCommand(ActivateWindow(layout, id))

\* nextWindow and prevWindow: delta is 1 or -1.
CycleWindow(delta) ==
  /\ Len(layout.windows) > 1 /\ layout.active \in Ids(layout)
  /\ LET n == Len(layout.windows)
         i == Position(layout, layout.active)
     IN  WindowCommand(
           ActivateWindow(layout, layout.windows[((i - 1 + delta + n) % n) + 1].id))

LastWindow ==
  WindowCommand(IF PreviousWindow(layout) # 0
                THEN ActivateWindow(layout, PreviousWindow(layout))
                ELSE ForgetStale(layout))

ReorderWindow(from, to) ==
  /\ from \in 1..Len(layout.windows) /\ to \in 1..Len(layout.windows)
  /\ from # to
  /\ LET ws == layout.windows IN
     WindowCommand([layout EXCEPT !.windows = [i \in 1..Len(ws) |->
       IF i = to THEN ws[from]
       ELSE IF from < to /\ i \in from..(to - 1) THEN ws[i + 1]
       ELSE IF to < from /\ i \in (to + 1)..from THEN ws[i - 1]
       ELSE ws[i]]])

\* movePaneToWindow: taken out of its window first; the error of a failed
\* split does not put it back.
MovePaneToWindow(p, id) ==
  /\ p \in PanesOf(layout) /\ id \in Ids(layout)
  /\ LET source == layout.windows[FindWindowByPaneID(layout, p)]
         emptied == source.panes = {p}
         rest == IF emptied THEN RemoveWindow(layout, source.id)
                 ELSE TakePane(layout, p)
         moved == Split(rest, id, p)
     IN  /\ source.id # id
         /\ \/ /\ Fits
               /\ Arrange(IF emptied /\ layout.active = source.id
                                THEN ActivateWindow(moved, id) ELSE moved)
            \/ /\ Refused
               /\ Arrange(rest)

-----------------------------------------------------------------------------
Next ==
  \/ EnsureInitialWindow \/ NewWindow \/ CloseWindow \/ Undo \/ LastWindow
  \/ \E id \in 1..MaxWindows : CreatePane(id) \/ SelectWindow(id)
  \/ \E p \in Pane :
       \/ \E ok \in BOOLEAN : BuildResult(p, ok)
       \/ Kill(p) \/ GraceTimerFires(p) \/ UndoExpiry(p)
       \/ KillCleanup(p) \/ CleanupTimerFires(p) \/ CleanupTimeout(p)
       \/ ShellExits(p) \/ RespawnBuilt(p)
       \/ \E i \in Instance : PaneExit(p, i)
       \/ \E id \in 1..MaxWindows : MovePaneToWindow(p, id)
  \/ \E r \in respawning : RespawnSwap(r) \/ RespawnAbandoned(r)
  \/ \E delta \in {1, -1} : CycleWindow(delta)
  \/ \E from, to \in 1..MaxWindows : ReorderWindow(from, to)

Spec == Init /\ [][Next]_vars

-----------------------------------------------------------------------------
(* Properties. *)

\* The registry, the windows and the undo manager hold IDs that were allocated.
TypeOK ==
  /\ created \in 0..MaxRequests /\ createdWindows \in 0..MaxWindows
  /\ registry \subseteq 1..created
  /\ \A i \in 1..Len(layout.windows) :
       /\ layout.windows[i].id \in 1..createdWindows
       /\ layout.windows[i].panes \subseteq 1..created
  /\ Closed \subseteq 1..created
  /\ grace \cup due \cup stale \subseteq 1..created
  /\ cleanupTimers \subseteq cleanupKills
  /\ cleanupKills \cup cleanupDue \subseteq 1..created
  /\ building \subseteq 1..created
  /\ current \in [Pane -> Instance]
  /\ running \cup exits \subseteq (1..created) \X (Instance \ {0})
  /\ exiting \in BOOLEAN

\* A pane is in at most one place: in one window and registered, or on the
\* undo stack once; no window is empty and no two have the same ID.
OnePlace ==
  /\ \A i, j \in 1..Len(layout.windows) :
       /\ layout.windows[i].panes # {}
       /\ i # j => /\ layout.windows[i].id # layout.windows[j].id
                  /\ layout.windows[i].panes \cap layout.windows[j].panes = {}
  /\ PanesOf(layout) \subseteq registry
  /\ Closed \cap registry = {}
  /\ \A i, j \in 1..Len(closed) : closed[i] = closed[j] => i = j

\* The focus is on a window that exists, and last-window leads to one, as
\* panes exit, windows empty and move in any order.
FocusValid ==
  /\ layout.windows # << >> => layout.active \in Ids(layout)
  /\ layout.previous \in Ids(layout) \cup {0}

\* Every soft-closed pane has its grace timer running or the expiry of this
\* soft close on the way, so no closed shell is kept for ever.
ClosedHasExpiry == Closed \subseteq grace \cup due

\* Behind a pane's ID runs one shell, whatever kills, undos, exits, timeouts
\* and build results come in which order: any other one is the replacement of
\* a respawn under way, or of one whose command was given up before the swap.
\* And it is the shell of a registered or a soft-closed pane, as long as no
\* pane was respawned: paneExitEvent does not say which shell exited.
ShellsOwned ==
  \A s \in running :
    /\ \/ s[2] = current[s[1]]
       \/ \E r \in respawning : s = <<r.pane, r.new>>
       \/ s \in abandoned
    /\ ~exiting /\ respawns = 0 => s[1] \in registry \cup Closed

\* A pane that was removed for good does not come back: no late build
\* result, expiry or exit revives it.
NoResurrection ==
  [][\A p \in 1..created :
       p \notin registry \cup Closed => p \notin registry' \cup Closed']_vars

\* assertPaneLayoutConsistency: every registered pane is in some window, as
\* long as every split found room; only with no window at all may a pane wait
\* for the next attach, which gathers it.
NoGhostPanes ==
  layout.windows # << >> /\ refused = 0 => registry \subseteq PanesOf(layout)
=============================================================================
