# amux in TLA+

amux is a terminal multiplexer for people and coding agents: a server process
per session owns the shells, and clients (terminals, one-shot commands, other
amux servers) talk to it over a socket. This directory holds TLA+ models of the
server's concurrent parts, the TLC configurations that check them on small
instances, and proofs that TLAPS checks. `PROJECT.json` lists the components,
the runs, the source lines of every definition, and the hazards.

## How to run

    tlc -workers 2 -config MCClientStream.cfg MCClientStream      # any MC module
    tlapm EventLoop_proofs.tla                                    # any *_proofs module

Every passing run takes between a few seconds and about three minutes with two
workers.

## The system

**Actors.** A session has one event loop goroutine
(`internal/eventloop/loop.go`, `internal/server/session_actor.go`) which owns
the panes, windows, clients, undo stack and mailbox. Everything else enqueues
events to it or asks it a query and waits:

| actor | state it owns | what it does | talks to |
|---|---|---|---|
| event loop | registry, windows, clients, undo, mailbox, generation | one handler at a time, under a watchdog | everyone |
| pane reader (per pane) | emulator, `outputSeq` | applies PTY output, then enqueues it | event loop (bounded channel, blocks) |
| client connection (per client) | attach handshake | registers, takes the snapshot, turns messages into events | event loop, writer |
| client writer (per client) | two queues, bootstrap filter | merges snapshot, broadcasts and pane output onto the wire | client |
| command goroutine (per command) | its arguments, a context | plans on the loop, works off it, mutates on it | event loop |
| checkpoint coordinator | debounce timer, trigger | builds and renames a crash checkpoint | event loop, disk |
| reload / shutdown | the `shutdown` flag | save, then exec or exit | all of the above |
| capture forwarder | one outstanding request, a queue | passes captures to a client, which renders them | event loop, clients |
| timers | | undo grace, cleanup kills, captures, idleness, watchdog | event loop |
| mirrors | link, generation | subscribe to panes and windows of another server | event loop, other host |

**Operations.** Attach, detach, input, resize, focus; pane create, kill, undo,
respawn, move; window new, select, close, reorder; capture; mailbox send,
reply, read, ack, wait; wait for content, idleness, exit, layout; reload,
shutdown, crash recovery; mirror connect, reconnect, resize.

**What is hard.** State is read in one turn of the loop and used in a later one
(respawn, mailbox send, capture). Queued events outlive what they are about
(undo expiry, pane exits, build results, timeouts). Two paths carry one pane's
content to a client (the attach snapshot and live output). Three goroutines may
write a checkpoint. The loop may end by itself while callers are queued. A
process may die between any two steps, also during recovery.

**What must hold.** A client shows what the pane shows. A refused command did
not run. A capture is the answer to its request. Panes, windows, the undo stack
and shells agree. A recovered session is the last saved one. Messages are not
missed, and a stored one is kept. The windows fit the client that is in use. Calls
return.

## Modules

| module | models | state and actions |
|---|---|---|
| `ClientStream` | `client_writer.go`, attach in `server.go` and `client_conn.go`, output in `session_events_pane.go` and `session_broadcast.go` | the session channel, the writer's `commands`, `paneCommands` and `pending`, `minOutputSeq`, and what is on the wire. Readers apply and enqueue output; the loop handles output, layout, redraw, respawn, attach and detach; the connection takes and sends the snapshot; the writer polls, selects and flushes; a write may fail |
| `PaneFeed` | what a client is promised about one pane | produced, shown, dropped: a snapshot, then each output once and in order, with gaps only where output was dropped |
| `EventLoop` | `eventloop/loop.go`, `session_actor.go`, queries and mutations in `session_events_layout.go` | callers, the bounded queue, the handler goroutine, watchdog, contexts, stop and done |
| `CaptureForward` | `capture_forward.go`, `capture_forwarder.go` | calls that select a client with retries, enqueue, wait, time out and cancel; clients that answer late, break or leave |
| `ServerLifecycle` | `checkpoint.go`, `checkpoint_coordinator.go`, start and shutdown in `server.go`, `checkpoint/crash.go`, `cli/server_bootstrap.go` | coordinator, the users of `WriteNow`, the steps of `Reload`, of which several may run at a time, and of `Shutdown`, crash, start, restore, the files on disk |
| `SessionPanes` | `session_pane.go`, `undo_manager.go`, `session_window.go`, and the pane and window commands | registry, windows, undo stack and timers, cleanup kills, shells and their exits, respawns; one action per event |
| `Mailbox` | `mailbox/store.go`, `server/mailbox.go`, `commands_msg.go` | messages and deliveries, the two-turn send and reply, `wait msg` with its channel and cursors, checkpoints, crashes, and reloads whose snapshot is some steps older than their exec |
| `SessionClients` | `client_manager.go`, `session_events_client.go`, `client_conn.go`, `input_router.go`, attach in `server.go` | connections of four kinds, the event queue, the size owner, window heights, copy mode and its reports, exit-unattached, and the clients a reload removes before an exec that fails |
| `EventLoop_proofs`, `ClientStream_proofs` | | theorems about the two modules |

Each `MC` module instantiates the module it is named after and defines
model-value constants for its configurations. A definition whose comment begins
with "Faulty variant" models a plausible mistake in the definition below it;
nothing uses it in a specification. Each property of a passing run has one that
violates it (`mutants` in `PROJECT.json`).

The modules meet at the event loop. `EventLoop` shows what a query and a
mutation guarantee their caller; the other modules use it in the form "a handler
is one step, and its caller waits for it". `ClientStream` and `SessionClients`
cut the client component in two: one client in full detail, and all clients
without their streams.

### What is abstracted

- Output is the number `applyOutput` gives it, a layout its generation, a
  rendered screen the call it was rendered for, a session's contents the number
  of changes it has seen, a window's layout the set of its panes, a size the
  number of rows.
- Handlers of the loop are single steps. Goroutine steps between two channel or
  lock operations are single steps. A checkpoint build, which asks the loop and
  then the pane actors, is one step.
- Whether a split finds room, a file operation works, an exec succeeds, or a
  client answers is a choice.
- The terminal emulator, the PTY and the file system are modelled by how the
  code uses them: rename is atomic, a closed PTY ends its reader.

## Runs

### Passing

| run | what it checks |
|---|---|
| `stream` | `FeedsEveryPane`: ClientStream implements `PaneFeed` for every pane that is neither redrawn nor respawned. `CaughtUp`: output that is not shown is on its way or was dropped by a full queue. `SnapshotFirst`, `LayoutsInOrder`: the snapshot is the first thing on the wire and no older layout follows a newer one. `EventuallyShown`: an attached client that reads catches up |
| `event_loop` | `RefusedNotExecuted`: a mutation reported as refused did not run, unless the watchdog fired. `CallsReturn`: queued calls return, whatever ends the loop |
| `capture` | `NotStranded`, `NothingAbandoned`: the forwarder keeps every waiting call moving and holds nothing of a finished one. `OwnAnswerUnlessTimeout`: until a call times out answers go to their own call. `EveryCallReturns` |
| `lifecycle` | `FlagOwned`: the flag that silences panes is reset by every failing path. `RecoversLastSaved`, `RecoveryRepeatable`: recovery takes the newest checkpoint and can crash half way. `EventuallyDurable`: a trigger leads to a write. `OperationsEnd`: a reload returns, execs or waits for a client that does not read, and a shutdown ends, also together |
| `panes` | `OnePlace`, `FocusValid`, `NoGhostPanes`: registry, windows and undo stack agree. `ShellsOwned`, `ClosedHasExpiry`, `NoResurrection`: shells, timers and late events follow their pane |
| `mailbox` | `NoMissedMessage`: `wait msg` does not sleep through a message. `WokenWhenDrained`: wake-ups do not stack. `EventNumbersDistinct`: event numbers survive restarts. `MessagesKept`: no message is altered or overwritten, through restarts too |
| `clients` | `OwnerIsAttached`, `OwnershipByOwnEvent`, `ActiveWindowFits`: the owner is attached, is displaced only by an event of the next one, and has the active window's size. `ExitsWhenUnattached`, `ClosedIsForgotten`: connections are forgotten and the server stops |

Each run also checks the module's `TypeOK`.

### Violations

Five runs state what a comment or document says and find a behaviour of the
code that differs.

| run | property | behaviour found |
|---|---|---|
| `respawned_output` | `RespawnedOutputShown` | a respawned pane counts its output from 0, and a client that attached before keeps the threshold of its bootstrap: the new shell's first output is dropped (`client_writer.go:97`) |
| `capture_late_answer` | `OwnAnswer` | a response that comes after its call timed out is given to the next call (`capture_forwarder.go:30`) |
| `shutdown_snapshot` | `FinalSnapshot` | when a handler asks for the shutdown, the loop ends before the final checkpoint is built, and none is written (`session_events_layout.go:557`) |
| `mailbox_reply_home` | `InferredReplyGoesHome` | a reply to a message of another host goes to the local pane with the sender's number (`commands_msg.go:846`) |
| `mailbox_reload` | `FreshIDs` | a message stored between a reload's snapshot and its exec is lost, although its ID was returned, and the next message gets that ID (`checkpoint.go:51`, `checkpoint.go:129`) |

### Qualifications

Some properties are stated with an exception, because the model has a behaviour
in which the plain form fails. The exceptions, and other behaviours that are in
the models without a property that excludes them:

- `RefusedNotExecuted` excepts the watchdog: it ends the loop while the handler
  still runs.
- `CallsReturn` excepts a caller with a context of its own at a full queue: when
  the loop ends by itself it closes `done` and not `stop`, on which `Enqueue`
  waits (`loop.go:251`).
- `ShellsOwned` excepts sessions with a respawn, since `paneExitEvent` names no
  shell, and shells of a respawn whose client left before the swap
  (`commands_layout.go:795`).
- `NoGhostPanes` excepts sessions with a refused split: a refused undo leaves
  its pane registered in no window (`session_pane.go:427`).
- An undo expiry already queued when its pane was restored applies to the next
  soft close of that pane (`undo_manager.go:186`).
- A pane killed while its shell is being built goes to the undo stack as a
  placeholder; the build's result finds no such pane and closes the shell, so
  undo restores a pane without one (`session_events_pane.go:253`), although
  softClosePane says that the PTY stays alive for undo (`session_pane.go:358`).
- `EventuallyShown` and `OperationsEnd` do not assume that a client reads: a
  write to a socket has no deadline. The first has a client that reads as its
  premise. In the second a reload may wait without end for a client's writer to
  take its notice (`checkpoint.go:107`, `client_writer.go:300`); the session's
  `shutdown` flag, which silences the panes, stays set meanwhile, and
  `FlagOwned` allows for it since the reload is still under way.
- Two reloads share that flag: the first to fail clears it under the other.
- `ActiveWindowFits` excepts a window whose owner took its place with a UI event
  the server does not know: `uiEventCmd.handle` changes the owner first, then
  refuses the event and returns without a resize
  (`session_events_client.go:417`, `:427`). The next resize, selection or change
  of owner repairs it.
- `OwnershipByOwnEvent` counts every UI event as the client's own. The comment
  at `client_conn.go:522` says "Only real terminal interaction (input, resize,
  focus) should transfer size ownership between clients", and the code differs:
  `copy-mode` is broadcast to all clients (`commands_layout.go:1002`), each
  reports `copy-mode-shown` (`client/ui_state.go:216`), and each report makes its
  sender the owner. In the model these are the events `"shown"`; without them
  among the types of `OwnershipByOwnEvent` TLC finds it violated.
- `ExitsWhenUnattached` excepts pane and window subscribers and attaches that
  fail before their first screens (`server.go:393`, `server.go:1057`). It and
  half of `OwnerIsAttached` also except sessions in which a reload that failed
  had removed clients, or one left during it: neither the exit check nor the
  choice of a new owner is made up for (`session_events_client.go:534`).
- `NoMissedMessage` excepts a channel that overflowed (`bus.go:36`), `FreshIDs`
  the IDs a crash made the server forget: the restored counter is the last
  checkpoint's (`checkpoint.go:217`). For the same reason event numbers issued
  after the last checkpoint are issued again after a crash.
- A message may be stored for a pane that closed after the send was planned, and
  a send to several hosts may fail after the first (`commands_msg.go:752`,
  `commands_msg.go:1224`).
- Output between a reload's snapshot and its exec, and a checkpoint that is
  renamed after a newer one (`server.go:831`), are in `ServerLifecycle`;
  `RecoversLastSaved` is about the file written last.
- A capture may select a window subscriber (`capture_forward.go:97`).

## Bounds

Each module has one budget for what may happen any number of times, shared
between the kinds of events, so that every combination up to its size occurs.

| run | instance | why it is enough |
|---|---|---|
| `stream` | two panes, one redrawn and respawned; three outputs, commands or wakings from idleness; event channel 1, writer queues 2 | output before, during and after each step of the handshake, both queues full, and the select of the writer with both channels ready |
| `event_loop` | a query and two mutations, one on the session's context; queue of 1 | a caller that blocks at the full queue while another is handled and a third waits |
| `capture` | two calls, one of a single pane; two full clients; two attempts | one outstanding and one queued request, answers crossing a timeout, a client leaving at each step |
| `lifecycle` | two reloads at a time, two changes, one second, two incidents (restarts, reloads and failures) | a crash during recovery, a reload during shutdown or during another, two checkpoints in one second and in two |
| `panes` | two windows; three panes, respawns, cleanups and refused splits in all | a pane killed, restored and killed again with a queued expiry; a move that empties a window |
| `mailbox` | two panes, one sender, one waiter, one topic and filters that match it or not, one other host; channel of 1, store of 2; four events | a wait whose channel overflows, a full store, a crash between send and read, a send between a reload's snapshot and its exec |
| `clients` | two clients of any kind, three sizes, two windows, three messages, commands or reloads | an owner that leaves, two clients taking turns, a subscriber among them, a client that attaches during a reload |

All actions and all disjuncts of the next-state relations are taken in the
passing runs. Only `clients` uses symmetry, of its two clients: no definition
tells them apart, and the run has no liveness property. Deadlock is not checked
where the bounds or the end of the session stop a behaviour (`panes`, `mailbox`, `clients`); the other modules have an explicit
action for the states in which nothing is left to do.

## Fairness

Weak fairness of the goroutines' own steps: Go schedules a goroutine that can
run, and a timer that is set fires. Users, clients, shells and crashes are never
assumed to do anything. A goroutine that writes to a socket can run only if the
peer reads, so the fairness of the client writer covers its steps that write
nothing; that its writes go on is the premise `ClientReads` of `EventuallyShown`.
For the same reason nothing is assumed of a reload whose notice a client does
not take. A handler need not end: it is the handler or the
watchdog that is fair. Strong fairness is assumed once, of the coordinator's
stop channel in a `select` (`ServerLifecycle`): a Go `select` chooses at random
among the ready cases, so a channel that stays ready is chosen in the end.

## Proofs

`EventLoop_proofs`, for every set of callers, every assignment of contexts and
every capacity:

- `TypeCorrect`: `Spec => []TypeOK`, the bound of the queue included.
- `RefusalSound`: `Spec => []RefusedNotExecuted`. The property is not inductive:
  it must be known that the refused call is not going to be taken up later. The
  strengthening `IInv` adds four facts. `NotYetCalled`: a call that has not
  passed `Enqueue` has left no trace in the queue, the handler or the set of
  executed calls. `LoopAndHandler`: `done` is closed exactly when the loop has
  ended, and a handler outlives the loop only if the watchdog fired.
  `AnswerKept`: the answer of a mutation that ran stays in its channel until its
  caller takes it. `RefusedForGood`: a refused call is neither queued nor
  handled, unless the loop has ended. There is one lemma per conjunct, with one
  step per action.

`ClientStream_proofs`, for all panes, capacities and bounds:

- `TypeCorrect`: `Spec => []TypeOK`. The lemmas before it say which records the
  queues hold and that each queue operation keeps them.

The proofs assume the named assumptions on the constants, which TLC evaluates on
every run.

Only model-checked: all liveness properties (fairness is out of the prover's
reach), the refinement of `PaneFeed`, and the safety properties of the other
modules.

## Not modelled

`PROJECT.json` lists every component with the reason. In short: rendering, copy
mode, the client's interface, the command line, configuration, the MCP adapter
and the logs are sequential code over text; the wire protocol is an encoding;
development tools are not part of the program. Of the modelled components, the
following is left out: the recipients inferred for a reply that are mirrors of
remote panes, the window between a reload's query for its clients and the
setting of its flag, and more than one reload at a time in `SessionClients` and
`Mailbox`. The components below are within
reach and are not modelled yet.

## Plan

In this order; a new component gets a module, an MC module and one run.

1. `LayoutTree`: split, close, swap, move, zoom, lead and resize
   (`mux/layout.go`, `mux/window.go`, `mux/window_resize.go`, `mux/lead.go`) on
   trees of up to four panes with integer geometry: cells tile the window, no
   pane falls below its minimum, a close gives its space to its siblings, a
   failed split changes nothing. Trees as functions from node IDs, so that the
   invariants can be proved. It also replaces the choice of `SessionPanes`
   whether a split finds room.
2. `Waiters`: content, exit, layout, idle and ready waits with the idle tracker's
   timers (`waiter_manager.go`, `idle_tracker.go`, `wait_ready.go`): no missed
   wake-up between check and subscription, no idle event of an earlier quiet
   period (`idle_tracker.go:222`). Abstract specification: a wait returns once
   its condition has held.
3. `InputQueue`: paced input and input routing (`paced_input.go`,
   `input_router.go`): order within a pane, nothing typed into a replaced shell.
   Composed with the respawn of `SessionPanes`.
4. `Mirror`: two servers and a link (`server/mirror`, `remote`,
   `commands_remote.go`): generations, reconnect, restricted mode, resize policy.
   It uses `PaneFeed` as what the remote stream promises.
5. `AttachClient`: the client's read loop, the reconnect after a reload and the
   merge of paged history (`client/attach.go`, `client/client.go`), composed with
   `ClientStream`; the predictor (`client/predictor.go`) as a function checked
   against the emulator's output.
6. `Recovery`: the watchdog's supervisor (`watchdog_recovery.go`), composed with
   `ServerLifecycle`.

Theorems to come, most important first: `FeedsEveryPane` (that every step of
ClientStream is a step of PaneFeed) and `CaughtUp`, from an invariant about the
order, freshness and density of what the queues hold of one pane and about the
stage of the handshake; `NotStranded` and `NothingAbandoned` of CaptureForward;
`FlagOwned` of ServerLifecycle; `OnePlace` and `ClosedHasExpiry` of
SessionPanes; `OwnerIsAttached` of SessionClients; `EventNumbersDistinct` of
Mailbox; the tiling invariant of LayoutTree.
