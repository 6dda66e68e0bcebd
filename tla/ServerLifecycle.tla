-------------------------- MODULE ServerLifecycle --------------------------
(***************************************************************************)
(* The life of a server process: the crash checkpoint coordinator, hot     *)
(* reload by exec, shutdown, crashes, and what the next start restores.    *)
(*                                                                         *)
(* Everything a checkpoint saves (layout, mailbox, pane history and        *)
(* screens) is abstracted to the number of changes it has seen.  A         *)
(* checkpoint build, which asks the event loop and then the pane actors,   *)
(* is one step.                                                            *)
(***************************************************************************)
EXTENDS Naturals, FiniteSets

CONSTANTS
  Reloads,       \* the calls of Reload that may be under way at a time
  MaxChanges,    \* bound: changes to the session
  MaxSeconds,    \* bound: seconds that pass, the resolution of file names
  MaxIncidents   \* bound: restarts, reload requests and failures, together

ASSUME BoundsAssumption == {MaxChanges, MaxSeconds, MaxIncidents} \subseteq Nat

VARIABLES
  proc,       \* "down", "up", or "exec" between syscall.Exec and the restore
  content,    \* changes the running session has seen; 0: it has no window
  loop,       \* the event loop runs
  flag,       \* Session.shutdown
  trigger,    \* CheckpointCoordinator.trigger holds a token
  armed,      \* the debounce timer is set
  wpc,        \* per caller of WriteNow, where it is
  built,      \* per caller of WriteNow, what it has built
  rpc,        \* per call of Reload, where it is
  rbuilt,     \* per call of Reload, content of the checkpoint it has built
  spc,        \* where Shutdown is
  atShutdown, \* content when Shutdown began
  stamp,      \* Session.startedAt, which names the crash checkpoint
  restoring,  \* the crash checkpoint being restored, if any
  files,      \* crash checkpoints on disk
  reloadFile, \* per call of Reload, content of its checkpoint on disk, or 0
  lastSaved,  \* content of the last crash checkpoint written, by any process
  now,        \* the second it is
  requests,   \* restarts of the server and calls of Reload
  failures    \* file system, snapshot timeout and exec errors

Writers == {"coordinator", "final"} \cup Reloads

sessionVars == <<content, loop, flag>>
coordinatorVars == <<trigger, armed>>
writerVars == <<wpc, built>>
reloadVars == <<rpc, rbuilt>>
shutdownVars == <<spc, atShutdown>>
diskVars == <<files, reloadFile, lastSaved>>
startVars == <<stamp, restoring, now>>
boundVars == <<requests, failures>>
vars == <<proc, sessionVars, coordinatorVars, writerVars, reloadVars,
          shutdownVars, diskVars, startVars, boundVars>>

Incident == requests + failures < MaxIncidents
Fails == Incident /\ failures' = failures + 1
Works == UNCHANGED failures

Running == proc = "up"
Serving == Running /\ restoring = {} /\ spc \in {"idle", "wanted"}

Idle == [w \in Writers |-> "idle"]
NoReload == [r \in Reloads |-> "idle"]
NoFile == [r \in Reloads |-> 0]
Nothing == [w \in Writers |-> [ver |-> 0, ts |-> 0]]

\* Newest-first by file name: FindCrashCheckpoints(...)[0].
Newest == CHOOSE f \in files : \A g \in files : g.stamp <= f.stamp

Init ==
  /\ proc = "up" /\ content = 1 /\ loop = TRUE /\ flag = FALSE
  /\ trigger = FALSE /\ armed = FALSE
  /\ wpc = Idle /\ built = Nothing
  /\ rpc = NoReload /\ rbuilt = NoFile
  /\ spc = "idle" /\ atShutdown = 0
  /\ files = {} /\ reloadFile = NoFile /\ lastSaved = 0
  /\ stamp = 0 /\ restoring = {} /\ now = 0
  /\ requests = 0 /\ failures = 0

-----------------------------------------------------------------------------
(* The session.                                                            *)

\* A change through the event loop; what it broadcasts triggers a checkpoint.
Change ==
  /\ Running /\ loop
  /\ content # 0 \/ restoring = {}
  /\ content < MaxChanges
  /\ content' = content + 1
  /\ trigger' = TRUE
  /\ UNCHANGED <<proc, loop, flag, armed, writerVars,
                 reloadVars, shutdownVars, diskVars, startVars, boundVars>>

\* readLoop applies PTY output to the emulator; paneOutputCallback drops it
\* when the shutdown flag is set.
PaneOutput ==
  /\ Running
  /\ content \in 1..(MaxChanges - 1)
  /\ content' = content + 1
  /\ trigger' = (trigger \/ (~flag /\ loop))
  /\ UNCHANGED <<proc, loop, flag, armed, writerVars, reloadVars,
                 shutdownVars, diskVars, startVars, boundVars>>

-----------------------------------------------------------------------------
(* CheckpointCoordinator.                                                  *)

CoordinatorWaits == Running /\ spc # "done" /\ wpc["coordinator"] = "idle"

\* Faulty variant: the debounce timer is not started.
TakeTriggerUnarmed ==
  /\ CoordinatorWaits /\ trigger
  /\ trigger' = FALSE /\ UNCHANGED armed
  /\ UNCHANGED <<proc, sessionVars, writerVars, reloadVars, shutdownVars,
                 diskVars, startVars, boundVars>>

TakeTrigger ==
  /\ CoordinatorWaits /\ trigger
  /\ trigger' = FALSE /\ armed' = TRUE
  /\ UNCHANGED <<proc, sessionVars, writerVars, reloadVars, shutdownVars,
                 diskVars, startVars, boundVars>>

\* Write returns at once when the session shuts down.
StartWrite ==
  wpc' = IF flag THEN wpc ELSE [wpc EXCEPT !["coordinator"] = "build"]

DebounceFires ==
  /\ CoordinatorWaits /\ armed
  /\ armed' = FALSE
  /\ StartWrite
  /\ UNCHANGED <<proc, sessionVars, trigger, built, reloadVars, shutdownVars,
                 diskVars, startVars, boundVars>>

PeriodicFires ==
  /\ CoordinatorWaits /\ ~flag
  /\ StartWrite
  /\ UNCHANGED <<proc, sessionVars, coordinatorVars, built, reloadVars,
                 shutdownVars, diskVars, startVars, boundVars>>

\* What WriteNow returns; the coordinator's loop ignores it.
Returned(w, r) == [wpc EXCEPT ![w] = IF w = "coordinator" THEN "idle" ELSE r]

\* WriteNow: buildCrashCheckpoint asks the event loop, and gives up when the
\* loop is gone or the snapshot takes too long.
BuildCrashCheckpoint(w) ==
  /\ Running /\ wpc[w] = "build"
  /\ \/ /\ loop /\ content # 0
        /\ built' = [built EXCEPT ![w] = [ver |-> content, ts |-> now]]
        /\ wpc' = [wpc EXCEPT ![w] = "rename"]
        /\ Works
     \/ /\ ((~loop \/ content = 0) /\ Works) \/ Fails
        /\ wpc' = Returned(w, "nothing")
        /\ UNCHANGED built
  /\ UNCHANGED <<proc, sessionVars, coordinatorVars, reloadVars, shutdownVars,
                 diskVars, startVars, requests>>

\* WriteCrash: a temporary file renamed over the session's checkpoint.
WriteCrash(w) ==
  /\ Running /\ wpc[w] = "rename"
  /\ built' = [built EXCEPT ![w] = Nothing[w]]
  /\ \/ /\ files' = {f \in files : f.stamp # stamp}
                      \cup {[stamp |-> stamp, ver |-> built[w].ver, ts |-> built[w].ts]}
        /\ lastSaved' = built[w].ver
        /\ wpc' = Returned(w, "written")
        /\ Works
     \/ /\ Fails
        /\ wpc' = Returned(w, "error")
        /\ UNCHANGED <<files, lastSaved>>
  /\ UNCHANGED <<proc, sessionVars, coordinatorVars, reloadVars,
                 shutdownVars, reloadFile, startVars, requests>>

-----------------------------------------------------------------------------
(* Reload, by `amux reload` or by the watcher of the binary; nothing keeps  *)
(* one call from starting while another is under way.                      *)

\* Every error return resets the flag.
FailReload(r) ==
  /\ rpc' = [rpc EXCEPT ![r] = "idle"] /\ rbuilt' = [rbuilt EXCEPT ![r] = 0]
  /\ flag' = FALSE
  /\ wpc' = [wpc EXCEPT ![r] = "idle"]

\* Calls are alike: a new one takes any free name.
RequestReload ==
  /\ Running /\ restoring = {} /\ loop
  /\ Incident
  /\ requests' = requests + 1
  /\ flag' = TRUE
  /\ \E r \in Reloads : rpc[r] = "idle"
  /\ rpc' = [rpc EXCEPT ![CHOOSE r \in Reloads : rpc[r] = "idle"] = "build"]
  /\ UNCHANGED <<proc, content, loop, coordinatorVars,
                 writerVars, rbuilt, shutdownVars, diskVars, startVars, failures>>

\* buildReloadCheckpoint, then the listener's descriptor.
BuildReloadCheckpoint(r) ==
  /\ Running /\ rpc[r] = "build"
  /\ \/ /\ loop /\ content # 0
        /\ rbuilt' = [rbuilt EXCEPT ![r] = content]
        /\ rpc' = [rpc EXCEPT ![r] = "durable"]
        /\ wpc' = [wpc EXCEPT ![r] = "build"]
        /\ Works
        /\ UNCHANGED flag
     \/ /\ ((~loop \/ content = 0) /\ Works) \/ Fails
        /\ FailReload(r)
  /\ UNCHANGED <<proc, content, loop, coordinatorVars, built,
                 requests, shutdownVars, diskVars, startVars>>

\* checkpoint.Write, and clearCloexec on every inherited descriptor.
SaveReload(r) ==
  /\ wpc[r] \in {"written", "nothing"}
  /\ reloadFile' = [reloadFile EXCEPT ![r] = rbuilt[r]]
  /\ rpc' = [rpc EXCEPT ![r] = "notice"] /\ rbuilt' = [rbuilt EXCEPT ![r] = 0]
  /\ wpc' = [wpc EXCEPT ![r] = "idle"]
  /\ Works
  /\ UNCHANGED flag

\* The crash checkpoint, checkpoint.Write or clearCloexec fails.  The last
\* leaves a file behind that nobody reads.
SaveFails(r) ==
  /\ \/ wpc[r] = "error" /\ Works
     \/ wpc[r] \in {"written", "nothing"} /\ Fails
  /\ UNCHANGED reloadFile

\* Faulty variant: a failed crash checkpoint leaves the flag set.
WriteReloadCheckpointFlagged(r) ==
  /\ Running /\ rpc[r] = "durable"
  /\ \/ SaveReload(r)
     \/ /\ SaveFails(r)
        /\ rpc' = [rpc EXCEPT ![r] = "idle"] /\ rbuilt' = [rbuilt EXCEPT ![r] = 0]
        /\ wpc' = [wpc EXCEPT ![r] = "idle"]
        /\ UNCHANGED flag
  /\ UNCHANGED <<proc, content, loop, coordinatorVars, built,
                 requests, shutdownVars, files, lastSaved, startVars>>

\* Only an error of writeCrashCheckpointNow stops the reload.
WriteReloadCheckpoint(r) ==
  /\ Running /\ rpc[r] = "durable"
  /\ \/ SaveReload(r)
     \/ SaveFails(r) /\ FailReload(r)
  /\ UNCHANGED <<proc, content, loop, coordinatorVars, built,
                 requests, shutdownVars, files, lastSaved, startVars>>

\* The query that disconnects the clients, once they have the notice.
\* sendBroadcastSync waits, without a timeout, until a client's writer has
\* written it or is gone: a client that does not read delays the step.
DisconnectClients(r) ==
  /\ Running /\ rpc[r] = "notice"
  /\ \/ /\ loop
        /\ rpc' = [rpc EXCEPT ![r] = "exec"]
        /\ UNCHANGED <<flag, wpc, rbuilt, reloadFile>>
     \/ /\ ~loop
        /\ FailReload(r)
        /\ reloadFile' = [reloadFile EXCEPT ![r] = 0]
  /\ UNCHANGED <<proc, content, loop, coordinatorVars, built,
                 shutdownVars, files, lastSaved, startVars, boundVars>>

\* What dies with the process image: every goroutine and all memory.
Gone ==
  /\ content' = 0 /\ loop' = FALSE /\ flag' = FALSE
  /\ trigger' = FALSE /\ armed' = FALSE
  /\ wpc' = Idle /\ built' = Nothing
  /\ rpc' = NoReload /\ rbuilt' = NoFile
  /\ spc' = "idle" /\ atShutdown' = 0

\* The new image is told the name of its own caller's file only.
ExecReload(r) ==
  /\ Running /\ rpc[r] = "exec"
  /\ \/ /\ proc' = "exec"
        /\ Gone
        /\ Works
        /\ reloadFile' = [NoFile EXCEPT ![r] = reloadFile[r]]
     \/ /\ Fails
        /\ FailReload(r)
        /\ reloadFile' = [reloadFile EXCEPT ![r] = 0]
        /\ UNCHANGED <<proc, content, loop, coordinatorVars, built,
                       shutdownVars>>
  /\ UNCHANGED <<requests, files, lastSaved, startVars>>

-----------------------------------------------------------------------------
(* Shutdown.                                                               *)

\* The last pane exits, or the last client leaves with exit-unattached.  The
\* loop ends after the handler that set wantShutdown.
WantShutdown ==
  /\ Running /\ loop /\ spc = "idle"
  /\ content # 0 \/ restoring = {}
  /\ loop' = FALSE
  /\ spc' = "wanted"
  /\ UNCHANGED <<proc, content, flag, coordinatorVars,
                 writerVars, reloadVars, atShutdown, diskVars, startVars, boundVars>>

\* Shutdown, by wantShutdown or by a signal; a second call only waits.
BeginShutdown ==
  /\ Serving \/ (Running /\ spc = "wanted")
  /\ flag' = TRUE
  /\ atShutdown' = content
  /\ wpc' = [wpc EXCEPT !["final"] = "build"]
  /\ spc' = "final"
  /\ UNCHANGED <<proc, content, loop, coordinatorVars, built,
                 reloadVars, diskVars, startVars, boundVars>>

\* The final checkpoint is there, failed, or is not waited for any longer.
StopEventLoop ==
  /\ Running /\ spc = "final"
  /\ \/ wpc["final"] \in {"written", "nothing", "error"} /\ Works
     \/ Fails
  /\ loop' = FALSE
  /\ spc' = "stopping"
  /\ UNCHANGED <<proc, content, flag, coordinatorVars,
                 writerVars, reloadVars, atShutdown, diskVars, startVars,
                 requests>>

\* Faulty variant: Stop needs a token in the trigger channel.
StopCoordinatorTriggered ==
  /\ Running /\ spc = "stopping" /\ wpc["coordinator"] = "idle" /\ trigger
  /\ spc' = "done"
  /\ UNCHANGED <<proc, sessionVars, coordinatorVars, writerVars, reloadVars,
                 atShutdown, diskVars, startVars, boundVars>>

\* Stop waits for the coordinator's loop, which first finishes a write.
StopCoordinator ==
  /\ Running /\ spc = "stopping" /\ wpc["coordinator"] = "idle"
  /\ spc' = "done"
  /\ UNCHANGED <<proc, sessionVars, coordinatorVars, writerVars, reloadVars,
                 atShutdown, diskVars, startVars, boundVars>>

\* The panes are closed, Run returns and the process ends.
Exit ==
  /\ Running /\ spc = "done" /\ restoring = {}
  /\ proc' = "down"
  /\ Gone
  /\ UNCHANGED <<diskVars, startVars, boundVars>>

Crash ==
  /\ proc # "down"
  /\ proc' = "down"
  /\ restoring' = {}
  /\ Gone
  /\ UNCHANGED <<diskVars, stamp, now, boundVars>>

-----------------------------------------------------------------------------
(* RunServer.                                                              *)

Restored(v) ==
  /\ content' = v
  /\ loop' = TRUE /\ flag' = FALSE

\* Faulty variant: the oldest checkpoint wins.
RestoreCrashOldest ==
  LET f == CHOOSE g \in files : \A h \in files : g.stamp <= h.stamp IN
    /\ Restored(0)
    /\ restoring' = {f}
    /\ stamp' = f.ts
    /\ UNCHANGED files

\* Faulty variant: the checkpoint is consumed first.
RestoreCrashConsuming ==
  /\ Restored(0)
  /\ restoring' = {Newest}
  /\ stamp' = Newest.ts
  /\ files' = files \ {Newest}

\* Faulty variant: the start time is rounded up.
RestoreCrashLater ==
  /\ Restored(0)
  /\ restoring' = {Newest}
  /\ stamp' = now + 1
  /\ UNCHANGED files

\* The newest crash checkpoint is read, and its panes are spawned.  The session
\* takes the second the checkpoint was built for its start time.
RestoreCrash ==
  /\ Restored(0)
  /\ restoring' = {Newest}
  /\ stamp' = Newest.ts
  /\ UNCHANGED files

Start ==
  /\ proc = "down" /\ Incident
  /\ requests' = requests + 1
  /\ proc' = "up"
  /\ \/ files # {} /\ RestoreCrash /\ Works
     \/ /\ \/ files = {} /\ Works /\ UNCHANGED files
           \/ files # {} /\ Fails /\ files' = files \ {Newest}  \* unreadable
        /\ Restored(0)
        /\ stamp' = now
        /\ UNCHANGED restoring
  /\ UNCHANGED <<coordinatorVars, writerVars, reloadVars, shutdownVars,
                 reloadFile, lastSaved, now>>

\* The windows are rebuilt and the panes' read loops started ...
RebuildWindows ==
  /\ Running /\ content = 0
  /\ \E f \in restoring : content' = f.ver
  /\ UNCHANGED <<proc, loop, flag, coordinatorVars, writerVars,
                 reloadVars, shutdownVars, diskVars, startVars, boundVars>>

\* ... and the checkpoint is removed, by its name.
FinishRestore ==
  /\ Running /\ content # 0
  /\ \E f \in restoring : files' = {g \in files : g.stamp # f.stamp}
  /\ restoring' = {}
  /\ UNCHANGED <<proc, sessionVars, coordinatorVars, writerVars, reloadVars,
                 shutdownVars, reloadFile, lastSaved, stamp, now, boundVars>>

\* The new image consumes the reload checkpoint, whatever it makes of it.
RestoreReload ==
  /\ proc = "exec"
  /\ reloadFile' = NoFile
  /\ \/ /\ proc' = "up"
        /\ \E r \in Reloads : reloadFile[r] # 0 /\ Restored(reloadFile[r])
        /\ UNCHANGED <<restoring, stamp, files, failures>>
     \/ /\ files # {} /\ Fails   \* an incompatible checkpoint
        /\ proc' = "up"
        /\ RestoreCrash
     \/ /\ Fails
        /\ proc' = "down"
        /\ UNCHANGED <<sessionVars, restoring, stamp, files>>
  /\ UNCHANGED <<coordinatorVars, writerVars, reloadVars, shutdownVars,
                 lastSaved, requests, now>>

\* A second passes.
Tick ==
  /\ now < MaxSeconds
  /\ now' = now + 1
  /\ UNCHANGED <<proc, sessionVars, coordinatorVars, writerVars, reloadVars,
                 shutdownVars, diskVars, stamp, restoring, boundVars>>

-----------------------------------------------------------------------------
Coordinator == TakeTrigger \/ DebounceFires \/ PeriodicFires
WriteNow(w) == BuildCrashCheckpoint(w) \/ WriteCrash(w)
Reload(r) == BuildReloadCheckpoint(r) \/ WriteReloadCheckpoint(r) \/ ExecReload(r)
Shutdown == StopEventLoop \/ StopCoordinator \/ Exit

\* Nothing happens any more after the last stop.
Terminating == proc = "down" /\ ~Incident /\ UNCHANGED vars

Next ==
  \/ Change \/ PaneOutput
  \/ Coordinator
  \/ \E w \in Writers : WriteNow(w)
  \/ RequestReload
  \/ \E r \in Reloads : Reload(r) \/ DisconnectClients(r)
  \/ WantShutdown \/ BeginShutdown \/ Shutdown
  \/ Crash \/ Start \/ RebuildWindows \/ FinishRestore \/ RestoreReload
  \/ Tick
  \/ Terminating

\* Goroutines run and timers fire; nobody is assumed to ask for anything, and
\* no client to read what it is sent.
\* A select that finds the stop channel ready again and again picks it at last.
Fairness ==
  /\ WF_vars(TakeTrigger \/ DebounceFires \/ WriteNow("coordinator"))
  /\ \A r \in Reloads : WF_vars(WriteNow(r) \/ Reload(r))
  /\ WF_vars(RebuildWindows \/ FinishRestore)
  /\ WF_vars((spc = "wanted" /\ BeginShutdown) \/ WriteNow("final") \/ StopEventLoop \/ Exit)
  /\ SF_vars(StopCoordinator)

Spec == Init /\ [][Next]_vars
FairSpec == Spec /\ Fairness

-----------------------------------------------------------------------------
TypeOK ==
  /\ proc \in {"down", "up", "exec"}
  /\ content \in 0..MaxChanges
  /\ loop \in BOOLEAN /\ flag \in BOOLEAN 
  /\ trigger \in BOOLEAN /\ armed \in BOOLEAN
  /\ wpc \in [Writers -> {"idle", "build", "rename", "nothing", "error", "written"}]
  /\ built \in [Writers -> [ver : Nat, ts : 0..now]]
  /\ rpc \in [Reloads -> {"idle", "build", "durable", "notice", "exec"}]
  /\ rbuilt \in [Reloads -> Nat]
  /\ spc \in {"idle", "wanted", "final", "stopping", "done"}
  /\ atShutdown \in Nat
  /\ now \in 0..MaxSeconds /\ stamp \in 0..now
  /\ files \subseteq [stamp : 0..now, ver : Nat, ts : 0..now]
  /\ restoring \subseteq [stamp : 0..now, ver : Nat, ts : 0..now] /\ lastSaved \in Nat
  /\ reloadFile \in [Reloads -> Nat]
  /\ {requests, failures} \subseteq 0..(MaxIncidents + 1)

\* The shutdown flag silences every pane and the coordinator, so it never
\* outlives the Reload or Shutdown that set it: "On failure, the old server
\* continues running."
FlagOwned == flag => rpc # NoReload \/ spc \notin {"idle", "wanted"}

\* A process that recovers from a crash takes the checkpoint written last, by
\* whichever process, whatever else lies in the directory: names are start
\* times of whole seconds, and a recovered session's start time is its
\* checkpoint's.
RecoversLastSaved ==
  [][\A f \in restoring' \ restoring :
       (\E g \in files : g.ver = lastSaved) => f.ver = lastSaved]_vars

\* A crash in the middle of a recovery can be recovered from: the checkpoint
\* is removed last.
RecoveryRepeatable ==
  \A f \in restoring : \E g \in files : g.stamp = f.stamp /\ g.ver >= f.ver

\* Changes are checkpointed in the end, unless the process stops, a reload
\* takes over or a write fails: a trigger that arrives during a write, or
\* while the timer is armed, is not lost.
EventuallyDurable ==
  (Serving /\ trigger)
    ~> \/ \E f \in files : f.stamp = stamp /\ f.ver = content
       \/ flag \/ ~loop \/ proc # "up" \/ failures > 0

\* Reload returns or replaces the process, or waits for a client to take its
\* notice; Shutdown ends the process even then.  Neither waits for a
\* loop that the other has stopped, nor for a checkpoint write of another.
OperationsEnd ==
  LET Ended == \A r \in Reloads : rpc[r] \in {"idle", "notice"}
  IN  (~Ended \/ spc # "idle") ~> (Ended /\ spc = "idle")

\* "Persist one final snapshot before the checkpoint coordinator stops so the
\* next start can restore the latest clean-shutdown state."
FinalSnapshot ==
  spc = "done" => \E f \in files : f.stamp = stamp /\ f.ver >= atShutdown
=============================================================================
