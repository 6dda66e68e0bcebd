----------------------------- MODULE EventLoop -----------------------------
(***************************************************************************)
(* The session's event loop: a bounded queue, one goroutine that takes     *)
(* commands from it, a second one that runs their handlers under a         *)
(* watchdog, and callers that wait for the answer to a query or to a       *)
(* command mutation while contexts are cancelled and the loop stops.       *)
(***************************************************************************)
EXTENDS Naturals, Sequences

CONSTANTS
  Callers,
  Mutations,   \* callers of enqueueCommandMutationContext; the others query
  OnSession,   \* callers that use the session's context; the others their own
  Capacity,    \* of the queue
  None         \* no caller

ASSUME CallersAssumption == Mutations \subseteq Callers /\ OnSession \subseteq Callers
ASSUME NoneAssumption == None \notin Callers
ASSUME CapacityAssumption == Capacity \in Nat \ {0}

VARIABLES
  pc,           \* per caller, where it is
  result,       \* per caller, what the call returned
  canceled,     \* callers whose own context is cancelled
  sessionCanceled,
  queue,
  stop, done,   \* the channels: closed or not
  loop,         \* where Run is
  command,      \* the caller whose command the handler goroutine has, or None
  finished,     \* the handler goroutine is through with it
  executed,     \* callers whose function ran
  reply,        \* callers whose reply channel holds an answer
  wantShutdown,
  overdue       \* the watchdog fired

callerVars == <<pc, result, reply>>
contextVars == <<canceled, sessionCanceled>>
loopVars == <<stop, done, loop, wantShutdown, overdue>>
handlerVars == <<command, finished, executed>>
vars == <<callerVars, contextVars, queue, loopVars, handlerVars>>

Init ==
  /\ pc = [c \in Callers |-> "start"]
  /\ result = [c \in Callers |-> "none"]
  /\ canceled = {} /\ sessionCanceled = FALSE
  /\ queue = << >>
  /\ stop = FALSE /\ done = FALSE
  /\ loop = "select"
  /\ command = None /\ finished = FALSE
  /\ executed = {} /\ reply = {}
  /\ wantShutdown = FALSE /\ overdue = FALSE

CtxDone(c) == c \in canceled \/ (c \in OnSession /\ sessionCanceled)

Return(c, r) ==
  /\ pc' = [pc EXCEPT ![c] = "returned"]
  /\ result' = [result EXCEPT ![c] = r]

-----------------------------------------------------------------------------
(* Callers.                                                                *)

\* What a call returns that was not queued.
NotQueued(c) == Return(c, IF CtxDone(c) THEN "canceled" ELSE "stopped")

\* The first select of Enqueue.
Call(c) ==
  /\ pc[c] = "start"
  /\ IF CtxDone(c) \/ stop
       THEN NotQueued(c)
       ELSE pc' = [pc EXCEPT ![c] = "enqueue"] /\ UNCHANGED result
  /\ UNCHANGED <<reply, contextVars, queue, loopVars, handlerVars>>

\* Faulty variant: the queue is not bounded.
PutUnbounded(c) ==
  /\ pc[c] = "enqueue"
  /\ queue' = Append(queue, c)
  /\ pc' = [pc EXCEPT ![c] = "wait"]
  /\ UNCHANGED <<result, reply, contextVars, loopVars, handlerVars>>

\* The second select picks any case that is ready.
Put(c) ==
  /\ pc[c] = "enqueue"
  /\ Len(queue) < Capacity
  /\ queue' = Append(queue, c)
  /\ pc' = [pc EXCEPT ![c] = "wait"]
  /\ UNCHANGED <<result, reply, contextVars, loopVars, handlerVars>>

GiveUp(c) ==
  /\ pc[c] = "enqueue"
  /\ CtxDone(c) \/ stop
  /\ NotQueued(c)
  /\ UNCHANGED <<reply, contextVars, queue, loopVars, handlerVars>>

ReceiveReply(c) ==
  /\ pc[c] = "wait" /\ c \in reply
  /\ Return(c, "value")
  /\ reply' = reply \ {c}
  /\ UNCHANGED <<contextVars, queue, loopVars, handlerVars>>

\* A mutation prefers a reply that is already there; a query does not.
ReturnCanceled(c) ==
  /\ pc[c] = "wait" /\ CtxDone(c)
  /\ Return(c, IF c \in reply \cap Mutations THEN "value" ELSE "canceled")
  /\ reply' = reply \ {c}
  /\ UNCHANGED <<contextVars, queue, loopVars, handlerVars>>

\* Faulty variant: the reply that may be buffered is not preferred.
ReturnStoppedAtOnce(c) ==
  /\ pc[c] = "wait" /\ done
  /\ Return(c, "stopped")
  /\ UNCHANGED <<reply, contextVars, queue, loopVars, handlerVars>>

\* Faulty variant: the caller does not watch the loop's end.
ReturnStoppedNever(c) ==
  /\ pc[c] = "wait" /\ done /\ c \in reply
  /\ Return(c, "value")
  /\ reply' = reply \ {c}
  /\ UNCHANGED <<contextVars, queue, loopVars, handlerVars>>

ReturnStopped(c) ==
  /\ pc[c] = "wait" /\ done
  /\ Return(c, IF c \in reply THEN "value" ELSE "stopped")
  /\ reply' = reply \ {c}
  /\ UNCHANGED <<contextVars, queue, loopVars, handlerVars>>

\* The client that gave the command goes away.
CancelContext(c) ==
  /\ c \notin canceled \cup OnSession
  /\ pc[c] # "returned"
  /\ canceled' = canceled \cup {c}
  /\ UNCHANGED <<callerVars, sessionCanceled, queue, loopVars, handlerVars>>

-----------------------------------------------------------------------------
(* Run.                                                                    *)

End == loop' = "ended" /\ done' = TRUE

\* A command whose context is done is skipped.
Take ==
  /\ loop = "select" /\ queue # << >>
  /\ queue' = Tail(queue)
  /\ IF CtxDone(Head(queue))
       THEN UNCHANGED <<loop, command, finished>>
       ELSE loop' = "handling" /\ command' = Head(queue) /\ finished' = FALSE
  /\ UNCHANGED <<callerVars, contextVars, stop, done, wantShutdown, overdue, executed>>

SeeStop ==
  /\ loop = "select" /\ stop
  /\ End
  /\ UNCHANGED <<callerVars, contextVars, queue, stop, wantShutdown, overdue, handlerVars>>

\* The handler goroutine looks at the context once more, then runs the command.
\* A query's answer is dropped if the context is done by then.
Handle ==
  /\ command # None /\ ~finished
  /\ finished' = TRUE
  /\ \/ /\ CtxDone(command)
        /\ UNCHANGED <<executed, reply, wantShutdown>>
     \/ /\ executed' = executed \cup {command}
        /\ \/ reply' = reply \cup {command}
           \/ CtxDone(command) /\ command \notin Mutations /\ UNCHANGED reply
        /\ wantShutdown' \in {wantShutdown, TRUE}
  /\ UNCHANGED <<pc, result, contextVars, queue, stop, done, loop, overdue, command>>

HandlerDone ==
  /\ loop = "handling" /\ finished
  /\ loop' = "hook"
  /\ command' = None
  /\ UNCHANGED <<callerVars, contextVars, queue, stop, done, wantShutdown, overdue,
                 finished, executed>>

\* The recovery did not replace the process (attempts exhausted, no executable,
\* exec failed): the loop ends while the handler goes on.
WatchdogFires ==
  /\ loop = "handling"
  /\ overdue' = TRUE
  /\ End
  /\ UNCHANGED <<callerVars, contextVars, queue, stop, wantShutdown, handlerVars>>

Hook ==
  /\ loop = "hook"
  /\ IF wantShutdown THEN End ELSE loop' = "select" /\ UNCHANGED done
  /\ UNCHANGED <<callerVars, contextVars, queue, stop, wantShutdown, overdue, handlerVars>>

\* The deferred cancelSessionCtx of the loop's goroutine.
CancelSessionCtx ==
  /\ loop = "ended" /\ ~sessionCanceled
  /\ sessionCanceled' = TRUE
  /\ UNCHANGED <<callerVars, canceled, queue, loopVars, handlerVars>>

\* stopEventLoop, called by Shutdown; nothing to do when the loop has ended.
StopEventLoop ==
  /\ ~stop /\ ~done
  /\ sessionCanceled' = TRUE
  /\ stop' = TRUE
  /\ UNCHANGED <<callerVars, canceled, queue, done, loop, wantShutdown, overdue, handlerVars>>

-----------------------------------------------------------------------------
Caller(c) == \/ Call(c) \/ Put(c) \/ GiveUp(c)
             \/ ReceiveReply(c) \/ ReturnCanceled(c) \/ ReturnStopped(c)

Run == Take \/ SeeStop \/ HandlerDone \/ Hook

\* All calls have returned and the loop is idle or gone.
Settled ==
  /\ \A c \in Callers : pc[c] = "returned"
  /\ loop = "ended" /\ sessionCanceled
  /\ UNCHANGED vars

Next ==
  \/ \E c \in Callers : Caller(c) \/ CancelContext(c)
  \/ Run \/ Handle \/ WatchdogFires
  \/ CancelSessionCtx \/ StopEventLoop
  \/ Settled

\* A handler may run for ever: it is the watchdog that goes off.
Fairness ==
  /\ \A c \in Callers : WF_vars(Caller(c))
  /\ WF_vars(Run)
  /\ WF_vars(HandlerDone \/ WatchdogFires)
  /\ WF_vars(CancelSessionCtx)

Spec == Init /\ [][Next]_vars
FairSpec == Spec /\ Fairness

-----------------------------------------------------------------------------
TypeOK ==
  /\ pc \in [Callers -> {"start", "enqueue", "wait", "returned"}]
  /\ result \in [Callers -> {"none", "value", "canceled", "stopped"}]
  /\ canceled \subseteq Callers /\ sessionCanceled \in BOOLEAN
  /\ queue \in Seq(Callers) /\ Len(queue) <= Capacity
  /\ stop \in BOOLEAN /\ done \in BOOLEAN
  /\ loop \in {"select", "handling", "hook", "ended"}
  /\ command \in Callers \cup {None} /\ finished \in BOOLEAN
  /\ executed \subseteq Callers /\ reply \subseteq Callers
  /\ wantShutdown \in BOOLEAN /\ overdue \in BOOLEAN

\* A mutation reported as refused because the session shuts down was not
\* executed, unless the watchdog took the loop from under its handler: the
\* reply is preferred over the error.
RefusedNotExecuted ==
  \A c \in Mutations :
    result[c] = "stopped" /\ c \in executed => overdue

\* Every call that got into the queue, or uses the session's context, returns
\* in the end, whatever stops the loop.
CallsReturn ==
  \A c \in Callers :
    (pc[c] = "wait" \/ (pc[c] = "enqueue" /\ c \in OnSession)) ~> pc[c] = "returned"
=============================================================================
