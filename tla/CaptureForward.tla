--------------------------- MODULE CaptureForward ---------------------------
(***************************************************************************)
(* `amux capture` forwarded to an attached client.  Every call selects a   *)
(* client, hands its request to the captureForwarder, which keeps one      *)
(* request outstanding and queues the others, and waits for the reply or a *)
(* timer.  Responses carry no request ID.                                  *)
(*                                                                         *)
(* Each query of the session actor is one step: its caller blocks until    *)
(* the actor has run it.  A response is abstracted to the call whose       *)
(* arguments the client rendered.                                          *)
(***************************************************************************)
EXTENDS Naturals, Sequences

CONSTANTS
  Calls,       \* capture commands
  PaneCalls,   \* the ones of a single pane (capturePaneWithFallback)
  Clients,     \* connections
  Kind,        \* per connection: "full", "window" or "pane" (its scope)
  MaxRetries,  \* captureAttachMaxRetries
  None

ASSUME CallsAssumption == PaneCalls \subseteq Calls /\ None \notin Calls \cup Clients
ASSUME KindAssumption == Kind \in [Clients -> {"full", "window", "pane"}]
ASSUME RetriesAssumption == MaxRetries \in Nat \ {0}

VARIABLES
  attached,  \* clientManager.clients
  ready,     \* clients that are not bootstrapping
  alive,     \* clients whose connection works
  inbox,     \* per client, requests it has still to render
  answers,   \* per client, responses on their way to the server
  pc,        \* where each call is
  attempts,  \* waitForCaptureClient: attempts made
  target,    \* captureRequest.client
  reply,     \* captureRequest.reply (a channel of capacity 1)
  outcome,   \* what the call returned
  current,   \* captureForwarder.current
  queue,     \* captureForwarder.queue
  stopped    \* sessionEventDone is closed

clientVars == <<attached, ready, alive>>
wireVars == <<inbox, answers>>
callVars == <<pc, attempts, target, reply, outcome>>
forwarderVars == <<current, queue>>
vars == <<clientVars, wireVars, callVars, forwarderVars, stopped>>

CallStates == {"idle", "select", "enqueue", "waiting", "cancel", "done"}
Outcomes == {"answer", "timeout", "direct", "no client", "shutting down"}

Init ==
  /\ attached = << >> /\ ready = {} /\ alive = Clients
  /\ inbox = [c \in Clients |-> << >>]
  /\ answers = [c \in Clients |-> << >>]
  /\ pc = [r \in Calls |-> "idle"]
  /\ attempts = [r \in Calls |-> 0]
  /\ target = [r \in Calls |-> None]
  /\ reply = [r \in Calls |-> None]
  /\ outcome = [r \in Calls |-> None]
  /\ current = None /\ queue = << >>
  /\ stopped = FALSE

Return(r, o) ==
  /\ pc' = [pc EXCEPT ![r] = "done"]
  /\ outcome' = [outcome EXCEPT ![r] = o]

-----------------------------------------------------------------------------
(* Clients come, answer one request after the other, and go.               *)

IsAttached(c) == \E i \in 1..Len(attached) : attached[i] = c

Attach(c) ==
  /\ c \in alive /\ ~IsAttached(c) /\ ~stopped
  /\ attached' = Append(attached, c)
  /\ UNCHANGED <<ready, alive, wireVars, callVars, forwarderVars, stopped>>

FinishBootstrap(c) ==
  /\ IsAttached(c) /\ c \notin ready
  /\ ready' = ready \cup {c}
  /\ UNCHANGED <<attached, alive, wireVars, callVars, forwarderVars, stopped>>

\* The connection breaks; the session learns of it with the detach event.
Break(c) ==
  /\ IsAttached(c) /\ c \in alive
  /\ alive' = alive \ {c}
  /\ inbox' = [inbox EXCEPT ![c] = << >>]
  /\ answers' = [answers EXCEPT ![c] = << >>]
  /\ UNCHANGED <<attached, ready, callVars, forwarderVars, stopped>>

Detach(c) ==
  /\ IsAttached(c) /\ c \notin alive
  /\ attached' = SelectSeq(attached, LAMBDA d : d # c)
  /\ ready' = ready \ {c}
  /\ UNCHANGED <<alive, wireVars, callVars, forwarderVars, stopped>>

Answer(c) ==
  /\ inbox[c] # << >>
  /\ answers' = [answers EXCEPT ![c] = Append(@, Head(inbox[c]))]
  /\ inbox' = [inbox EXCEPT ![c] = Tail(@)]
  /\ UNCHANGED <<clientVars, callVars, forwarderVars, stopped>>

-----------------------------------------------------------------------------
(* The calls.                                                              *)

Call(r) ==
  /\ pc[r] = "idle"
  /\ pc' = [pc EXCEPT ![r] = "select"]
  /\ UNCHANGED <<clientVars, wireVars, attempts, target, reply, outcome,
                 forwarderVars, stopped>>

Selectable(c) == Kind[c] # "pane" /\ c \in ready

\* Faulty variant: one retry too many.
SelectClientOnceMore(r) ==
  /\ pc[r] = "select" /\ ~stopped
  /\ LET found == SelectSeq(attached, Selectable) IN
       \/ /\ found # << >>
          /\ target' = [target EXCEPT ![r] = Head(found)]
          /\ pc' = [pc EXCEPT ![r] = "enqueue"]
          /\ UNCHANGED <<attempts, outcome>>
       \/ /\ found = << >>
          /\ attempts' = [attempts EXCEPT ![r] = @ + 1]
          /\ IF attempts[r] < MaxRetries
               THEN UNCHANGED <<pc, outcome>>
               ELSE Return(r, "no client")
          /\ UNCHANGED target
  /\ UNCHANGED <<clientVars, wireVars, reply, forwarderVars, stopped>>

\* Faulty variant: the attempts are not counted.
SelectClientForever(r) ==
  /\ pc[r] = "select" /\ ~stopped
  /\ LET found == SelectSeq(attached, Selectable) IN
       \/ /\ found # << >>
          /\ target' = [target EXCEPT ![r] = Head(found)]
          /\ pc' = [pc EXCEPT ![r] = "enqueue"]
          /\ UNCHANGED <<attempts, outcome>>
       \/ /\ found = << >>
          /\ UNCHANGED attempts
          /\ IF attempts[r] + 1 < MaxRetries
               THEN UNCHANGED <<pc, outcome>>
               ELSE Return(r, "no client")
          /\ UNCHANGED target
  /\ UNCHANGED <<clientVars, wireVars, reply, forwarderVars, stopped>>

\* waitForCaptureClient: the first client that can be asked.  A capture of
\* one pane does not wait for a client to come back, it captures directly.
SelectClient(r) ==
  /\ pc[r] = "select" /\ ~stopped
  /\ LET found == SelectSeq(attached, Selectable) IN
       \/ /\ found # << >>
          /\ target' = [target EXCEPT ![r] = Head(found)]
          /\ pc' = [pc EXCEPT ![r] = "enqueue"]
          /\ UNCHANGED <<attempts, outcome>>
       \/ /\ found = << >> /\ r \notin PaneCalls
          /\ attempts' = [attempts EXCEPT ![r] = @ + 1]
          /\ IF attempts[r] + 1 < MaxRetries
               THEN UNCHANGED <<pc, outcome>>
               ELSE Return(r, "no client")
          /\ UNCHANGED target
       \/ /\ found = << >> /\ r \in PaneCalls
          /\ Return(r, "direct")
          /\ UNCHANGED <<attempts, target>>
  /\ UNCHANGED <<clientVars, wireVars, reply, forwarderVars, stopped>>

\* sendCaptureRequestAsync: a closed writer is only logged, and a window-scoped
\* connection's allowsServerMessage discards the request.
Send(r) ==
  inbox' = IF target[r] \in alive /\ Kind[target[r]] = "full"
             THEN [inbox EXCEPT ![target[r]] = Append(@, r)]
             ELSE inbox

\* startNext, with q the requests that wait.
StartNext(q) ==
  \/ /\ q = << >>
     /\ current' = None /\ queue' = << >>
     /\ UNCHANGED inbox
  \/ /\ q # << >>
     /\ current' = Head(q) /\ queue' = Tail(q)
     /\ Send(Head(q))

\* Faulty variant: a request is sent when it is queued and when it starts.
EnqueueSends(r) ==
  /\ pc[r] = "enqueue" /\ ~stopped
  /\ IF current = None
       THEN current' = r /\ UNCHANGED queue
       ELSE queue' = Append(queue, r) /\ UNCHANGED current
  /\ Send(r)
  /\ pc' = [pc EXCEPT ![r] = "waiting"]
  /\ UNCHANGED <<clientVars, answers, attempts, target, reply, outcome,
                 stopped>>

Enqueue(r) ==
  /\ pc[r] = "enqueue" /\ ~stopped
  /\ IF current = None
       THEN /\ current' = r
            /\ Send(r)
            /\ UNCHANGED queue
       ELSE /\ queue' = Append(queue, r)
            /\ UNCHANGED <<current, inbox>>
  /\ pc' = [pc EXCEPT ![r] = "waiting"]
  /\ UNCHANGED <<clientVars, answers, attempts, target, reply, outcome,
                 stopped>>

Receive(r) ==
  /\ pc[r] = "waiting" /\ reply[r] # None
  /\ Return(r, "answer")
  /\ UNCHANGED <<clientVars, wireVars, attempts, target, reply, forwarderVars,
                 stopped>>

\* The response timer fires, possibly with the reply already there.
Timeout(r) ==
  /\ pc[r] = "waiting"
  /\ pc' = [pc EXCEPT ![r] = "cancel"]
  /\ UNCHANGED <<clientVars, wireVars, attempts, target, reply, outcome,
                 forwarderVars, stopped>>

TimedOut(r) == Return(r, IF r \in PaneCalls THEN "direct" ELSE "timeout")

\* Faulty variant: cancelling the outstanding request does not start the next.
CancelOnly(r) ==
  /\ pc[r] = "cancel" /\ ~stopped
  /\ current' = IF current = r THEN None ELSE current
  /\ queue' = SelectSeq(queue, LAMBDA s : s # r)
  /\ TimedOut(r)
  /\ UNCHANGED <<clientVars, wireVars, attempts, target, reply, stopped>>

Cancel(r) ==
  /\ pc[r] = "cancel" /\ ~stopped
  /\ IF current = r
       THEN StartNext(queue)
       ELSE /\ queue' = SelectSeq(queue, LAMBDA s : s # r)
            /\ UNCHANGED <<current, inbox>>
  /\ TimedOut(r)
  /\ UNCHANGED <<clientVars, answers, attempts, target, reply, stopped>>

-----------------------------------------------------------------------------
\* Faulty variant: the answered request stays current.
RouteResponseKept(c) ==
  /\ answers[c] # << >> /\ ~stopped
  /\ answers' = [answers EXCEPT ![c] = Tail(@)]
  /\ reply' = IF current # None
                THEN [reply EXCEPT ![current] = Head(answers[c])] ELSE reply
  /\ UNCHANGED <<clientVars, inbox, pc, attempts, target, outcome,
                 forwarderVars, stopped>>

\* readLoop of client c hands a response to whoever is current.
RouteResponse(c) ==
  /\ answers[c] # << >> /\ ~stopped
  /\ answers' = [answers EXCEPT ![c] = Tail(@)]
  /\ IF current = None
       THEN UNCHANGED <<reply, inbox, forwarderVars>>
       ELSE /\ reply' = [reply EXCEPT ![current] = Head(answers[c])]
            /\ StartNext(queue)
  /\ UNCHANGED <<clientVars, pc, attempts, target, outcome, stopped>>

StopSession ==
  /\ ~stopped
  /\ stopped' = TRUE
  /\ UNCHANGED <<clientVars, wireVars, callVars, forwarderVars>>

\* Queries fail and waiting calls give up once the event loop is gone.  A
\* cancel that fails still reports the timeout it follows.
Abort(r) ==
  /\ stopped
  /\ \/ pc[r] \in {"select", "enqueue", "waiting"} /\ Return(r, "shutting down")
     \/ pc[r] = "cancel" /\ TimedOut(r)
  /\ UNCHANGED <<clientVars, wireVars, attempts, target, reply, forwarderVars,
                 stopped>>

Step(r) == SelectClient(r) \/ Enqueue(r) \/ Receive(r) \/ Timeout(r)
           \/ Cancel(r) \/ Abort(r)

Terminating == (\A r \in Calls : pc[r] = "done") /\ UNCHANGED vars

Next ==
  \/ \E c \in Clients : \/ Attach(c) \/ FinishBootstrap(c) \/ Break(c)
                         \/ Detach(c) \/ Answer(c) \/ RouteResponse(c)
  \/ \E r \in Calls : Call(r) \/ Step(r)
  \/ StopSession
  \/ Terminating

\* The goroutine of a call runs, and its timer fires in the end.
Fairness == \A r \in Calls : WF_vars(Step(r))

Spec == Init /\ [][Next]_vars
FairSpec == Spec /\ Fairness

-----------------------------------------------------------------------------
TypeOK ==
  /\ attached \in Seq(Clients) /\ ready \subseteq Clients /\ alive \subseteq Clients
  /\ inbox \in [Clients -> Seq(Calls)] /\ answers \in [Clients -> Seq(Calls)]
  /\ pc \in [Calls -> CallStates]
  /\ attempts \in [Calls -> 0..MaxRetries]
  /\ target \in [Calls -> Clients \cup {None}]
  /\ reply \in [Calls -> Calls \cup {None}]
  /\ outcome \in [Calls -> Outcomes \cup {None}]
  /\ current \in Calls \cup {None} /\ queue \in Seq(Calls)
  /\ stopped \in BOOLEAN

Queued(r) == \E i \in 1..Len(queue) : queue[i] = r

\* A call that waits has been answered, is the outstanding request or is in
\* line behind one: routeResponse and cancel always start the next request.
NotStranded ==
  /\ current = None => queue = << >>
  /\ \A r \in Calls : pc[r] = "waiting" =>
       reply[r] # None \/ current = r \/ Queued(r)

\* captureForwarder holds nothing of a call that has returned, and nothing
\* twice: a timed-out request cannot be sent to a client later.
NothingAbandoned ==
  ~stopped =>
    /\ \A r \in Calls : current = r \/ Queued(r) =>
         pc[r] \in {"waiting", "cancel"} /\ reply[r] = None
    /\ current # None => ~Queued(current)
    /\ \A i, j \in 1..Len(queue) : queue[i] = queue[j] => i = j

\* As long as no call has timed out, every caller gets the response to its
\* own request: one request is outstanding at a time, whichever client it
\* went to.
OwnAnswerUnlessTimeout ==
  (\A r \in Calls : outcome[r] \in {None, "answer", "no client"}) =>
    \A r \in Calls : reply[r] \in {None, r}

\* Every capture command returns.
EveryCallReturns == \A r \in Calls : pc[r] = "select" ~> pc[r] = "done"

\* forwardCapture "sends a capture request to the first attached interactive
\* client and waits for its response": what a call returns as the answer is
\* the response to its request.
OwnAnswer == \A r \in Calls : outcome[r] = "answer" => reply[r] = r
=============================================================================
