-------------------------- MODULE EventLoop_proofs --------------------------
(***************************************************************************)
(* For any callers, contexts and capacity: the event loop's variables keep *)
(* their types, and a mutation that is reported as refused by a session    *)
(* that shuts down was not executed unless the watchdog fired.             *)
(***************************************************************************)
EXTENDS EventLoop, TLAPS

Queued(c) == \E i \in 1..Len(queue) : queue[i] = c

\* A call that is not past Enqueue has left no trace.
NotYetCalled ==
  \A c \in Callers : pc[c] \in {"start", "enqueue"} =>
    ~Queued(c) /\ command # c /\ c \notin executed

\* A handler outlives the loop only if the watchdog fired.
LoopAndHandler ==
  /\ done <=> loop = "ended"
  /\ loop \in {"select", "hook"} => command = None
  /\ (loop = "ended" /\ command # None) => overdue

\* The answer of a mutation that ran waits for its caller.
AnswerKept ==
  \A c \in Mutations : (c \in executed /\ pc[c] = "wait") => c \in reply

\* What was refused is not going to be taken up.
RefusedForGood ==
  \A c \in Callers :
    /\ pc[c] # "returned" => result[c] = "none"
    /\ result[c] = "stopped" =>
         loop = "ended" \/ (~Queued(c) /\ command # c)

IInv ==
  TypeOK /\ NotYetCalled /\ LoopAndHandler /\ AnswerKept /\ RefusedForGood
    /\ RefusedNotExecuted

-----------------------------------------------------------------------------
(* Type correctness.                                                       *)

\* Every step of a caller, of the loop or of its handler keeps the types; the
\* queue stays within its capacity.
LEMMA TypeStep == ASSUME TypeOK, [Next]_vars PROVE TypeOK'
<1> USE CallersAssumption, NoneAssumption, CapacityAssumption
<1>1. ASSUME NEW c \in Callers, Call(c) PROVE TypeOK'
  BY <1>1 DEF Call, NotQueued, Return, TypeOK, callerVars, contextVars, loopVars, handlerVars
<1>2. ASSUME NEW c \in Callers, Put(c) PROVE TypeOK'
  BY <1>2 DEF Put, TypeOK, callerVars, contextVars, loopVars, handlerVars
<1>3. ASSUME NEW c \in Callers, GiveUp(c) PROVE TypeOK'
  BY <1>3 DEF GiveUp, NotQueued, Return, TypeOK, callerVars, contextVars, loopVars, handlerVars
<1>4. ASSUME NEW c \in Callers, ReceiveReply(c) PROVE TypeOK'
  BY <1>4 DEF ReceiveReply, Return, TypeOK, callerVars, contextVars, loopVars, handlerVars
<1>5. ASSUME NEW c \in Callers, ReturnCanceled(c) PROVE TypeOK'
  BY <1>5 DEF ReturnCanceled, Return, TypeOK, callerVars, contextVars, loopVars, handlerVars
<1>6. ASSUME NEW c \in Callers, ReturnStopped(c) PROVE TypeOK'
  BY <1>6 DEF ReturnStopped, Return, TypeOK, callerVars, contextVars, loopVars, handlerVars
<1>7. ASSUME NEW c \in Callers, CancelContext(c) PROVE TypeOK'
  BY <1>7 DEF CancelContext, TypeOK, callerVars, contextVars, loopVars, handlerVars
<1>8. CASE Take
  <2>1. queue \in Seq(Callers) /\ queue # << >>
    BY <1>8 DEF Take, TypeOK
  <2>2. Head(queue) \in Callers /\ Tail(queue) \in Seq(Callers)
    BY <2>1
  <2>3. Len(Tail(queue)) <= Capacity
    BY <2>1 DEF TypeOK
  <2>4. queue' \in Seq(Callers) /\ Len(queue') <= Capacity
    BY <1>8, <2>2, <2>3 DEF Take
  <2>5. command' \in Callers \cup {None} /\ finished' \in BOOLEAN
    BY <1>8, <2>2 DEF Take, TypeOK
  <2>6. QED
    BY <1>8, <2>4, <2>5 DEF Take, TypeOK, callerVars, contextVars
<1>9. CASE SeeStop
  BY <1>9 DEF SeeStop, End, TypeOK, callerVars, contextVars, loopVars, handlerVars
<1>10. CASE HandlerDone
  BY <1>10 DEF HandlerDone, TypeOK, callerVars, contextVars, loopVars, handlerVars
<1>11. CASE Hook
  BY <1>11 DEF Hook, End, TypeOK, callerVars, contextVars, loopVars, handlerVars
<1>12. CASE Handle
  BY <1>12 DEF Handle, TypeOK, callerVars, contextVars, loopVars, handlerVars
<1>13. CASE WatchdogFires
  BY <1>13 DEF WatchdogFires, End, TypeOK, callerVars, contextVars, loopVars, handlerVars
<1>14. CASE CancelSessionCtx
  BY <1>14 DEF CancelSessionCtx, TypeOK, callerVars, contextVars, loopVars, handlerVars
<1>15. CASE StopEventLoop
  BY <1>15 DEF StopEventLoop, TypeOK, callerVars, contextVars, loopVars, handlerVars
<1>16. CASE Settled
  BY <1>16 DEF Settled, TypeOK, callerVars, contextVars, loopVars, handlerVars, vars
<1>17. CASE UNCHANGED vars
  BY <1>17 DEF vars, TypeOK, callerVars, contextVars, loopVars, handlerVars
<1>18. QED
  BY <1>1, <1>2, <1>3, <1>4, <1>5, <1>6, <1>7, <1>8, <1>9, <1>10, <1>11, <1>12, <1>13, <1>14, <1>15, <1>16, <1>17 DEF Next, Caller, Run

\* The loop starts with an empty queue and nothing in hand.
LEMMA InitType == Init => TypeOK
<1>1. << >> \in Seq(Callers) /\ Len(<< >>) <= Capacity
  BY CapacityAssumption
<1>2. QED
  BY <1>1 DEF Init, TypeOK

\* TypeOK holds in every reachable state, for every set of callers and every
\* capacity of the queue.
THEOREM TypeCorrect == Spec => []TypeOK
<1>1. Init => TypeOK
  BY InitType
<1>2. TypeOK /\ [Next]_vars => TypeOK'
  BY TypeStep
<1>3. QED
  BY <1>1, <1>2, PTL DEF Spec

-----------------------------------------------------------------------------
(* The inductive invariant.                                                *)

\* The loop, its done channel and the handler stay in step.
LEMMA LoopAndHandlerStep ==
  ASSUME TypeOK, LoopAndHandler, [Next]_vars PROVE LoopAndHandler'
<1> USE CallersAssumption, NoneAssumption
<1>1. ASSUME NEW c \in Callers, Call(c) PROVE LoopAndHandler'
  BY <1>1 DEF Call, NotQueued, Return, TypeOK, LoopAndHandler, callerVars, contextVars, loopVars, handlerVars
<1>2. ASSUME NEW c \in Callers, Put(c) PROVE LoopAndHandler'
  BY <1>2 DEF Put, TypeOK, LoopAndHandler, callerVars, contextVars, loopVars, handlerVars
<1>3. ASSUME NEW c \in Callers, GiveUp(c) PROVE LoopAndHandler'
  BY <1>3 DEF GiveUp, NotQueued, Return, TypeOK, LoopAndHandler, callerVars, contextVars, loopVars, handlerVars
<1>4. ASSUME NEW c \in Callers, ReceiveReply(c) PROVE LoopAndHandler'
  BY <1>4 DEF ReceiveReply, Return, TypeOK, LoopAndHandler, callerVars, contextVars, loopVars, handlerVars
<1>5. ASSUME NEW c \in Callers, ReturnCanceled(c) PROVE LoopAndHandler'
  BY <1>5 DEF ReturnCanceled, Return, TypeOK, LoopAndHandler, callerVars, contextVars, loopVars, handlerVars
<1>6. ASSUME NEW c \in Callers, ReturnStopped(c) PROVE LoopAndHandler'
  BY <1>6 DEF ReturnStopped, Return, TypeOK, LoopAndHandler, callerVars, contextVars, loopVars, handlerVars
<1>7. ASSUME NEW c \in Callers, CancelContext(c) PROVE LoopAndHandler'
  BY <1>7 DEF CancelContext, TypeOK, LoopAndHandler, callerVars, contextVars, loopVars, handlerVars
<1>8. CASE Take
  BY <1>8 DEF Take, TypeOK, LoopAndHandler, callerVars, contextVars, loopVars, handlerVars
<1>9. CASE SeeStop
  BY <1>9 DEF SeeStop, End, TypeOK, LoopAndHandler, callerVars, contextVars, loopVars, handlerVars
<1>10. CASE HandlerDone
  BY <1>10 DEF HandlerDone, TypeOK, LoopAndHandler, callerVars, contextVars, loopVars, handlerVars
<1>11. CASE Hook
  BY <1>11 DEF Hook, End, TypeOK, LoopAndHandler, callerVars, contextVars, loopVars, handlerVars
<1>12. CASE Handle
  BY <1>12 DEF Handle, TypeOK, LoopAndHandler, callerVars, contextVars, loopVars, handlerVars
<1>13. CASE WatchdogFires
  BY <1>13 DEF WatchdogFires, End, TypeOK, LoopAndHandler, callerVars, contextVars, loopVars, handlerVars
<1>14. CASE CancelSessionCtx
  BY <1>14 DEF CancelSessionCtx, TypeOK, LoopAndHandler, callerVars, contextVars, loopVars, handlerVars
<1>15. CASE StopEventLoop
  BY <1>15 DEF StopEventLoop, TypeOK, LoopAndHandler, callerVars, contextVars, loopVars, handlerVars
<1>16. CASE Settled
  BY <1>16 DEF Settled, TypeOK, LoopAndHandler, callerVars, contextVars, loopVars, handlerVars, vars
<1>17. CASE UNCHANGED vars
  BY <1>17 DEF vars, TypeOK, LoopAndHandler, callerVars, contextVars, loopVars, handlerVars
<1>18. QED
  BY <1>1, <1>2, <1>3, <1>4, <1>5, <1>6, <1>7, <1>8, <1>9, <1>10, <1>11, <1>12, <1>13, <1>14, <1>15, <1>16, <1>17 DEF Next, Caller, Run

\* A call leaves its first trace when Enqueue accepts it.
LEMMA NotYetCalledStep ==
  ASSUME TypeOK, NotYetCalled, [Next]_vars PROVE NotYetCalled'
<1> USE CallersAssumption, NoneAssumption
<1>1. ASSUME NEW c \in Callers, Call(c) PROVE NotYetCalled'
  BY <1>1 DEF Call, NotQueued, Return, TypeOK, Queued, NotYetCalled, callerVars, contextVars, loopVars, handlerVars
<1>2. ASSUME NEW c \in Callers, Put(c) PROVE NotYetCalled'
  BY <1>2 DEF Put, TypeOK, Queued, NotYetCalled, callerVars, contextVars, loopVars, handlerVars
<1>3. ASSUME NEW c \in Callers, GiveUp(c) PROVE NotYetCalled'
  BY <1>3 DEF GiveUp, NotQueued, Return, TypeOK, Queued, NotYetCalled, callerVars, contextVars, loopVars, handlerVars
<1>4. ASSUME NEW c \in Callers, ReceiveReply(c) PROVE NotYetCalled'
  BY <1>4 DEF ReceiveReply, Return, TypeOK, Queued, NotYetCalled, callerVars, contextVars, loopVars, handlerVars
<1>5. ASSUME NEW c \in Callers, ReturnCanceled(c) PROVE NotYetCalled'
  BY <1>5 DEF ReturnCanceled, Return, TypeOK, Queued, NotYetCalled, callerVars, contextVars, loopVars, handlerVars
<1>6. ASSUME NEW c \in Callers, ReturnStopped(c) PROVE NotYetCalled'
  BY <1>6 DEF ReturnStopped, Return, TypeOK, Queued, NotYetCalled, callerVars, contextVars, loopVars, handlerVars
<1>7. ASSUME NEW c \in Callers, CancelContext(c) PROVE NotYetCalled'
  BY <1>7 DEF CancelContext, TypeOK, Queued, NotYetCalled, callerVars, contextVars, loopVars, handlerVars
<1>8. CASE Take
  BY <1>8 DEF Take, TypeOK, Queued, NotYetCalled, callerVars, contextVars, loopVars, handlerVars
<1>9. CASE SeeStop
  BY <1>9 DEF SeeStop, End, TypeOK, Queued, NotYetCalled, callerVars, contextVars, loopVars, handlerVars
<1>10. CASE HandlerDone
  BY <1>10 DEF HandlerDone, TypeOK, Queued, NotYetCalled, callerVars, contextVars, loopVars, handlerVars
<1>11. CASE Hook
  BY <1>11 DEF Hook, End, TypeOK, Queued, NotYetCalled, callerVars, contextVars, loopVars, handlerVars
<1>12. CASE Handle
  BY <1>12 DEF Handle, TypeOK, Queued, NotYetCalled, callerVars, contextVars, loopVars, handlerVars
<1>13. CASE WatchdogFires
  BY <1>13 DEF WatchdogFires, End, TypeOK, Queued, NotYetCalled, callerVars, contextVars, loopVars, handlerVars
<1>14. CASE CancelSessionCtx
  BY <1>14 DEF CancelSessionCtx, TypeOK, Queued, NotYetCalled, callerVars, contextVars, loopVars, handlerVars
<1>15. CASE StopEventLoop
  BY <1>15 DEF StopEventLoop, TypeOK, Queued, NotYetCalled, callerVars, contextVars, loopVars, handlerVars
<1>16. CASE Settled
  BY <1>16 DEF Settled, TypeOK, Queued, NotYetCalled, callerVars, contextVars, loopVars, handlerVars, vars
<1>17. CASE UNCHANGED vars
  BY <1>17 DEF vars, TypeOK, Queued, NotYetCalled, callerVars, contextVars, loopVars, handlerVars
<1>18. QED
  BY <1>1, <1>2, <1>3, <1>4, <1>5, <1>6, <1>7, <1>8, <1>9, <1>10, <1>11, <1>12, <1>13, <1>14, <1>15, <1>16, <1>17 DEF Next, Caller, Run

\* A reply leaves its channel only with its caller's return.
LEMMA AnswerKeptStep ==
  ASSUME TypeOK, NotYetCalled, AnswerKept, [Next]_vars PROVE AnswerKept'
<1> USE CallersAssumption, NoneAssumption
<1>1. ASSUME NEW c \in Callers, Call(c) PROVE AnswerKept'
  BY <1>1 DEF Call, NotQueued, Return, TypeOK, Queued, NotYetCalled, AnswerKept, callerVars, contextVars, loopVars, handlerVars
<1>2. ASSUME NEW c \in Callers, Put(c) PROVE AnswerKept'
  BY <1>2 DEF Put, TypeOK, Queued, NotYetCalled, AnswerKept, callerVars, contextVars, loopVars, handlerVars
<1>3. ASSUME NEW c \in Callers, GiveUp(c) PROVE AnswerKept'
  BY <1>3 DEF GiveUp, NotQueued, Return, TypeOK, Queued, NotYetCalled, AnswerKept, callerVars, contextVars, loopVars, handlerVars
<1>4. ASSUME NEW c \in Callers, ReceiveReply(c) PROVE AnswerKept'
  BY <1>4 DEF ReceiveReply, Return, TypeOK, Queued, NotYetCalled, AnswerKept, callerVars, contextVars, loopVars, handlerVars
<1>5. ASSUME NEW c \in Callers, ReturnCanceled(c) PROVE AnswerKept'
  BY <1>5 DEF ReturnCanceled, Return, TypeOK, Queued, NotYetCalled, AnswerKept, callerVars, contextVars, loopVars, handlerVars
<1>6. ASSUME NEW c \in Callers, ReturnStopped(c) PROVE AnswerKept'
  BY <1>6 DEF ReturnStopped, Return, TypeOK, Queued, NotYetCalled, AnswerKept, callerVars, contextVars, loopVars, handlerVars
<1>7. ASSUME NEW c \in Callers, CancelContext(c) PROVE AnswerKept'
  BY <1>7 DEF CancelContext, TypeOK, Queued, NotYetCalled, AnswerKept, callerVars, contextVars, loopVars, handlerVars
<1>8. CASE Take
  BY <1>8 DEF Take, TypeOK, Queued, NotYetCalled, AnswerKept, callerVars, contextVars, loopVars, handlerVars
<1>9. CASE SeeStop
  BY <1>9 DEF SeeStop, End, TypeOK, Queued, NotYetCalled, AnswerKept, callerVars, contextVars, loopVars, handlerVars
<1>10. CASE HandlerDone
  BY <1>10 DEF HandlerDone, TypeOK, Queued, NotYetCalled, AnswerKept, callerVars, contextVars, loopVars, handlerVars
<1>11. CASE Hook
  BY <1>11 DEF Hook, End, TypeOK, Queued, NotYetCalled, AnswerKept, callerVars, contextVars, loopVars, handlerVars
<1>12. CASE Handle
  BY <1>12 DEF Handle, TypeOK, Queued, NotYetCalled, AnswerKept, callerVars, contextVars, loopVars, handlerVars
<1>13. CASE WatchdogFires
  BY <1>13 DEF WatchdogFires, End, TypeOK, Queued, NotYetCalled, AnswerKept, callerVars, contextVars, loopVars, handlerVars
<1>14. CASE CancelSessionCtx
  BY <1>14 DEF CancelSessionCtx, TypeOK, Queued, NotYetCalled, AnswerKept, callerVars, contextVars, loopVars, handlerVars
<1>15. CASE StopEventLoop
  BY <1>15 DEF StopEventLoop, TypeOK, Queued, NotYetCalled, AnswerKept, callerVars, contextVars, loopVars, handlerVars
<1>16. CASE Settled
  BY <1>16 DEF Settled, TypeOK, Queued, NotYetCalled, AnswerKept, callerVars, contextVars, loopVars, handlerVars, vars
<1>17. CASE UNCHANGED vars
  BY <1>17 DEF vars, TypeOK, Queued, NotYetCalled, AnswerKept, callerVars, contextVars, loopVars, handlerVars
<1>18. QED
  BY <1>1, <1>2, <1>3, <1>4, <1>5, <1>6, <1>7, <1>8, <1>9, <1>10, <1>11, <1>12, <1>13, <1>14, <1>15, <1>16, <1>17 DEF Next, Caller, Run

\* Only a call that is in the queue is taken up, and only by a running loop.
LEMMA RefusedForGoodStep ==
  ASSUME TypeOK, NotYetCalled, LoopAndHandler, RefusedForGood, [Next]_vars PROVE RefusedForGood'
<1> USE CallersAssumption, NoneAssumption
<1>1. ASSUME NEW c \in Callers, Call(c) PROVE RefusedForGood'
  BY <1>1 DEF Call, NotQueued, Return, TypeOK, Queued, NotYetCalled, LoopAndHandler, RefusedForGood, callerVars, contextVars, loopVars, handlerVars
<1>2. ASSUME NEW c \in Callers, Put(c) PROVE RefusedForGood'
  BY <1>2 DEF Put, TypeOK, Queued, NotYetCalled, LoopAndHandler, RefusedForGood, callerVars, contextVars, loopVars, handlerVars
<1>3. ASSUME NEW c \in Callers, GiveUp(c) PROVE RefusedForGood'
  BY <1>3 DEF GiveUp, NotQueued, Return, TypeOK, Queued, NotYetCalled, LoopAndHandler, RefusedForGood, callerVars, contextVars, loopVars, handlerVars
<1>4. ASSUME NEW c \in Callers, ReceiveReply(c) PROVE RefusedForGood'
  BY <1>4 DEF ReceiveReply, Return, TypeOK, Queued, NotYetCalled, LoopAndHandler, RefusedForGood, callerVars, contextVars, loopVars, handlerVars
<1>5. ASSUME NEW c \in Callers, ReturnCanceled(c) PROVE RefusedForGood'
  BY <1>5 DEF ReturnCanceled, Return, TypeOK, Queued, NotYetCalled, LoopAndHandler, RefusedForGood, callerVars, contextVars, loopVars, handlerVars
<1>6. ASSUME NEW c \in Callers, ReturnStopped(c) PROVE RefusedForGood'
  BY <1>6 DEF ReturnStopped, Return, TypeOK, Queued, NotYetCalled, LoopAndHandler, RefusedForGood, callerVars, contextVars, loopVars, handlerVars
<1>7. ASSUME NEW c \in Callers, CancelContext(c) PROVE RefusedForGood'
  BY <1>7 DEF CancelContext, TypeOK, Queued, NotYetCalled, LoopAndHandler, RefusedForGood, callerVars, contextVars, loopVars, handlerVars
<1>8. CASE Take
  BY <1>8 DEF Take, TypeOK, Queued, NotYetCalled, LoopAndHandler, RefusedForGood, callerVars, contextVars, loopVars, handlerVars
<1>9. CASE SeeStop
  BY <1>9 DEF SeeStop, End, TypeOK, Queued, NotYetCalled, LoopAndHandler, RefusedForGood, callerVars, contextVars, loopVars, handlerVars
<1>10. CASE HandlerDone
  BY <1>10 DEF HandlerDone, TypeOK, Queued, NotYetCalled, LoopAndHandler, RefusedForGood, callerVars, contextVars, loopVars, handlerVars
<1>11. CASE Hook
  BY <1>11 DEF Hook, End, TypeOK, Queued, NotYetCalled, LoopAndHandler, RefusedForGood, callerVars, contextVars, loopVars, handlerVars
<1>12. CASE Handle
  BY <1>12 DEF Handle, TypeOK, Queued, NotYetCalled, LoopAndHandler, RefusedForGood, callerVars, contextVars, loopVars, handlerVars
<1>13. CASE WatchdogFires
  BY <1>13 DEF WatchdogFires, End, TypeOK, Queued, NotYetCalled, LoopAndHandler, RefusedForGood, callerVars, contextVars, loopVars, handlerVars
<1>14. CASE CancelSessionCtx
  BY <1>14 DEF CancelSessionCtx, TypeOK, Queued, NotYetCalled, LoopAndHandler, RefusedForGood, callerVars, contextVars, loopVars, handlerVars
<1>15. CASE StopEventLoop
  BY <1>15 DEF StopEventLoop, TypeOK, Queued, NotYetCalled, LoopAndHandler, RefusedForGood, callerVars, contextVars, loopVars, handlerVars
<1>16. CASE Settled
  BY <1>16 DEF Settled, TypeOK, Queued, NotYetCalled, LoopAndHandler, RefusedForGood, callerVars, contextVars, loopVars, handlerVars, vars
<1>17. CASE UNCHANGED vars
  BY <1>17 DEF vars, TypeOK, Queued, NotYetCalled, LoopAndHandler, RefusedForGood, callerVars, contextVars, loopVars, handlerVars
<1>18. QED
  BY <1>1, <1>2, <1>3, <1>4, <1>5, <1>6, <1>7, <1>8, <1>9, <1>10, <1>11, <1>12, <1>13, <1>14, <1>15, <1>16, <1>17 DEF Next, Caller, Run

\* A refusal is preceded by a look at the reply channel.
LEMMA RefusedNotExecutedStep ==
  ASSUME TypeOK, NotYetCalled, LoopAndHandler, AnswerKept, RefusedForGood, RefusedNotExecuted, [Next]_vars PROVE RefusedNotExecuted'
<1> USE CallersAssumption, NoneAssumption
<1>1. ASSUME NEW c \in Callers, Call(c) PROVE RefusedNotExecuted'
  BY <1>1 DEF Call, NotQueued, Return, TypeOK, Queued, NotYetCalled, LoopAndHandler, AnswerKept, RefusedForGood, RefusedNotExecuted, callerVars, contextVars, loopVars, handlerVars
<1>2. ASSUME NEW c \in Callers, Put(c) PROVE RefusedNotExecuted'
  BY <1>2 DEF Put, TypeOK, Queued, NotYetCalled, LoopAndHandler, AnswerKept, RefusedForGood, RefusedNotExecuted, callerVars, contextVars, loopVars, handlerVars
<1>3. ASSUME NEW c \in Callers, GiveUp(c) PROVE RefusedNotExecuted'
  BY <1>3 DEF GiveUp, NotQueued, Return, TypeOK, Queued, NotYetCalled, LoopAndHandler, AnswerKept, RefusedForGood, RefusedNotExecuted, callerVars, contextVars, loopVars, handlerVars
<1>4. ASSUME NEW c \in Callers, ReceiveReply(c) PROVE RefusedNotExecuted'
  BY <1>4 DEF ReceiveReply, Return, TypeOK, Queued, NotYetCalled, LoopAndHandler, AnswerKept, RefusedForGood, RefusedNotExecuted, callerVars, contextVars, loopVars, handlerVars
<1>5. ASSUME NEW c \in Callers, ReturnCanceled(c) PROVE RefusedNotExecuted'
  BY <1>5 DEF ReturnCanceled, Return, TypeOK, Queued, NotYetCalled, LoopAndHandler, AnswerKept, RefusedForGood, RefusedNotExecuted, callerVars, contextVars, loopVars, handlerVars
<1>6. ASSUME NEW c \in Callers, ReturnStopped(c) PROVE RefusedNotExecuted'
  BY <1>6 DEF ReturnStopped, Return, TypeOK, Queued, NotYetCalled, LoopAndHandler, AnswerKept, RefusedForGood, RefusedNotExecuted, callerVars, contextVars, loopVars, handlerVars
<1>7. ASSUME NEW c \in Callers, CancelContext(c) PROVE RefusedNotExecuted'
  BY <1>7 DEF CancelContext, TypeOK, Queued, NotYetCalled, LoopAndHandler, AnswerKept, RefusedForGood, RefusedNotExecuted, callerVars, contextVars, loopVars, handlerVars
<1>8. CASE Take
  BY <1>8 DEF Take, TypeOK, Queued, NotYetCalled, LoopAndHandler, AnswerKept, RefusedForGood, RefusedNotExecuted, callerVars, contextVars, loopVars, handlerVars
<1>9. CASE SeeStop
  BY <1>9 DEF SeeStop, End, TypeOK, Queued, NotYetCalled, LoopAndHandler, AnswerKept, RefusedForGood, RefusedNotExecuted, callerVars, contextVars, loopVars, handlerVars
<1>10. CASE HandlerDone
  BY <1>10 DEF HandlerDone, TypeOK, Queued, NotYetCalled, LoopAndHandler, AnswerKept, RefusedForGood, RefusedNotExecuted, callerVars, contextVars, loopVars, handlerVars
<1>11. CASE Hook
  BY <1>11 DEF Hook, End, TypeOK, Queued, NotYetCalled, LoopAndHandler, AnswerKept, RefusedForGood, RefusedNotExecuted, callerVars, contextVars, loopVars, handlerVars
<1>12. CASE Handle
  BY <1>12 DEF Handle, TypeOK, Queued, NotYetCalled, LoopAndHandler, AnswerKept, RefusedForGood, RefusedNotExecuted, callerVars, contextVars, loopVars, handlerVars
<1>13. CASE WatchdogFires
  BY <1>13 DEF WatchdogFires, End, TypeOK, Queued, NotYetCalled, LoopAndHandler, AnswerKept, RefusedForGood, RefusedNotExecuted, callerVars, contextVars, loopVars, handlerVars
<1>14. CASE CancelSessionCtx
  BY <1>14 DEF CancelSessionCtx, TypeOK, Queued, NotYetCalled, LoopAndHandler, AnswerKept, RefusedForGood, RefusedNotExecuted, callerVars, contextVars, loopVars, handlerVars
<1>15. CASE StopEventLoop
  BY <1>15 DEF StopEventLoop, TypeOK, Queued, NotYetCalled, LoopAndHandler, AnswerKept, RefusedForGood, RefusedNotExecuted, callerVars, contextVars, loopVars, handlerVars
<1>16. CASE Settled
  BY <1>16 DEF Settled, TypeOK, Queued, NotYetCalled, LoopAndHandler, AnswerKept, RefusedForGood, RefusedNotExecuted, callerVars, contextVars, loopVars, handlerVars, vars
<1>17. CASE UNCHANGED vars
  BY <1>17 DEF vars, TypeOK, Queued, NotYetCalled, LoopAndHandler, AnswerKept, RefusedForGood, RefusedNotExecuted, callerVars, contextVars, loopVars, handlerVars
<1>18. QED
  BY <1>1, <1>2, <1>3, <1>4, <1>5, <1>6, <1>7, <1>8, <1>9, <1>10, <1>11, <1>12, <1>13, <1>14, <1>15, <1>16, <1>17 DEF Next, Caller, Run

\* The invariant is inductive.
LEMMA Inductive == IInv /\ [Next]_vars => IInv'
BY TypeStep, LoopAndHandlerStep, NotYetCalledStep, AnswerKeptStep,
   RefusedForGoodStep, RefusedNotExecutedStep DEF IInv

\* A mutation that enqueueCommandMutationContext reports as refused was not
\* executed, unless the watchdog ended the loop under its handler.
THEOREM RefusalSound == Spec => []RefusedNotExecuted
<1>1. Init => IInv
  BY InitType, CallersAssumption, NoneAssumption
  DEF Init, IInv, NotYetCalled, Queued, LoopAndHandler, AnswerKept,
      RefusedForGood, RefusedNotExecuted
<1>2. IInv => RefusedNotExecuted
  BY DEF IInv
<1>3. QED
  BY <1>1, <1>2, Inductive, PTL DEF Spec
=============================================================================
