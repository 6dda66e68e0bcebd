------------------------------- MODULE Mailbox -------------------------------
(***************************************************************************)
(* The pane mailbox of a session: the store of messages and deliveries,    *)
(* the msg commands that change it, the events it emits, the wait msg      *)
(* command that listens to them, and the checkpoints it survives in.       *)
(*                                                                         *)
(* The session loop runs one handler at a time.  A send or a reply is not  *)
(* one handler: it is planned on the loop, forwarded to other hosts off    *)
(* it, and stored (and its parent acked) on the loop again.                *)
(***************************************************************************)
EXTENDS Integers, Sequences, FiniteSets, FiniteSetsExt

CONSTANTS
  Panes,           \* pane IDs, of this server and of the others alike
  Senders,         \* panes that run msg send and msg reply
  Waiters,         \* panes for which wait msg is run
  Wakeful,         \* panes with mailbox_wake set
  Topics,          \* topics of messages
  Filters,         \* topics that wait msg is told to wait for; "any": none
  AckStatuses,     \* statuses of msg ack
  Hosts,           \* other hosts, in name order
  RemoteThreads,   \* threads that messages of other hosts name; 0: none
  StoredMessages,  \* limit of the store
  SubscriberCap,   \* capacity of a subscriber's channel
  MaxLoad          \* bound: mailbox events, waits, pane exits, checkpoints
                   \* reloads and crashes, together

ASSUME MailboxAssumption ==
  /\ Senders \subseteq Panes /\ Waiters \subseteq Panes /\ Wakeful \subseteq Panes
  /\ "ok" \in AckStatuses /\ "none" \notin AckStatuses
  /\ Hosts \in Seq(STRING) /\ RemoteThreads \subseteq Nat
  /\ StoredMessages \in Nat \ {0} /\ SubscriberCap \in Nat \ {0}
  /\ MaxLoad \in Nat

VARIABLES
  open,        \* panes that are in a window
  nextSeq,     \* number of the next message ID
  messages,    \* ID -> message
  deliveries,  \* <<pane, ID>> -> delivery state
  eventSeq,    \* number of the last mailbox event
  command,     \* the msg send or reply each pane is running
  waiter,      \* the wait msg command for each pane
  disk,        \* the mailbox of the last crash checkpoint
  reload,      \* the mailbox of the checkpoint of the reload under way
  load,        \* what has happened of what MaxLoad bounds
  reported     \* greatest message ID a command has returned, of those that
               \* the last crash, if any, has spared

vars == <<open, nextSeq, messages, deliveries, eventSeq, command, waiter, disk, reload,
          load, reported>>

Bounded(n) == load + n <= MaxLoad /\ load' = load + n

store == <<nextSeq, messages, deliveries, eventSeq>>
saved == <<disk, reload>>

NoCommand == [step |-> "idle"]

NotWaiting == [active |-> FALSE]

NotReloading == [nextSeq |-> 0]

EmptyStore == [nextSeq |-> 1, messages |-> << >>, deliveries |-> << >>, eventSeq |-> 0]

Init ==
  /\ open = Panes
  /\ nextSeq = 1 /\ messages = << >> /\ deliveries = << >> /\ eventSeq = 0
  /\ command = [p \in Panes |-> NoCommand]
  /\ waiter = [p \in Panes |-> NotWaiting]
  /\ disk = EmptyStore /\ reload = NotReloading
  /\ load = 0 /\ reported = 0

-----------------------------------------------------------------------------
\* Queries of the store.

IDs == DOMAIN messages

DeliveredTo(p) == {id \in IDs : <<p, id>> \in DOMAIN deliveries}

NeedsRead(d) == ~d.read

NeedsAck(d) == d.ack = "none"

ListUnread(p) ==
  {id \in DeliveredTo(p) : NeedsRead(deliveries[p, id]) /\ NeedsAck(deliveries[p, id])}

\* Faulty variant: a message that was read is no longer pending.
PendingUnread(p) == ListUnread(p)

Pending(p) ==
  {id \in DeliveredTo(p) : NeedsRead(deliveries[p, id]) \/ NeedsAck(deliveries[p, id])}

MaxLastEventSeq(ds) == Max({0} \cup {ds[k].seq : k \in DOMAIN ds})

-----------------------------------------------------------------------------
\* Events and the subscribers of wait msg.

Matches(w, ev) ==
  /\ ev.type = "delivered"
  /\ w.topic \in {"any", ev.topic}
  /\ ev.id > w.afterID
  /\ ev.seq > w.after

\* event[p], for every pane p that has one, reaches that pane's subscriber, or
\* is dropped when its channel is full.
Emit(event) ==
  waiter' = [p \in Panes |->
    IF p \notin DOMAIN event \/ ~waiter[p].active THEN waiter[p]
    ELSE IF Len(waiter[p].queue) = SubscriberCap THEN [waiter[p] EXCEPT !.dropped = TRUE]
    ELSE [waiter[p] EXCEPT !.queue = Append(@, event[p])]]

-----------------------------------------------------------------------------
\* Storing a message.

HasRoom == Cardinality(IDs) < StoredMessages

ResolveThread(parent, requested, id) ==
  IF parent # 0 THEN messages[parent].thread
  ELSE IF requested # 0 THEN requested
  ELSE id

\* Panes a delivery may wake: opted in, in the session and with nothing
\* pending before.
MayWake(sender, recipients) ==
  {r \in recipients \cap open \cap Wakeful : r # sender /\ Pending(r) = {}}

\* The recipients' events are numbered in the order of the recipients.
Numbering(recipients) ==
  {f \in [recipients -> (eventSeq + 1)..(eventSeq + Cardinality(recipients))] :
     \A r, s \in recipients : f[r] = f[s] => r = s}

\* Whether an idle pane among those that may be woken was idle is not modelled.
SendMailboxMessage(sender, origin, recipients, topic, parent, requested) ==
  /\ HasRoom
  /\ parent # 0 => parent \in IDs
  /\ Bounded(Cardinality(recipients))
  /\ \E woken \in SUBSET MayWake(sender, recipients), number \in Numbering(recipients) :
       /\ deliveries' = [k \in DOMAIN deliveries \cup (recipients \X {nextSeq}) |->
            IF k[2] = nextSeq
            THEN [read |-> FALSE, ack |-> "none", seq |-> number[k[1]], woken |-> k[1] \in woken]
            ELSE deliveries[k]]
       /\ Emit([p \in recipients |-> [type |-> "delivered", id |-> nextSeq,
                                       topic |-> topic, seq |-> number[p]]])
  /\ messages' = [id \in IDs \cup {nextSeq} |->
       IF id = nextSeq
       THEN [sender |-> sender, origin |-> origin, recipients |-> recipients, topic |-> topic,
             parent |-> parent, thread |-> ResolveThread(parent, requested, nextSeq)]
       ELSE messages[id]]
  /\ eventSeq' = eventSeq + Cardinality(recipients)
  /\ nextSeq' = nextSeq + 1
  /\ reported' = Max({reported, nextSeq})

-----------------------------------------------------------------------------
\* msg send and msg reply.

Plan(p, recipients, topic, parent, inferred, ack, remote) ==
  /\ command[p] = NoCommand
  /\ p \in open
  /\ command' = [command EXCEPT ![p] =
       [step |-> "planned", recipients |-> recipients, topic |-> topic, parent |-> parent,
        inferred |-> inferred, ack |-> ack, hosts |-> IF remote THEN Hosts ELSE << >>]]
  /\ UNCHANGED <<open, store, waiter, saved, load, reported>>

\* Recipients named by the user: panes in windows, mirrors of panes of the
\* other hosts among them.
Targets ==
  {t \in [local : SUBSET open, remote : BOOLEAN] :
     (t.local # {} \/ t.remote) /\ (t.remote => Hosts # << >>)}

PlanMsgSend(p) ==
  \E to \in Targets, topic \in Topics, parent \in {0} \cup IDs :
    Plan(p, to.local, topic, parent, FALSE, "none", to.remote)

\* Without --to a reply goes to the parent's sender, or from the sender to
\* the parent's other recipients.  Without --topic it has the parent's topic.
ReplyRecipients(p, parent) ==
  LET m == messages[parent] IN
    IF p # m.sender
    THEN IF p \in m.recipients THEN {m.sender} ELSE {}
    ELSE m.recipients \ {p}

PlanMsgReply(p) ==
  \E parent \in IDs, ack \in {"none", "ok"} :
    /\ ack # "none" => parent \in DeliveredTo(p)
    /\ \/ /\ ReplyRecipients(p, parent) # {}
          /\ Plan(p, ReplyRecipients(p, parent), messages[parent].topic, parent, TRUE, ack, FALSE)
       \/ \E to \in Targets :
            Plan(p, to.local, messages[parent].topic, parent, FALSE, ack, to.remote)

\* Remote recipients come first, host by host; a failure ends the command.
Forward(p) ==
  /\ command[p].step = "planned" /\ command[p].hosts # << >>
  /\ \E delivered \in BOOLEAN :
       command' = [command EXCEPT ![p] =
         IF delivered THEN [@ EXCEPT !.hosts = Tail(@)] ELSE NoCommand]
  /\ UNCHANGED <<open, store, waiter, saved, load, reported>>

StoreFails(c) == ~HasRoom \/ (c.parent # 0 /\ c.parent \notin IDs)

\* What is left to do once the local recipients have the message.
AfterStore(c) == IF c.ack = "none" THEN NoCommand ELSE [c EXCEPT !.step = "acking"]

Store(p) ==
  LET c == command[p] IN
    /\ c.step = "planned" /\ c.hosts = << >>
    /\ \/ /\ c.recipients # {}
          /\ SendMailboxMessage(p, "here", c.recipients, c.topic, c.parent, 0)
          /\ command' = [command EXCEPT ![p] = AfterStore(c)]
          /\ UNCHANGED <<open, saved>>
       \/ /\ c.recipients = {}
          /\ command' = [command EXCEPT ![p] = AfterStore(c)]
          /\ UNCHANGED <<open, store, waiter, saved, load, reported>>
       \/ /\ c.recipients # {} /\ StoreFails(c)
          /\ command' = [command EXCEPT ![p] = NoCommand]
          /\ UNCHANGED <<open, store, waiter, saved, load, reported>>

\* msg deliver: another host forwards a message whose sender is a pane there.
\* Pane IDs and thread IDs of both hosts are numbers counted from one.
Deliver ==
  /\ Hosts # << >>
  /\ \E sender \in Senders, recipients \in SUBSET open \ {{}}, topic \in Topics,
        thread \in RemoteThreads :
       SendMailboxMessage(sender, "there", recipients, topic, 0, thread)
  /\ UNCHANGED <<open, command, saved>>

-----------------------------------------------------------------------------
\* msg read and msg ack.

\* A change of a delivery is an event; wait msg does not listen to these.
Change(p, id, d) ==
  /\ Bounded(1)
  /\ eventSeq' = eventSeq + 1
  /\ deliveries' = [deliveries EXCEPT ![p, id] = [d EXCEPT !.seq = eventSeq']]
  /\ UNCHANGED <<nextSeq, messages>>

Read(p) ==
  /\ p \in open
  /\ \E id \in DeliveredTo(p) :
       /\ NeedsRead(deliveries[p, id])
       /\ Change(p, id, [deliveries[p, id] EXCEPT !.read = TRUE])
  /\ UNCHANGED <<open, command, waiter, saved, reported>>

AckMailboxMessage(p, id, status) ==
  IF deliveries[p, id].ack = status
  THEN UNCHANGED <<store, load>>
  ELSE Change(p, id, [deliveries[p, id] EXCEPT !.ack = status])

Ack(p) ==
  /\ p \in open
  /\ \E id \in DeliveredTo(p), status \in AckStatuses : AckMailboxMessage(p, id, status)
  /\ UNCHANGED <<open, command, waiter, saved, reported>>

\* The last step of reply --ack.
AckParent(p) ==
  /\ command[p].step = "acking"
  /\ AckMailboxMessage(p, command[p].parent, command[p].ack)
  /\ command' = [command EXCEPT ![p] = NoCommand]
  /\ UNCHANGED <<open, waiter, saved, reported>>

-----------------------------------------------------------------------------
\* wait msg.

Waiting(topic, afterID, after) ==
  [active |-> TRUE, topic |-> topic, afterID |-> afterID, after |-> after, queue |-> << >>, dropped |-> FALSE]

\* Faulty variant: the unread messages are not looked at.
WaitSubscribeBlind(p) ==
  /\ p \in open
  /\ ~waiter[p].active
  /\ Bounded(1)
  /\ \E topic \in Filters, afterID \in {0} \cup IDs, after \in 0..eventSeq :
       waiter' = [waiter EXCEPT ![p] = Waiting(topic, afterID, after)]
  /\ UNCHANGED <<open, store, command, saved, reported>>

\* The subscription and the list of unread messages are taken together; the
\* command returns at once when one of them matches.
WaitSubscribe(p) ==
  /\ p \in open
  /\ ~waiter[p].active
  /\ Bounded(1)
  /\ \E topic \in Filters, afterID \in {0} \cup IDs, after \in 0..eventSeq :
       /\ \A id \in ListUnread(p) :
            ~Matches([topic |-> topic, afterID |-> afterID, after |-> after],
                     [type |-> "delivered", id |-> id, topic |-> messages[id].topic,
                      seq |-> deliveries[p, id].seq])
       /\ waiter' = [waiter EXCEPT ![p] = Waiting(topic, afterID, after)]
  /\ UNCHANGED <<open, store, command, saved, reported>>

WaitReceive(p) ==
  /\ waiter[p].active /\ waiter[p].queue # << >>
  /\ LET ev == Head(waiter[p].queue) IN
       waiter' = [waiter EXCEPT ![p] =
         IF ev.type = "exit" \/ Matches(@, ev) THEN NotWaiting ELSE [@ EXCEPT !.queue = Tail(@)]]
  /\ UNCHANGED <<open, store, command, saved, load, reported>>

WaitTimeout(p) ==
  /\ waiter[p].active
  /\ waiter' = [waiter EXCEPT ![p] = NotWaiting]
  /\ UNCHANGED <<open, store, command, saved, load, reported>>

-----------------------------------------------------------------------------
\* Panes, checkpoints and restarts.

ClosePane(p) ==
  /\ p \in open /\ open # {p}
  /\ open' = open \ {p}
  /\ Emit([q \in {p} |-> [type |-> "exit"]])
  /\ Bounded(1)
  /\ UNCHANGED <<store, command, saved, reported>>

Snapshot == [nextSeq |-> nextSeq, messages |-> messages, deliveries |-> deliveries, eventSeq |-> eventSeq]

WriteCheckpoint ==
  /\ Bounded(1)
  /\ disk' = Snapshot
  /\ UNCHANGED <<open, store, command, waiter, reload, reported>>

\* Reload takes its snapshot on the loop, and the loop goes on until exec.
BuildReloadCheckpoint ==
  /\ reload = NotReloading
  /\ Bounded(1)
  /\ reload' = Snapshot
  /\ UNCHANGED <<open, store, command, waiter, disk, reported>>

\* Faulty variant: a reload that fails goes back to what it had checkpointed.
ReloadFailsRestoring ==
  /\ reload # NotReloading
  /\ reload' = NotReloading
  /\ messages' = reload.messages /\ deliveries' = reload.deliveries
  /\ UNCHANGED <<open, nextSeq, eventSeq, command, waiter, disk, load, reported>>

ReloadFails ==
  /\ reload # NotReloading
  /\ reload' = NotReloading
  /\ UNCHANGED <<open, store, command, waiter, disk, load, reported>>

RestoredSeq(snap) == Max({snap.nextSeq, Max({0} \cup DOMAIN snap.messages) + 1})

\* Faulty variant: the deliveries are left out of the checkpoint.
RestoreMailboxMessagesOnly(snap) ==
  /\ messages' = snap.messages /\ deliveries' = << >>
  /\ nextSeq' = RestoredSeq(snap) /\ eventSeq' = snap.eventSeq

\* Faulty variant: event numbers start again at one.
RestoreMailboxRenumbered(snap) ==
  /\ messages' = snap.messages /\ deliveries' = snap.deliveries
  /\ nextSeq' = RestoredSeq(snap) /\ eventSeq' = 0

\* A mailbox without messages is not in the checkpoint.
RestoreMailbox(snap) ==
  LET s == IF snap.messages = << >> THEN EmptyStore ELSE snap IN
    /\ messages' = s.messages /\ deliveries' = s.deliveries
    /\ nextSeq' = RestoredSeq(s)
    /\ eventSeq' = Max({s.eventSeq, MaxLastEventSeq(s.deliveries)})

\* Commands, subscriptions and reloads end with the server process.
ProcessGone ==
  /\ command' = [p \in Panes |-> NoCommand]
  /\ waiter' = [p \in Panes |-> NotWaiting]
  /\ reload' = NotReloading
  /\ UNCHANGED <<open, disk>>

ExecReload ==
  /\ reload # NotReloading
  /\ RestoreMailbox(reload)
  /\ ProcessGone
  /\ UNCHANGED <<load, reported>>

Crash ==
  /\ Bounded(1)
  /\ RestoreMailbox(disk)
  /\ reported' = Max({0} \cup DOMAIN disk.messages)
  /\ ProcessGone

Next ==
  \/ \E p \in Senders :
       PlanMsgSend(p) \/ PlanMsgReply(p) \/ Forward(p) \/ Store(p) \/ AckParent(p)
  \/ \E p \in Waiters : WaitSubscribe(p) \/ WaitReceive(p) \/ WaitTimeout(p)
  \/ \E p \in Panes : Read(p) \/ Ack(p) \/ ClosePane(p)
  \/ Deliver
  \/ WriteCheckpoint
  \/ BuildReloadCheckpoint \/ ReloadFails \/ ExecReload
  \/ Crash

Spec == Init /\ [][Next]_vars

-----------------------------------------------------------------------------
\* Properties.

Message == [sender : Panes, origin : {"here", "there"}, recipients : SUBSET Panes \ {{}},
            topic : Topics, parent : Nat, thread : Nat \ {0}]

Delivery == [read : BOOLEAN, ack : AckStatuses \cup {"none"}, seq : Nat, woken : BOOLEAN]

\* Types, and every message has exactly the deliveries of its recipients.
TypeOK ==
  /\ open \in SUBSET Panes \ {{}}
  /\ nextSeq \in Nat \ {0} /\ eventSeq \in 0..load /\ load \in 0..MaxLoad
  /\ IDs \subseteq Nat \ {0}
  /\ \A id \in IDs : messages[id] \in Message
  /\ DOMAIN deliveries = UNION {messages[id].recipients \X {id} : id \in IDs}
  /\ \A k \in DOMAIN deliveries : deliveries[k] \in Delivery
  /\ \A p \in Panes : command[p].step \in {"idle", "planned", "acking"}

\* wait msg (WaitMessage, mailboxWaitSubscribeCmd) does not sleep through a
\* message: while it waits, an unread message that matches its filter and its
\* cursor has its event in the channel, unless the channel overflowed.
NoMissedMessage ==
  \A p \in Panes : waiter[p].active /\ ~waiter[p].dropped =>
    \A id \in ListUnread(p) :
      LET ev == [type |-> "delivered", id |-> id, topic |-> messages[id].topic, seq |-> deliveries[p, id].seq] IN
        Matches(waiter[p], ev) =>
          \E i \in 1..Len(waiter[p].queue) : waiter[p].queue[i] = ev

\* A pane is woken again only after it dealt with everything it was woken for
\* (sendMailboxMessage): every message older than one that woke it and
\* delivered to it is read and acked.
WokenWhenDrained ==
  \A p \in Panes : \A n \in DeliveredTo(p) : deliveries[p, n].woken =>
    \A m \in DeliveredTo(p) : m < n => deliveries[p, m].read /\ deliveries[p, m].ack # "none"

\* Event numbers are not reused: no two deliveries carry the same last event,
\* and none a later one than the counter, through restarts too
\* (nextMailboxEventSeq, restoreMailbox).
EventNumbersDistinct ==
  /\ \A k, l \in DOMAIN deliveries : deliveries[k].seq = deliveries[l].seq => k = l
  /\ MaxLastEventSeq(deliveries) <= eventSeq

\* A stored message is never altered, removed or overwritten by a later one
\* with its ID, through restarts too: only going back to a snapshot takes one
\* away (Store.Send, RestoreSnapshot).
MessagesKept ==
  [][\/ ExecReload \/ Crash
     \/ \A id \in IDs : id \in DOMAIN messages' /\ messages'[id] = messages[id]]_vars

\* "Message IDs are opaque, monotonic within the session, and stable across
\* checkpoint/restore": a new message's ID is greater than every ID a command
\* has returned, but for the ones a crash made the server forget.
FreshIDs == [][nextSeq' > nextSeq => nextSeq > reported]_vars

\* A reply whose recipients are inferred goes to where its parent came from:
\* to no pane of this server when the parent's sender is on another host.
InferredReplyGoesHome ==
  \A p \in Panes : (command[p].step = "planned" /\ command[p].inferred) =>
    (messages[command[p].parent].origin = "there" => command[p].recipients = {})
=============================================================================
