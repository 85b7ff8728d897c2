----------------------------- MODULE ChatPending -----------------------------
(***************************************************************************)
(* One chat session in the chat window: the pending task behind the status *)
(* pill and the input lock, and the list of messages.  handleSend and      *)
(* handleStop (views/chat/components/chat-window.tsx) write both into the  *)
(* query cache before the server answers, the chat and task handlers of    *)
(* core/realtime/use-realtime-sync.ts write and mark them again, and their *)
(* refetches (core/chat/queries.ts) race all of these.                     *)
(*                                                                         *)
(* The server is modelled by what it publishes: SendChatMessage makes one  *)
(* task, or one per participant for a message to everybody, a daemon or an *)
(* API runtime runs and ends tasks, another window sends and cancels too.  *)
(* Task ids count up in the order of creation.  The status in the pill, its*)
(* clock and the text of messages are left out: a list of messages is the  *)
(* number of the server's messages it holds.                               *)
(***************************************************************************)
EXTENDS Naturals, Sequences

CONSTANTS
    None,         \* the pending task {}
    Temp,         \* the task id "optimistic-..."
    MaxTasks,     \* bound on the tasks of the session
    MaxWire,      \* bound on the events under way
    MaxSends,     \* bound on the messages sent from this window
    MaxUpsets     \* bound on sends elsewhere, cancellations, retries, refusals,
                  \* lost events and changes of the session shown

VARIABLES
    task,         \* the server's tasks: "none", "queued", "running" or "ended"
    posted,       \* the messages the server has
    wire,         \* events on their way to this window
    shown,        \* the session is the active one, its queries have observers
    pending,      \* cache entry chatKeys.pendingTask
    messages,     \* cache entry chatKeys.messages
    sending,      \* the requests sendChatMessage under way
    stopping,     \* the requests cancelTaskById under way
    sends, upsets,            \* counters of the bounds
    muddled,      \* ghost: a write told the pill wrong and no event will correct it
    patchy        \* ghost: an event of the list was lost, or a send refused

server == <<task, posted>>
requests == <<sending, stopping>>
vars == <<server, wire, shown, pending, messages, requests, sends, upsets,
          muddled, patchy>>

Tasks == 1..MaxTasks
NoTask == 0                    \* a send the server has not handled

ASSUME IdsAssumption == None # Temp /\ None \notin Nat /\ Temp \notin Nat
ASSUME BoundsAssumption == {MaxTasks, MaxWire, MaxSends, MaxUpsets} \subseteq Nat

-------------------------------------------------------------------------------
Pill == Tasks \cup {None, Temp}
MaxPosted == MaxSends + 2 * MaxTasks + MaxUpsets
List == [upto : 0..MaxPosted, optimistic : BOOLEAN]
Event == [kind : {"queued", "message", "dispatch", "ended", "cancelled"},
          task : Tasks]

\* A cache entry; crossed: an event no refetch follows came while this fetch ran.
Entry(Data) == [data : Data, invalid : BOOLEAN,
                fetch : [at : {"none", "sent"}] \cup [at : {"answered"}, with : Data],
                crossed : BOOLEAN]
Loaded(data) == [data |-> data, invalid |-> FALSE, fetch |-> [at |-> "none"],
                 crossed |-> FALSE]

\* task and others: the first task made for the message and how many follow it.
Send == [phase : {"sent", "stored", "published"}, task : Tasks \cup {NoTask},
         others : 0..1]

TypeOK ==
    /\ task \in [Tasks -> {"none", "queued", "running", "ended"}]
    /\ posted \in 0..MaxPosted
    /\ wire \in Seq(Event)
    /\ shown \in BOOLEAN
    /\ pending \in Entry(Pill)
    /\ messages \in Entry(List)
    /\ sending \in Seq(Send) /\ Len(sending) <= MaxSends
    /\ stopping \subseteq Tasks
    /\ sends \in 0..MaxSends /\ upsets \in 0..MaxUpsets
    /\ {muddled, patchy} \subseteq BOOLEAN

\* The session is open and loaded, nothing runs.
Init ==
    /\ task = [t \in Tasks |-> "none"]
    /\ posted = 0
    /\ wire = <<>>
    /\ shown = TRUE
    /\ pending = Loaded(None)
    /\ messages = Loaded([upto |-> 0, optimistic |-> FALSE])
    /\ sending = <<>> /\ stopping = {}
    /\ sends = 0 /\ upsets = 0
    /\ muddled = FALSE /\ patchy = FALSE

Upset == upsets < MaxUpsets /\ upsets' = upsets + 1

-------------------------------------------------------------------------------
(* Cache entries. *)

\* setQueryData: the mark goes, a fetch under way goes on.
Written(e, data) == [e EXCEPT !.data = data, !.invalid = FALSE]

\* A new request; what was asked before is dropped.
Fetched(e) == [e EXCEPT !.fetch = [at |-> "sent"], !.crossed = FALSE]

\* invalidateQueries: an entry nobody observes is only marked, and a fetch still
\* under way will take the mark off when it lands.
Invalidated(e) ==
    LET marked == [e EXCEPT !.invalid = TRUE]
    IN IF shown THEN Fetched(marked) ELSE [marked EXCEPT !.crossed = TRUE]

Answered(e, data) == [e EXCEPT !.fetch = [at |-> "answered", with |-> data]]
Landed(e) == Loaded(e.fetch.with)
Crossed(e) == [e EXCEPT !.crossed = TRUE]

-------------------------------------------------------------------------------
(* The server. *)

Live(t) == task[t] \in {"queued", "running"}

\* GetPendingChatTask: the latest task in flight.
Newest(tasks) == CHOOSE t \in tasks : \A u \in tasks : u <= t
PendingTask ==
    LET live == {t \in Tasks : Live(t)} IN IF live = {} THEN None ELSE Newest(live)

\* The ids the next n tasks get.
NextIds(n) ==
    LET made == {t \in Tasks : task[t] # "none"}
        first == IF made = {} THEN 1 ELSE Newest(made) + 1
    IN first..(first + n - 1)

Publish(events) ==
    /\ Len(wire) + Len(events) <= MaxWire
    /\ wire' = wire \o events

QueuedEvents(from, n) == [i \in 1..n |-> [kind |-> "queued", task |-> from + i - 1]]

\* SendChatMessage, first half: the message and its tasks are stored.
ServerStores(i) ==
    /\ sending[i].phase = "sent"
    /\ \E n \in 1..2 :
          /\ NextIds(n) \subseteq Tasks
          /\ task' = [t \in Tasks |-> IF t \in NextIds(n) THEN "queued" ELSE task[t]]
          /\ LET first == CHOOSE t \in NextIds(n) : \A u \in NextIds(n) : t <= u
             IN sending' = [sending EXCEPT ![i] = [phase |-> "stored", task |-> first,
                                                  others |-> n - 1]]
    /\ posted' = posted + 1
    /\ UNCHANGED <<wire, shown, pending, messages, stopping, sends, upsets,
                   muddled, patchy>>

\* Second half: task:queued for each task, then chat:message, then the answer.
ServerPublishes(i) ==
    /\ sending[i].phase = "stored"
    /\ LET first == sending[i].task
       IN Publish(QueuedEvents(first, 1 + sending[i].others)
                  \o <<[kind |-> "message", task |-> first]>>)
    /\ sending' = [sending EXCEPT ![i].phase = "published"]
    /\ UNCHANGED <<server, shown, pending, messages, stopping, sends, upsets,
                   muddled, patchy>>

\* A send from another window.
SendElsewhere ==
    /\ Upset
    /\ NextIds(1) \subseteq Tasks
    /\ \E t \in NextIds(1) :
          /\ task' = [task EXCEPT ![t] = "queued"]
          /\ Publish(QueuedEvents(t, 1) \o <<[kind |-> "message", task |-> t]>>)
    /\ posted' = posted + 1
    /\ UNCHANGED <<shown, pending, messages, requests, sends, muddled, patchy>>

\* FailTask with a retry: the new task is announced before the failure of the
\* old one, and no message is stored.
Retried(t) ==
    /\ Upset
    /\ task[t] = "running"
    /\ NextIds(1) \subseteq Tasks
    /\ \E u \in NextIds(1) :
          /\ task' = [task EXCEPT ![t] = "ended", ![u] = "queued"]
          /\ Publish(QueuedEvents(u, 1) \o <<[kind |-> "ended", task |-> t]>>)
    /\ UNCHANGED <<posted, shown, pending, messages, requests, sends, muddled, patchy>>

Starts(t) ==
    /\ task[t] = "queued"
    /\ task' = [task EXCEPT ![t] = "running"]
    /\ Publish(<<[kind |-> "dispatch", task |-> t]>>)
    /\ UNCHANGED <<posted, shown, pending, messages, requests, sends, upsets,
                   muddled, patchy>>

\* CompleteTask, or FailTask without a retry: a reply or a failure note is stored.
Ends(t) ==
    /\ task[t] = "running"
    /\ task' = [task EXCEPT ![t] = "ended"]
    /\ posted' = posted + 1
    /\ Publish(<<[kind |-> "ended", task |-> t]>>)
    /\ UNCHANGED <<shown, pending, messages, requests, sends, upsets, muddled, patchy>>

\* CancelTask for handleStop's request: a task that has ended is left alone.
ServerStops(t) ==
    /\ t \in stopping /\ stopping' = stopping \ {t}
    /\ IF Live(t)
       THEN /\ task' = [task EXCEPT ![t] = "ended"]
            /\ Publish(<<[kind |-> "cancelled", task |-> t]>>)
       ELSE UNCHANGED <<task, wire>>
    /\ UNCHANGED <<posted, shown, pending, messages, sending, sends, upsets,
                   muddled, patchy>>

\* A cancellation from another window, or with the agent.
CancelledElsewhere(t) ==
    /\ Upset /\ Live(t)
    /\ task' = [task EXCEPT ![t] = "ended"]
    /\ Publish(<<[kind |-> "cancelled", task |-> t]>>)
    /\ UNCHANGED <<posted, shown, pending, messages, requests, sends, muddled, patchy>>

-------------------------------------------------------------------------------
(* The window. *)

\* handleSend up to its await; ChatInput sends nothing while a task is pending.
HandleSend ==
    /\ shown /\ pending.data = None
    /\ sends < MaxSends /\ sends' = sends + 1
    /\ messages' = Written(messages, [messages.data EXCEPT !.optimistic = TRUE])
    /\ pending' = Written(pending, Temp)
    /\ sending' = Append(sending, [phase |-> "sent", task |-> NoTask, others |-> 0])
    /\ UNCHANGED <<server, wire, shown, stopping, upsets, muddled, patchy>>

Without(s, i) == SubSeq(s, 1, i - 1) \o SubSeq(s, i + 1, Len(s))

\* The rest of handleSend: the answer's task replaces the temporary one, whatever
\* the entry has become since.
SendAnswered(i) ==
    /\ sending[i].phase = "published"
    /\ pending' = Written(pending, sending[i].task)
    /\ messages' = Invalidated(messages)
    /\ sending' = Without(sending, i)
    /\ muddled' = (muddled \/ PendingTask # sending[i].task)
    /\ UNCHANGED <<server, wire, shown, stopping, sends, upsets, patchy>>

\* The request fails, before or after the message was stored: handleSend throws,
\* and nothing takes back what it wrote.
SendRefused(i) ==
    /\ Upset
    /\ sending[i].phase = "sent"
    /\ sending' = Without(sending, i)
    /\ posted' \in {posted, posted + 1}
    /\ pending' = Crossed(pending) /\ messages' = Crossed(messages)
    /\ muddled' = TRUE /\ patchy' = TRUE
    /\ UNCHANGED <<task, wire, shown, stopping, sends>>

\* Mutant of HandleStop: the temporary id is sent as a task to cancel.
HandleStopAnyId ==
    /\ shown /\ pending.data # None
    /\ pending' = Written(pending, None)
    /\ messages' = Invalidated(messages)
    /\ stopping' = stopping \cup {pending.data}
    /\ UNCHANGED <<server, wire, shown, sending, sends, upsets, muddled, patchy>>

\* handleStop: the pill goes at once; a temporary id names no task of the server.
HandleStop ==
    /\ shown /\ pending.data # None
    /\ pending' = Written(pending, None)
    /\ messages' = Invalidated(messages)
    /\ stopping' = stopping \cup ({pending.data} \cap Tasks)
    /\ UNCHANGED <<server, wire, shown, sending, sends, upsets, muddled, patchy>>

\* The window moves to another session and comes back: a marked entry is fetched.
Shows ==
    /\ Upset
    /\ shown' = ~shown
    /\ pending' = IF ~shown /\ pending.invalid THEN Fetched(pending) ELSE pending
    /\ messages' = IF ~shown /\ messages.invalid THEN Fetched(messages) ELSE messages
    /\ UNCHANGED <<server, wire, requests, sends, muddled, patchy>>

\* A request reads the server; its answer lands.
PendingRead ==
    /\ pending.fetch.at = "sent"
    /\ pending' = Answered(pending, PendingTask)
    /\ UNCHANGED <<server, wire, shown, messages, requests, sends, upsets,
                   muddled, patchy>>

PendingLands ==
    /\ pending.fetch.at = "answered"
    /\ pending' = Landed(pending)
    /\ muddled' = pending.crossed
    /\ UNCHANGED <<server, wire, shown, messages, requests, sends, upsets, patchy>>

MessagesRead ==
    /\ messages.fetch.at = "sent"
    /\ messages' = Answered(messages, [upto |-> posted, optimistic |-> FALSE])
    /\ UNCHANGED <<server, wire, shown, pending, requests, sends, upsets,
                   muddled, patchy>>

MessagesLand ==
    /\ messages.fetch.at = "answered"
    /\ messages' = Landed(messages)
    /\ patchy' = messages.crossed
    /\ UNCHANGED <<server, wire, shown, pending, requests, sends, upsets, muddled>>

-------------------------------------------------------------------------------
(* The handlers of useRealtimeSync. *)

\* A write that takes the mark off the entry of a session that is not shown.
Unmarks == ~shown /\ pending.invalid

\* task:queued.
OnQueued(t) ==
    /\ pending' = Written(pending, t)
    /\ muddled' = (muddled \/ Unmarks)
    /\ UNCHANGED messages

\* Mutant of OnMessage: the list is not refetched.
OnMessagePillOnly(t) ==
    /\ pending' = Invalidated(pending)
    /\ UNCHANGED <<messages, muddled>>

\* chat:message.
OnMessage(t) ==
    /\ messages' = Invalidated(messages)
    /\ pending' = Invalidated(pending)
    /\ UNCHANGED muddled

\* task:dispatch: the status, if the task is the pending one; written back anyway.
OnDispatch(t) ==
    /\ pending' = Written(pending, pending.data)
    /\ muddled' = (muddled \/ Unmarks)
    /\ UNCHANGED messages

\* Mutant of OnEnded: the refetch of the pending task is left out.
OnEndedUnconfirmed(t) ==
    /\ pending' = Written(pending, None)
    /\ messages' = Invalidated(messages)
    /\ UNCHANGED muddled

\* chat:done, task:completed and task:failed.
OnEnded(t) ==
    /\ pending' = Invalidated(Written(pending, None))
    /\ messages' = Invalidated(messages)
    /\ UNCHANGED muddled

\* task:cancelled: the pill goes whichever task it shows, and nothing is fetched.
OnCancelled(t) ==
    /\ pending' = Crossed(Written(pending, None))
    /\ muddled' = (muddled \/ PendingTask # None \/ Unmarks)
    /\ UNCHANGED messages

Handle(e) ==
    CASE e.kind = "queued" -> OnQueued(e.task)
      [] e.kind = "message" -> OnMessage(e.task)
      [] e.kind = "dispatch" -> OnDispatch(e.task)
      [] e.kind = "ended" -> OnEnded(e.task)
      [] e.kind = "cancelled" -> OnCancelled(e.task)

Deliver ==
    /\ wire # <<>>
    /\ wire' = Tail(wire)
    /\ Handle(Head(wire))
    /\ UNCHANGED <<server, shown, requests, sends, upsets, patchy>>

\* The connection drops and an event with it; the reconnection callback marks
\* nothing of the chat.
Lose ==
    /\ Upset
    /\ wire # <<>>
    /\ wire' = Tail(wire)
    /\ pending' = Crossed(pending) /\ messages' = Crossed(messages)
    /\ muddled' = TRUE /\ patchy' = TRUE
    /\ UNCHANGED <<server, shown, requests, sends>>

Next ==
    \/ HandleSend \/ HandleStop \/ Shows
    \/ \E i \in 1..Len(sending) :
          \/ ServerStores(i) \/ ServerPublishes(i)
          \/ SendAnswered(i) \/ SendRefused(i)
    \/ \E t \in Tasks : \/ Starts(t) \/ Ends(t) \/ Retried(t)
                        \/ ServerStops(t) \/ CancelledElsewhere(t)
    \/ SendElsewhere
    \/ PendingRead \/ PendingLands \/ MessagesRead \/ MessagesLand
    \/ Deliver \/ Lose

Spec == Init /\ [][Next]_vars

-------------------------------------------------------------------------------
(* Properties. *)

\* Nothing is on its way to the window that would still change the session.
Quiet ==
    /\ shown /\ wire = <<>> /\ sending = <<>> /\ stopping = {}
    /\ pending.fetch.at = "none" /\ messages.fetch.at = "none"

\* Once everything has arrived the pill shows the task the server has in flight,
\* and none when there is none, though optimistic writes, payload writes, refetches
\* and Stop overtake one another; unless one of the writes told it wrong (an answer
\* overtaken by its task, a cancellation of another task, a refused send, a lost
\* event, a mark taken off), and then the next refetch puts it right.
PillSettles == Quiet /\ ~muddled => pending.data = PendingTask

\* Then the list holds every message of the server, and the optimistic message is
\* replaced by the stored one.
RepliesShown ==
    Quiet /\ ~patchy => messages.data = [upto |-> posted, optimistic |-> FALSE]

===============================================================================
