----------------------------- MODULE Scheduler -----------------------------
(***************************************************************************)
(* The action scheduler of src/Server/scheduler.py: one thread that runs   *)
(* due actions in the order of a heap and sleeps on an event in between,   *)
(* and any number of threads that enqueue, cancel, wake and stop it.  The  *)
(* heap, _pending and _cancelled change under the scheduler's lock; the    *)
(* running flag, the event and the gaps between the critical sections do   *)
(* not, and each gap is a place where other threads may come between.      *)
(***************************************************************************)
EXTENDS Integers

CONSTANTS Thread,      \* threads that call enqueue; handlers run on Sched
          Sched,
          Kind,        \* action types, as far as cancel_by_type tells them apart
          Priority,    \* the priorities of protocol.Priority, 0 = CRITICAL
          WaitCap,     \* the scheduler sleeps at most 1.0 s
          MaxActions,  \* bound: actions ever enqueued
          MaxTime      \* bound: the clock

ASSUME SchedulerAssumption ==
  /\ Sched \in Thread
  /\ Priority \subseteq Nat /\ 0 \in Priority
  /\ WaitCap \in Nat \ {0}
  /\ MaxActions \in Nat /\ MaxTime \in Nat

VARIABLES
  heap,       \* _heap, as a set of actions
  pending,    \* the keys of _pending
  cancelled,  \* _cancelled
  seqCounter, \* _seq_counter; an action's seq is also its identity here
  enq,        \* where each thread is inside enqueue
  now,        \* time.monotonic()
  running,    \* the flag run() sets and stop() clears
  wake,       \* _wake_event
  pc, cur,    \* the scheduler loop, and the action it executes
  deadline,   \* when its wait times out
  stopping,   \* how far the one call of stop() is
  executed,   \* history: actions handed to their handler
  revoked     \* history: actions whose cancellation was reported as a success

books == <<heap, pending, cancelled>>
hist == <<executed, revoked>>
loop == <<pc, cur, deadline>>
vars == <<heap, pending, cancelled, seqCounter, enq, now, running, wake, pc,
          cur, deadline, stopping, executed, revoked>>

Time == 0 .. MaxTime
Action == [id : 1 .. MaxActions, at : Time, pri : Priority, kind : Kind]
Out == [pc |-> "out"]
EnqueueState == {Out} \cup [pc : {"push"}, action : Action] \cup {[pc |-> "set"]}
IdsOf(S) == {a.id : a \in S}

\* A plausible slip: the fields in another order.
BeforeByPriority(a, b) == \/ a.pri < b.pri
                          \/ a.pri = b.pri /\ a.at < b.at
                          \/ a.pri = b.pri /\ a.at = b.at /\ a.id < b.id

\* The heap order: dataclass(order=True) on (scheduled_at, priority, seq).
Before(a, b) == \/ a.at < b.at
                \/ a.at = b.at /\ a.pri < b.pri
                \/ a.at = b.at /\ a.pri = b.pri /\ a.id < b.id

Init ==
  /\ heap = {} /\ pending = {} /\ cancelled = {}
  /\ seqCounter = 0
  /\ enq = [t \in Thread |-> Out]
  /\ now = 0
  /\ running = FALSE /\ wake = FALSE
  /\ pc = "off" /\ cur = 0 /\ deadline = 0
  /\ stopping = "no"
  /\ executed = {} /\ revoked = {}

-----------------------------------------------------------------------------
(* Other threads, and handlers on the scheduler thread *)

\* The scheduler thread itself enqueues from inside a handler only.
MayCall(t) == enq[t] = Out /\ (t = Sched => pc = "exec")

\* enqueue, up to the lock: the action gets the next seq.  An action for the
\* front of the queue, and every critical one, is due since time 0.
DrawSeq(t, at, pri, kind) ==
  /\ MayCall(t) /\ seqCounter < MaxActions
  /\ at >= now \/ (at = 0 /\ pri = 0)
  /\ seqCounter' = seqCounter + 1
  /\ enq' = [enq EXCEPT ![t] =
       [pc |-> "push", action |-> [id |-> seqCounter + 1, at |-> at,
                                   pri |-> pri, kind |-> kind]]]
  /\ UNCHANGED <<books, now, running, wake, loop, stopping, hist>>

\* The critical section: the heap and _pending.
Push(t) ==
  /\ enq[t].pc = "push"
  /\ heap' = heap \cup {enq[t].action}
  /\ pending' = pending \cup {enq[t].action.id}
  /\ enq' = [enq EXCEPT ![t] = [pc |-> "set"]]
  /\ UNCHANGED <<cancelled, seqCounter, now, running, wake, loop, stopping, hist>>

\* A plausible slip: the event is left to wake(), and the wait to its timeout.
SetWakeForgotten(t) ==
  /\ enq[t].pc = "set"
  /\ enq' = [enq EXCEPT ![t] = Out]
  /\ UNCHANGED <<books, seqCounter, now, running, wake, loop, stopping, hist>>

\* After the lock is released: _wake_event.set().
SetWake(t) ==
  /\ enq[t].pc = "set"
  /\ wake' = TRUE
  /\ enq' = [enq EXCEPT ![t] = Out]
  /\ UNCHANGED <<books, seqCounter, now, running, loop, stopping, hist>>

\* cancel and cancel_by_type: the pending actions named are marked, and stay
\* in the heap.
Mark(S) ==
  /\ cancelled' = cancelled \cup S
  /\ pending' = pending \ S
  /\ revoked' = revoked \cup S
  /\ UNCHANGED <<heap, seqCounter, enq, now, running, wake, loop, stopping,
                 executed>>

Cancel(t, id) == MayCall(t) /\ id \in pending /\ Mark({id})

CancelByType(t, kind) ==
  LET S == {a.id : a \in {b \in heap : b.id \in pending /\ b.kind = kind}}
  IN  MayCall(t) /\ S # {} /\ Mark(S)

\* wake(): the receive thread, after every datagram.
Wake ==
  /\ wake' = TRUE
  /\ UNCHANGED <<books, seqCounter, enq, now, running, loop, stopping, hist>>

\* stop(), called once: the flag, then the event.
StopFlag ==
  /\ stopping = "no" /\ stopping' = "flagged"
  /\ running' = FALSE
  /\ UNCHANGED <<books, seqCounter, enq, now, wake, loop, hist>>

StopSet ==
  /\ stopping = "flagged" /\ stopping' = "done"
  /\ wake' = TRUE
  /\ UNCHANGED <<books, seqCounter, enq, now, running, loop, hist>>

Tick ==
  /\ now < MaxTime /\ now' = now + 1
  /\ UNCHANGED <<books, seqCounter, enq, running, wake, loop, stopping, hist>>

-----------------------------------------------------------------------------
(* The scheduler thread *)

Ready == {a \in heap : a.at <= now}
Live == {a \in Ready : a.id \notin cancelled}

\* run(): whatever stop() did before is overwritten.
Run ==
  /\ pc = "off" /\ pc' = "drain"
  /\ running' = TRUE
  /\ UNCHANGED <<books, seqCounter, enq, now, wake, cur, deadline, stopping, hist>>

\* The loops of run and _tick test the flag each time round.
\* A plausible slip: a flag that is read once.
KeepGoingAlways == TRUE
KeepGoing == running

Leave ==
  /\ pc \in {"drain", "idle"} /\ ~KeepGoing
  /\ pc' = "done"
  /\ UNCHANGED <<books, seqCounter, enq, now, running, wake, cur, deadline,
                 stopping, hist>>

\* The pops of one _pop_ready: the cancelled actions ahead of a, and a itself.
\* A plausible slip: cancelled actions leave the heap with their mark.
DropKeepsMark(S, taken) ==
  /\ heap' = heap \ S
  /\ pending' = pending \ taken
  /\ UNCHANGED cancelled
Drop(S, taken) ==
  /\ heap' = heap \ S
  /\ cancelled' = cancelled \ IdsOf(S)
  /\ pending' = pending \ taken

\* A plausible slip: the mark is looked up after the action was handed out.
PopIgnoresMark(a) ==
  /\ pc = "drain" /\ KeepGoing
  /\ a \in Ready /\ \A b \in Ready : ~Before(b, a)
  /\ Drop({a}, {a.id})
  /\ pc' = "exec" /\ cur' = a.id /\ executed' = executed \cup {a.id}
  /\ UNCHANGED <<seqCounter, enq, now, running, wake, deadline, stopping, revoked>>

\* _pop_ready finds an action to run, the first one not cancelled.
Pop(a) ==
  /\ pc = "drain" /\ KeepGoing
  /\ a \in Live /\ \A b \in Live : ~Before(b, a)
  /\ Drop({a} \cup {b \in Ready : Before(b, a)}, {a.id})
  /\ pc' = "exec" /\ cur' = a.id /\ executed' = executed \cup {a.id}
  /\ UNCHANGED <<seqCounter, enq, now, running, wake, deadline, stopping, revoked>>

\* It finds none: what was due was cancelled, and is gone now.
PopNone ==
  /\ pc = "drain" /\ KeepGoing /\ Live = {}
  /\ Drop(Ready, {})
  /\ pc' = "idle"
  /\ UNCHANGED <<seqCounter, enq, now, running, wake, cur, deadline, stopping, hist>>

\* A plausible slip: an exception of the handler ends the thread.
HandlerRaisesThrough ==
  /\ pc = "exec" /\ enq[Sched] = Out
  /\ pc' = "dead"
  /\ UNCHANGED <<books, seqCounter, enq, now, running, wake, cur, deadline,
                 stopping, hist>>

\* The handler returns, or raises and _execute logs it.
HandlerEnds ==
  /\ pc = "exec" /\ enq[Sched] = Out
  /\ pc' = "drain"
  /\ UNCHANGED <<books, seqCounter, enq, now, running, wake, cur, deadline,
                 stopping, hist>>

\* _time_until_next: wait for the earliest action, one WaitCap at most; not at
\* all when it is due.
Sleep ==
  /\ pc = "idle" /\ KeepGoing
  /\ IF Ready # {}
     THEN pc' = "clear" /\ UNCHANGED deadline
     ELSE /\ pc' = "wait"
          /\ \E d \in now + 1 .. now + WaitCap :
               /\ \A a \in heap : d <= a.at
               /\ d = now + WaitCap \/ \E a \in heap : d = a.at
               /\ deadline' = d
  /\ UNCHANGED <<books, seqCounter, enq, now, running, wake, cur, stopping, hist>>

\* _wake_event.wait(timeout) returns.
WakeUp ==
  /\ pc = "wait" /\ (wake \/ now >= deadline)
  /\ pc' = "clear"
  /\ UNCHANGED <<books, seqCounter, enq, now, running, wake, cur, deadline,
                 stopping, hist>>

Clear ==
  /\ pc = "clear" /\ pc' = "drain"
  /\ wake' = FALSE
  /\ UNCHANGED <<books, seqCounter, enq, now, running, cur, deadline, stopping, hist>>

SchedulerStep ==
  \/ Run \/ Leave \/ PopNone \/ HandlerEnds \/ Sleep \/ WakeUp \/ Clear
  \/ \E a \in heap : Pop(a)

Next ==
  \/ SchedulerStep
  \/ \E t \in Thread, at \in Time, pri \in Priority, kind \in Kind :
       DrawSeq(t, at, pri, kind)
  \/ \E t \in Thread : Push(t)
  \/ \E t \in Thread : SetWake(t)
  \/ \E t \in Thread, id \in 1 .. MaxActions : Cancel(t, id)
  \/ \E t \in Thread, kind \in Kind : CancelByType(t, kind)
  \/ Wake
  \/ StopFlag
  \/ StopSet
  \/ Tick

Spec == Init /\ [][Next]_vars

\* Threads that are inside enqueue or stop come out, the scheduler thread goes
\* on when it can, handlers end, and time passes.
Fairness ==
  /\ WF_vars(SchedulerStep)
  /\ \A t \in Thread : WF_vars(Push(t)) /\ WF_vars(SetWake(t))
  /\ WF_vars(StopSet)
  /\ WF_vars(Tick)

FairSpec == Spec /\ Fairness

-----------------------------------------------------------------------------
(* Properties *)

TypeOK ==
  /\ heap \subseteq Action
  /\ pending \subseteq 1 .. MaxActions
  /\ cancelled \subseteq 1 .. MaxActions
  /\ seqCounter \in 0 .. MaxActions
  /\ enq \in [Thread -> EnqueueState]
  /\ now \in Time
  /\ running \in BOOLEAN /\ wake \in BOOLEAN
  /\ pc \in {"off", "drain", "exec", "idle", "wait", "clear", "done"}
  /\ cur \in 0 .. MaxActions
  /\ deadline \in Nat
  /\ stopping \in {"no", "flagged", "done"}
  /\ executed \subseteq 1 .. MaxActions /\ revoked \subseteq 1 .. MaxActions

\* The three collections agree: an action in the heap is either pending or
\* marked as cancelled, and no mark outlives its action.
Bookkeeping ==
  /\ pending \cup cancelled = IdsOf(heap)
  /\ pending \cap cancelled = {}

\* An action whose cancellation was reported never reaches its handler, and
\* none reaches it twice (it has left the heap for good).
RevokedNeverRuns ==
  /\ revoked \cap executed = {}
  /\ executed \cap IdsOf(heap) = {}

\* Calls and the scheduler thread, with the gaps between them and the cancelled
\* actions that stay in the heap, amount to an agenda: what was enqueued and not
\* cancelled is run once, when it is due, and what is due first is run first.
\* (Of actions as early and as urgent nothing is promised: enqueue draws the
\* number that would order them outside the lock.)
Promise == INSTANCE Agenda WITH
  waiting <- {a \in heap : a.id \in pending},
  ran <- executed, withdrawn <- revoked, clock <- now
KeepsAgenda == Promise!Spec

\* The scheduler never sleeps through an action: if it waits, then it wakes up
\* no later than any action in the heap is due, or the event is set, or the
\* thread that pushed the action is about to set it.
NoLostWakeup ==
  pc = "wait" => \/ wake
                 \/ \E t \in Thread : enq[t].pc = "set"
                 \/ \A a \in heap : deadline <= a.at

\* What was enqueued is run in the end, unless somebody cancels it or stops
\* the scheduler.
EnqueuedRuns ==
  \A id \in 1 .. MaxActions :
    id \in pending ~> id \in executed \/ id \in revoked \/ stopping # "no"

\* A scheduler that is told to stop while its loop runs comes to an end.
StopEnds == ~running /\ pc # "off" ~> pc = "done"
=============================================================================
