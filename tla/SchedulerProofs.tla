-------------------------- MODULE SchedulerProofs --------------------------
(***************************************************************************)
(* Proofs about the scheduler, for every set of threads, every number of   *)
(* actions and every run of the clock.                                     *)
(***************************************************************************)
EXTENDS Scheduler, TLAPS

\* Every reachable state has the shape TypeOK gives it.
THEOREM TypeCorrect == Spec => []TypeOK
<1> USE SchedulerAssumption
<1>1. Init => TypeOK
  <2>1. 0 \in Time /\ 0 \in 0 .. MaxActions /\ Out \in EnqueueState
    BY DEF Time, EnqueueState
  <2> QED BY <2>1 DEF Init, TypeOK
<1>2. TypeOK /\ [Next]_vars => TypeOK'
  <2> SUFFICES ASSUME TypeOK, [Next]_vars PROVE TypeOK'
    OBVIOUS
  <2> USE DEF books, loop, hist
  <2>1. ASSUME NEW t \in Thread, NEW at \in Time, NEW pri \in Priority,
               NEW kind \in Kind, DrawSeq(t, at, pri, kind)
        PROVE  TypeOK'
    BY <2>1 DEF TypeOK, DrawSeq, EnqueueState, Action
  <2>2. ASSUME NEW t \in Thread, Push(t) PROVE TypeOK'
    <3>1. enq[t].action \in Action
      BY <2>2 DEF TypeOK, Push, EnqueueState, Out
    <3> QED BY <2>2, <3>1 DEF TypeOK, Push, EnqueueState, Action
  <2>3. ASSUME NEW t \in Thread, SetWake(t) PROVE TypeOK'
    <3>1. Out \in EnqueueState
      BY DEF EnqueueState
    <3> QED BY <2>3, <3>1 DEF TypeOK, SetWake
  <2>4. ASSUME NEW t \in Thread, NEW id \in 1 .. MaxActions, Cancel(t, id)
        PROVE  TypeOK'
    BY <2>4 DEF TypeOK, Cancel, Mark
  <2>5. ASSUME NEW t \in Thread, NEW kind \in Kind, CancelByType(t, kind)
        PROVE  TypeOK'
    <3>1. \A S \in SUBSET (1 .. MaxActions) : Mark(S) => TypeOK'
      BY DEF TypeOK, Mark
    <3>2. {a.id : a \in {b \in heap : b.id \in pending /\ b.kind = kind}}
            \in SUBSET (1 .. MaxActions)
      BY DEF TypeOK
    <3> QED BY <2>5, <3>1, <3>2 DEF CancelByType
  <2>6. ASSUME NEW a \in heap, Pop(a) PROVE TypeOK'
    <3>1. a.id \in 1 .. MaxActions
      BY DEF TypeOK, Action
    <3>2. /\ heap' \subseteq heap /\ pending' \subseteq pending
          /\ cancelled' \subseteq cancelled
          /\ executed' = executed \cup {a.id} /\ cur' = a.id /\ pc' = "exec"
          /\ UNCHANGED <<seqCounter, enq, now, running, wake, deadline, stopping, revoked>>
      BY <2>6 DEF Pop, Drop
    <3>3. heap' \subseteq Action
      BY <3>2 DEF TypeOK
    <3>4. pending' \subseteq 1 .. MaxActions /\ cancelled' \subseteq 1 .. MaxActions
      BY <3>2 DEF TypeOK
    <3>5. executed' \subseteq 1 .. MaxActions
      BY <3>1, <3>2 DEF TypeOK
    <3>6. cur' \in 0 .. MaxActions
      BY <3>1, <3>2
    <3> HIDE DEF books, loop, hist
    <3> QED BY <3>2, <3>3, <3>4, <3>5, <3>6 DEF TypeOK
  <2>7. CASE PopNone
    BY <2>7 DEF TypeOK, PopNone, Drop, Action
  <2>8. CASE Sleep
    BY <2>8 DEF TypeOK, Sleep, Time
  <2>9. CASE Run \/ Leave \/ HandlerEnds \/ WakeUp \/ Clear
    BY <2>9 DEF TypeOK, Run, Leave, HandlerEnds, WakeUp, Clear
  <2>10. CASE Wake \/ StopFlag \/ StopSet \/ UNCHANGED vars
    BY <2>10 DEF TypeOK, Wake, StopFlag, StopSet, vars
  <2>11. CASE Tick
    <3>1. now + 1 \in Time
      BY <2>11 DEF Tick, TypeOK, Time
    <3> QED BY <2>11, <3>1 DEF TypeOK, Tick
  <2> QED
    BY <2>1, <2>2, <2>3, <2>4, <2>5, <2>6, <2>7, <2>8, <2>9, <2>10,
       <2>11
    DEF Next, SchedulerStep
<1> QED BY <1>1, <1>2, PTL DEF Spec

-----------------------------------------------------------------------------
(* The bookkeeping of actions *)

\* Identities are given out once: those in the heap, on their way into it, run
\* or revoked are old, and an action on its way is nowhere else yet.
Coming(t) == enq[t].pc = "push"
FreshIds ==
  /\ \A a, b \in heap : a.id = b.id => a = b
  /\ \A a \in heap : a.id <= seqCounter
  /\ \A i \in executed \cup revoked : i <= seqCounter
  /\ \A t \in Thread : Coming(t) =>
       /\ enq[t].action.id <= seqCounter
       /\ enq[t].action.id \notin IdsOf(heap) \cup executed \cup revoked
       /\ \A u \in Thread : u # t /\ Coming(u) =>
            enq[t].action.id # enq[u].action.id

BooksInv == /\ FreshIds
            /\ Bookkeeping
            /\ RevokedNeverRuns
            /\ revoked \cap pending = {}

LEMMA BooksStep == TypeOK /\ BooksInv /\ [Next]_vars => BooksInv'
<1> SUFFICES ASSUME TypeOK, BooksInv, [Next]_vars PROVE BooksInv'
  OBVIOUS
<1> USE SchedulerAssumption DEF books, loop, hist
<1>1. ASSUME NEW t \in Thread, NEW at \in Time, NEW pri \in Priority,
             NEW kind \in Kind, DrawSeq(t, at, pri, kind)
      PROVE  BooksInv'
  <2>1. UNCHANGED <<heap, pending, cancelled, executed, revoked>>
        /\ seqCounter' = seqCounter + 1
    BY <1>1 DEF DrawSeq
  <2>2. Coming(t)' /\ enq'[t].action.id = seqCounter + 1
    BY <1>1 DEF DrawSeq, Coming, TypeOK
  <2>3. \A u \in Thread : u # t => enq'[u] = enq[u]
    BY <1>1 DEF DrawSeq, TypeOK
  <2>4. seqCounter \in Nat /\ \A a \in heap : a.id \in Nat
        /\ \A i \in executed \cup revoked : i \in Nat
    BY DEF TypeOK, Action
  <2>5. ASSUME NEW u \in Thread, u # t, Coming(u)'
        PROVE  /\ Coming(u) /\ enq'[u] = enq[u] /\ enq[u].action.id \in Nat
               /\ enq[u].action.id <= seqCounter
    <3>1. enq'[u] = enq[u] /\ Coming(u)
      BY <2>3, <2>5 DEF Coming
    <3>2. enq[u].action \in Action
      BY <3>1 DEF Coming, TypeOK, EnqueueState, Out
    <3> QED BY <3>1, <3>2 DEF Action, BooksInv, FreshIds
  <2>6. /\ seqCounter + 1 \notin IdsOf(heap) \cup executed \cup revoked
        /\ \A a \in heap : a.id <= seqCounter + 1
        /\ \A i \in executed \cup revoked : i <= seqCounter + 1
    <3>1. \A a \in heap : a.id <= seqCounter /\ a.id \in Nat
      BY <2>4 DEF BooksInv, FreshIds
    <3>2. \A i \in executed \cup revoked : i <= seqCounter /\ i \in Nat
      <4>1. \A i \in executed \cup revoked : i <= seqCounter
        BY DEF BooksInv, FreshIds
      <4>2. \A i \in executed \cup revoked : i \in Nat
        BY DEF TypeOK
      <4> QED BY <4>1, <4>2
    <3>3. seqCounter + 1 \notin IdsOf(heap)
      BY <2>4, <3>1 DEF IdsOf
    <3> QED BY <2>4, <3>1, <3>2, <3>3
  <2>7. \A u \in Thread : Coming(u)' =>
          /\ enq'[u].action.id <= seqCounter + 1
          /\ enq'[u].action.id \notin IdsOf(heap) \cup executed \cup revoked
          /\ \A v \in Thread : v # u /\ Coming(v)' =>
               enq'[u].action.id # enq'[v].action.id
    <3>1. ASSUME NEW u \in Thread, Coming(u)'
          PROVE  /\ enq'[u].action.id <= seqCounter + 1
                 /\ enq'[u].action.id \notin IdsOf(heap) \cup executed \cup revoked
      BY <2>2, <2>4, <2>5, <2>6, <3>1 DEF BooksInv, FreshIds
    <3>2. ASSUME NEW u \in Thread, Coming(u)', NEW v \in Thread, v # u, Coming(v)'
          PROVE  enq'[u].action.id # enq'[v].action.id
      BY <2>2, <2>4, <2>5, <3>2 DEF BooksInv, FreshIds
    <3> QED BY <3>1, <3>2
  <2>8. FreshIds'
    BY <2>1, <2>6, <2>7 DEF BooksInv, FreshIds, IdsOf
  <2> QED BY <2>1, <2>8 DEF BooksInv, Bookkeeping, RevokedNeverRuns, IdsOf
<1>2. ASSUME NEW t \in Thread, Push(t) PROVE BooksInv'
  <2> DEFINE a == enq[t].action
  <2>1. /\ a.id \notin IdsOf(heap) \cup executed \cup revoked
        /\ a.id <= seqCounter
        /\ \A u \in Thread : u # t /\ Coming(u) => a.id # enq[u].action.id
    BY <1>2 DEF Push, BooksInv, FreshIds, Coming
  <2>2. /\ heap' = heap \cup {a} /\ pending' = pending \cup {a.id}
        /\ UNCHANGED <<cancelled, seqCounter, executed, revoked>>
        /\ ~Coming(t)' /\ \A u \in Thread : u # t => enq'[u] = enq[u]
    BY <1>2 DEF Push, TypeOK, Coming
  <2> HIDE DEF a
  <2>3. IdsOf(heap)' = IdsOf(heap) \cup {a.id}
    BY <2>2 DEF IdsOf
  <2>4. FreshIds'
    BY <2>1, <2>2, <2>3 DEF BooksInv, FreshIds, Coming, IdsOf
  <2>5. Bookkeeping'
    BY <2>1, <2>2, <2>3 DEF BooksInv, Bookkeeping
  <2>6. RevokedNeverRuns' /\ (revoked \cap pending = {})'
    BY <2>1, <2>2, <2>3 DEF BooksInv, RevokedNeverRuns
  <2> QED BY <2>4, <2>5, <2>6 DEF BooksInv
<1>3. ASSUME NEW t \in Thread, SetWake(t) PROVE BooksInv'
  <2>1. UNCHANGED <<heap, pending, cancelled, seqCounter, executed, revoked>>
        /\ ~Coming(t)' /\ \A u \in Thread : u # t => enq'[u] = enq[u]
    BY <1>3 DEF SetWake, TypeOK, Coming, Out
  <2> QED BY <2>1 DEF BooksInv, FreshIds, Bookkeeping, RevokedNeverRuns, Coming, IdsOf
<1>4. ASSUME NEW S \in SUBSET pending, Mark(S) PROVE BooksInv'
  <2>1. /\ UNCHANGED <<heap, seqCounter, enq, executed>>
        /\ cancelled' = cancelled \cup S /\ pending' = pending \ S
        /\ revoked' = revoked \cup S
    BY <1>4 DEF Mark
  <2>2. S \subseteq IdsOf(heap)
    BY DEF BooksInv, Bookkeeping
  <2>3. FreshIds'
    BY <2>1, <2>2 DEF BooksInv, FreshIds, Coming, IdsOf
  <2>4. Bookkeeping' /\ (revoked \cap pending = {})'
    BY <2>1, <2>2 DEF BooksInv, Bookkeeping, IdsOf
  <2>5. RevokedNeverRuns'
    BY <2>1, <2>2 DEF BooksInv, RevokedNeverRuns, IdsOf
  <2> QED BY <2>3, <2>4, <2>5 DEF BooksInv
<1>5. ASSUME NEW S \in SUBSET heap, NEW T \in SUBSET IdsOf(S),
             \A b \in S : b.id \in cancelled \cup T, T \cap cancelled = {},
             Drop(S, T), executed' = executed \cup T,
             UNCHANGED <<seqCounter, enq, revoked>>
      PROVE  BooksInv'
  <2>1. heap' = heap \ S /\ pending' = pending \ T
        /\ cancelled' = cancelled \ IdsOf(S)
    BY <1>5 DEF Drop
  <2>2. IdsOf(heap)' = IdsOf(heap) \ IdsOf(S)
    BY <2>1 DEF BooksInv, FreshIds, IdsOf
  <2>3. T \subseteq pending
    BY <1>5 DEF BooksInv, Bookkeeping, IdsOf
  <2>4. IdsOf(S) \subseteq cancelled \cup T
    BY <1>5 DEF IdsOf
  <2>5. FreshIds'
    <3>1. IdsOf(heap)' \subseteq IdsOf(heap) /\ T \subseteq IdsOf(heap)
      BY <2>2, <2>3 DEF BooksInv, Bookkeeping
    <3>2. \A i \in executed' \cup revoked' : i <= seqCounter
      BY <1>5, <3>1 DEF BooksInv, FreshIds, IdsOf
    <3> QED BY <1>5, <2>1, <3>1, <3>2 DEF BooksInv, FreshIds, Coming
  <2>6. Bookkeeping'
    BY <1>5, <2>1, <2>2, <2>3, <2>4 DEF BooksInv, Bookkeeping
  <2>7. RevokedNeverRuns' /\ (revoked \cap pending = {})'
    BY <1>5, <2>1, <2>2, <2>3 DEF BooksInv, RevokedNeverRuns
  <2> QED BY <2>5, <2>6, <2>7 DEF BooksInv
<1>6. ASSUME NEW a \in heap, Pop(a) PROVE BooksInv'
  <2> DEFINE S == {a} \cup {b \in Ready : Before(b, a)}
  <2>1. /\ S \in SUBSET heap /\ {a.id} \in SUBSET IdsOf(S)
        /\ {a.id} \cap cancelled = {}
    BY <1>6 DEF Pop, Live, Ready, IdsOf
  <2>2. \A b \in S : b.id \in cancelled \cup {a.id}
    BY <1>6 DEF Pop, Live
  <2>3. /\ Drop(S, {a.id}) /\ executed' = executed \cup {a.id}
        /\ UNCHANGED <<seqCounter, enq, revoked>>
    BY <1>6 DEF Pop
  <2> QED BY <1>5, <2>1, <2>2, <2>3
<1>7. CASE PopNone
  <2>1. /\ Ready \in SUBSET heap /\ {} \in SUBSET IdsOf(Ready)
        /\ \A b \in Ready : b.id \in cancelled \cup {}
        /\ Drop(Ready, {}) /\ executed' = executed \cup {}
        /\ UNCHANGED <<seqCounter, enq, revoked>>
    BY <1>7 DEF PopNone, Live, Ready
  <2> QED BY <1>5, <2>1
<1>8. CASE UNCHANGED <<heap, pending, cancelled, seqCounter, enq, executed, revoked>>
  BY <1>8 DEF BooksInv, FreshIds, Bookkeeping, RevokedNeverRuns, Coming, IdsOf
<1>9. CASE \/ Run \/ Leave \/ HandlerEnds \/ Sleep \/ WakeUp \/ Clear
           \/ Wake \/ StopFlag \/ StopSet \/ Tick \/ UNCHANGED vars
  BY <1>8, <1>9 DEF Run, Leave, HandlerEnds, Sleep, WakeUp, Clear, Wake,
                    StopFlag, StopSet, Tick, vars
<1>10. ASSUME NEW t \in Thread, NEW id \in 1 .. MaxActions, Cancel(t, id)
       PROVE  BooksInv'
  BY <1>4, <1>10 DEF Cancel
<1>11. ASSUME NEW t \in Thread, NEW kind \in Kind, CancelByType(t, kind)
       PROVE  BooksInv'
  <2> DEFINE S == {a.id : a \in {b \in heap : b.id \in pending /\ b.kind = kind}}
  <2>1. S \in SUBSET pending /\ Mark(S)
    BY <1>11 DEF CancelByType
  <2> QED BY <1>4, <2>1
<1> QED
  BY <1>1, <1>2, <1>3, <1>6, <1>7, <1>9, <1>10, <1>11 DEF Next, SchedulerStep

LEMMA BooksHold == Spec => []BooksInv
<1>1. Init => BooksInv
  BY DEF Init, BooksInv, FreshIds, Bookkeeping, RevokedNeverRuns, Coming, IdsOf, Out
<1> QED BY <1>1, BooksStep, TypeCorrect, PTL DEF Spec

\* The heap, the pending actions and the cancellation marks always agree.
THEOREM BookkeepingHolds == Spec => []Bookkeeping
<1>1. BooksInv => Bookkeeping
  BY DEF BooksInv
<1> QED BY <1>1, BooksHold, PTL

\* A cancellation that was reported as a success is final, and no action runs
\* twice, however the calls and the scheduler thread interleave.
THEOREM RevokedNeverRunsHolds == Spec => []RevokedNeverRuns
<1>1. BooksInv => RevokedNeverRuns
  BY DEF BooksInv
<1> QED BY <1>1, BooksHold, PTL

-----------------------------------------------------------------------------
(* The agenda *)

Waiting == {a \in heap : a.id \in pending}

\* What a step of the books is of the agenda.
LEMMA PushIsAdd ==
  ASSUME TypeOK, BooksInv, NEW t \in Thread, Push(t)
  PROVE  Promise!Next
<1>1. PICK a \in Action : a = enq[t].action
  BY DEF Push, TypeOK, EnqueueState, Out
<1>2. a.id \notin IdsOf(heap) \cup executed \cup revoked
  BY <1>1 DEF Push, BooksInv, FreshIds, Coming
<1>3. /\ heap' = heap \cup {a} /\ pending' = pending \cup {a.id}
      /\ executed' = executed /\ revoked' = revoked /\ now' = now
  BY <1>1 DEF Push, hist
<1>4. Waiting' = Waiting \cup {a}
  BY <1>2, <1>3 DEF Waiting, IdsOf
<1>5. a.id \notin {b.id : b \in Waiting} \cup executed \cup revoked
  BY <1>2 DEF Waiting, IdsOf
<1>6. Promise!Add(a)
  BY <1>3, <1>4, <1>5 DEF Promise!Add, Promise!Seen, Waiting
<1> QED BY <1>6 DEF Promise!Next

LEMMA MarkIsWithdraw ==
  ASSUME BooksInv, NEW S \in SUBSET pending, Mark(S)
  PROVE  Promise!Next
<1> DEFINE W == {a \in heap : a.id \in S}
<1>1. /\ heap' = heap /\ pending' = pending \ S /\ revoked' = revoked \cup S
      /\ executed' = executed /\ now' = now
  BY DEF Mark
<1>2. W \in SUBSET Waiting
  BY DEF Waiting
<1>3. Waiting' = Waiting \ W
  BY <1>1 DEF Waiting
<1>4. {a.id : a \in W} = S
  BY DEF BooksInv, Bookkeeping, IdsOf
<1>5. PICK V \in SUBSET Waiting : V = W
  BY <1>2
<1> HIDE DEF W
<1>6. Promise!Withdraw(V)
  BY <1>1, <1>3, <1>4, <1>5 DEF Promise!Withdraw, Waiting
<1> QED BY <1>6 DEF Promise!Next, Waiting

LEMMA PopIsRun ==
  ASSUME TypeOK, BooksInv, NEW a \in heap, Pop(a)
  PROVE  Promise!Next
<1> DEFINE S == {a} \cup {b \in Ready : Before(b, a)}
<1>1. /\ heap' = heap \ S /\ pending' = pending \ {a.id}
      /\ executed' = executed \cup {a.id} /\ revoked' = revoked /\ now' = now
      /\ a \in Live /\ \A b \in Live : ~Before(b, a)
  BY DEF Pop, Drop
<1>2. \A b \in heap : b.id \in pending <=> b.id \notin cancelled
  BY DEF BooksInv, Bookkeeping, IdsOf
<1>3. \A b \in Waiting : b.at <= now => b \in Live
  BY <1>2 DEF Waiting, Live, Ready
<1>4. a \in Waiting /\ a.at <= now
  BY <1>1, <1>2 DEF Waiting, Live, Ready
<1>5. \A b \in Waiting : b \in S => b = a
  BY <1>1, <1>3 DEF Ready, Waiting
<1>6. Waiting' = Waiting \ {a}
  <2>1. \A b \in heap : b.id = a.id => b = a
    BY DEF BooksInv, FreshIds
  <2> HIDE DEF S
  <2>2. a \in S
    BY DEF S
  <2> QED BY <1>1, <1>5, <2>1, <2>2 DEF Waiting
<1>7. \A b \in Waiting : b.at <= now => ~(b.at < a.at \/ (b.at = a.at /\ b.pri < a.pri))
  BY <1>1, <1>3 DEF Before
<1>8. Promise!Run(a)
  BY <1>1, <1>4, <1>6, <1>7 DEF Promise!Run, Promise!Earlier, Waiting
<1> QED BY <1>4, <1>8 DEF Promise!Next, Waiting

\* Every behaviour of the scheduler is one of the agenda: whatever the calls and
\* the scheduler thread do in between, an action that waits is run once, when
\* it is due and before those due later or less urgent, or is withdrawn.
THEOREM KeepsAgendaHolds == Spec => KeepsAgenda
<1>1. Init => Promise!Init
  BY DEF Init, Promise!Init
<1>2. TypeOK /\ BooksInv /\ [Next]_vars
        => [Promise!Next]_<<Waiting, executed, revoked, now>>
  <2> SUFFICES ASSUME TypeOK, BooksInv, [Next]_vars
               PROVE  Promise!Next \/ UNCHANGED <<Waiting, executed, revoked, now>>
    OBVIOUS
  <2> USE DEF books, loop, hist
  <2>1. heap' = heap /\ pending' = pending => Waiting' = Waiting
    BY DEF Waiting
  <2>2. ASSUME NEW t \in Thread, NEW at \in Time, NEW pri \in Priority,
               NEW kind \in Kind, DrawSeq(t, at, pri, kind)
        PROVE  UNCHANGED <<Waiting, executed, revoked, now>>
    BY <2>1, <2>2 DEF DrawSeq
  <2>3. ASSUME NEW t \in Thread, SetWake(t)
        PROVE  UNCHANGED <<Waiting, executed, revoked, now>>
    BY <2>1, <2>3 DEF SetWake
  <2>4. ASSUME NEW t \in Thread, NEW id \in 1 .. MaxActions, Cancel(t, id)
        PROVE  Promise!Next
    BY <2>4, MarkIsWithdraw DEF Cancel
  <2>5. ASSUME NEW t \in Thread, NEW kind \in Kind, CancelByType(t, kind)
        PROVE  Promise!Next
    <3> DEFINE S == {a.id : a \in {b \in heap : b.id \in pending /\ b.kind = kind}}
    <3>1. S \in SUBSET pending /\ Mark(S)
      BY <2>5 DEF CancelByType
    <3> HIDE DEF S
    <3> QED BY <3>1, MarkIsWithdraw
  <2>6. CASE PopNone
    <3>1. /\ heap' = heap \ Ready /\ pending' = pending /\ Live = {}
          /\ executed' = executed /\ revoked' = revoked /\ now' = now
      BY <2>6 DEF PopNone, Drop
    <3>2. \A b \in Ready : b.id \notin pending
      BY <3>1 DEF Live, Ready, BooksInv, Bookkeeping
    <3>3. Waiting' = Waiting
      BY <3>1, <3>2 DEF Waiting
    <3> QED BY <3>1, <3>3
  <2>7. CASE Tick
    <3>1. now' = now + 1 /\ Waiting' = Waiting /\ executed' = executed /\ revoked' = revoked
      BY <2>1, <2>7 DEF Tick
    <3>2. Promise!Pass
      BY <3>1 DEF Promise!Pass, Waiting
    <3> QED BY <3>2 DEF Promise!Next
  <2>8. CASE \/ Run \/ Leave \/ HandlerEnds \/ Sleep \/ WakeUp \/ Clear
             \/ Wake \/ StopFlag \/ StopSet \/ UNCHANGED vars
    <3>1. /\ heap' = heap /\ pending' = pending
          /\ executed' = executed /\ revoked' = revoked /\ now' = now
      BY <2>8 DEF Run, Leave, HandlerEnds, Sleep, WakeUp, Clear, Wake, StopFlag, StopSet, vars
    <3> QED BY <2>1, <3>1
  <2> QED
    BY <2>2, <2>3, <2>4, <2>5, <2>6, <2>7, <2>8, PushIsAdd, PopIsRun
    DEF Next, SchedulerStep
<1> QED BY <1>1, <1>2, TypeCorrect, BooksHold, PTL DEF Spec, KeepsAgenda, Promise!Spec, Promise!vars, Waiting

-----------------------------------------------------------------------------
(* No wake-up is lost *)

LEMMA WakeupStep == TypeOK /\ NoLostWakeup /\ [Next]_vars => NoLostWakeup'
<1> SUFFICES ASSUME TypeOK, NoLostWakeup, [Next]_vars PROVE NoLostWakeup'
  OBVIOUS
<1> USE DEF books, loop, hist, NoLostWakeup
<1>1. ASSUME NEW t \in Thread, NEW at \in Time, NEW pri \in Priority,
             NEW kind \in Kind, DrawSeq(t, at, pri, kind)
      PROVE  NoLostWakeup'
  BY <1>1 DEF DrawSeq, MayCall, Out, TypeOK
<1>2. ASSUME NEW t \in Thread, Push(t) PROVE NoLostWakeup'
  BY <1>2 DEF Push, TypeOK
<1>3. ASSUME NEW t \in Thread, SetWake(t) PROVE NoLostWakeup'
  BY <1>3 DEF SetWake
<1>4. ASSUME NEW S, Mark(S) PROVE NoLostWakeup'
  BY <1>4 DEF Mark
<1>5. CASE Sleep
  BY <1>5 DEF Sleep
<1>6. CASE \/ Run \/ Leave \/ HandlerEnds \/ WakeUp \/ Clear \/ PopNone
           \/ \E a \in heap : Pop(a)
  BY <1>6 DEF Run, Leave, HandlerEnds, WakeUp, Clear, PopNone, Pop
<1>7. CASE Wake \/ StopFlag \/ StopSet \/ Tick \/ UNCHANGED vars
  BY <1>7 DEF Wake, StopFlag, StopSet, Tick, vars
<1>8. ASSUME \/ \E t \in Thread, id \in 1 .. MaxActions : Cancel(t, id)
             \/ \E t \in Thread, kind \in Kind : CancelByType(t, kind)
      PROVE  NoLostWakeup'
  BY <1>4, <1>8 DEF Cancel, CancelByType
<1> QED
  BY <1>1, <1>2, <1>3, <1>5, <1>6, <1>7, <1>8 DEF Next, SchedulerStep

\* The gaps between the drain, the timeout, the wait and the clear lose no
\* wake-up: a waiting scheduler is woken for everything in the heap.
THEOREM NoLostWakeupHolds == Spec => []NoLostWakeup
<1>1. Init => NoLostWakeup
  BY DEF Init, NoLostWakeup
<1> QED BY <1>1, WakeupStep, TypeCorrect, PTL DEF Spec
=============================================================================
