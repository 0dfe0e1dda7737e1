--------------------------- MODULE ReliableProofs --------------------------
(***************************************************************************)
(* Proofs about the reliability layer, for every set of peers, threads and *)
(* payloads, every window and every number of retries.                     *)
(***************************************************************************)
EXTENDS Reliable, FiniteSetTheorems, TLAPS

-----------------------------------------------------------------------------
(* The duplicate filter *)

\* The masked difference of two sequence numbers is a sequence number, and it
\* is zero for equal ones only.
LEMMA AheadFacts ==
  ASSUME NEW a \in Seq32, NEW b \in Seq32
  PROVE  Ahead(a, b) \in Seq32 /\ (Ahead(a, b) = 0 <=> a = b)
  BY DupWindowAssumption DEF Seq32, SeqMod, Ahead

\* A full window never remembers the number it has just accepted: the prune
\* always throws out the newest one (reliable.py:124-127).
THEOREM PruneDropsNewest ==
  ASSUME NEW R \in SUBSET Seq32, NEW s \in Seq32, s \notin R,
         IsFiniteSet(R), Cardinality(R) <= Window
  PROVE  Prune(R \cup {s}, s) =
           IF Cardinality(R) = Window THEN R ELSE R \cup {s}
<1> DEFINE Q == R \cup {s}
           c == CHOOSE x \in Q : \A y \in Q : Ahead(x, s) <= Ahead(y, s)
<1>1. Cardinality(R) \in Nat /\ Cardinality(Q) = Cardinality(R) + 1
  BY FS_CardinalityType, FS_AddElement
<1>2. \A y \in Q : Ahead(y, s) \in Seq32 /\ (Ahead(y, s) = 0 <=> y = s)
  BY AheadFacts
<1>3. s \in Q /\ \A y \in Q : Ahead(s, s) <= Ahead(y, s)
  BY <1>2, DupWindowAssumption DEF Seq32, SeqMod
<1>4. c \in Q /\ \A y \in Q : Ahead(c, s) <= Ahead(y, s)
  BY <1>3
<1>5. c = s
  <2> HIDE DEF c
  <2>1. c \in Q /\ Ahead(s, s) = 0 /\ Ahead(c, s) <= Ahead(s, s)
    BY <1>2, <1>3, <1>4
  <2> QED BY <2>1, <1>2, DupWindowAssumption DEF Seq32, SeqMod
<1>6. Prune(Q, s) = IF Cardinality(Q) <= Window THEN Q ELSE Q \ {s}
  BY <1>5 DEF Prune
<1>7. Q \ {s} = R
  OBVIOUS
<1> QED
  BY <1>1, <1>6, <1>7, DupWindowAssumption

\* Accepting a number keeps the type of the window.
LEMMA AcceptType ==
  ASSUME NEW w \in WindowType, NEW s \in Seq32
  PROVE  Accept(w, s) \in WindowType
  BY DEF WindowType, Accept, Prune

\* What is known of a peer's window and of the numbers it has handled, as long
\* as the sequence numbers do not wrap.
GoodWindow(w, H) ==
  /\ w.received \subseteq 0 .. MaxSeq - 1
  /\ IsFiniteSet(w.received)
  /\ Cardinality(w.received) <= Window
  /\ w.last \in {NoSeq} \cup 0 .. MaxSeq - 1
  /\ w.last = NoSeq => H = {} /\ w.received = {}
  /\ w.last # NoSeq => w.last \in w.received \/ Cardinality(w.received) = Window
  /\ \A h \in H : h[1] \in 0 .. MaxSeq - 1 /\ h[1] <= w.last

LEMMA EmptyIsGood == GoodWindow(EmptyWindow, {})
  BY FS_EmptySet, DupWindowAssumption DEF GoodWindow, EmptyWindow, NoSeq

\* Accepting a number that is not a duplicate keeps the window good.
LEMMA AcceptIsGood ==
  ASSUME NEW w \in WindowType, NEW H, GoodWindow(w, H),
         NEW s \in 0 .. MaxSeq - 1, NEW b, ~IsDuplicate(w, s)
  PROVE  GoodWindow(Accept(w, s), H \cup {<<s, b>>})
<1> DEFINE R == w.received
           v == Accept(w, s)
<1>1. R \subseteq Seq32 /\ s \in Seq32 /\ s \notin R
  BY ReliableAssumption, DupWindowAssumption
  DEF WindowType, Seq32, SeqMod, IsDuplicate
<1>2. v.received = IF Cardinality(R) = Window THEN R ELSE R \cup {s}
  <2>1. v.received = Prune(R \cup {s}, s)
    BY DEF Accept
  <2> QED BY <1>1, <2>1, PruneDropsNewest DEF GoodWindow
<1>3. v.last = IF w.last = NoSeq \/ s >= w.last THEN s ELSE w.last
  BY ReliableAssumption, DupWindowAssumption
  DEF GoodWindow, Accept, Ahead, SeqMod, NoSeq
<1>4. /\ IsFiniteSet(v.received) /\ Cardinality(v.received) <= Window
      /\ Cardinality(R) # Window => s \in v.received
      /\ Cardinality(R) = Window => v.received = R
      /\ R \subseteq v.received
  BY <1>1, <1>2, FS_AddElement, FS_CardinalityType, DupWindowAssumption DEF GoodWindow
<1>5. v.received \subseteq 0 .. MaxSeq - 1 /\ v.last \in 0 .. MaxSeq - 1
  BY <1>2, <1>3, ReliableAssumption DEF GoodWindow, NoSeq
<1>6. v.last \in v.received \/ Cardinality(v.received) = Window
  BY <1>3, <1>4 DEF GoodWindow
<1>7. \A h \in H \cup {<<s, b>>} : h[1] \in 0 .. MaxSeq - 1 /\ h[1] <= v.last
  BY <1>3, ReliableAssumption DEF GoodWindow, NoSeq
<1> QED
  BY <1>4, <1>5, <1>6, <1>7 DEF GoodWindow, NoSeq

\* In a good window every handled number is filtered, but for the two
\* exceptions of HandledIsFiltered.
LEMMA GoodFilters ==
  ASSUME NEW w \in WindowType, NEW H, GoodWindow(w, H), NEW h \in H
  PROVE  \/ IsDuplicate(w, h[1])
         \/ Ahead(w.last, h[1]) > Window
         \/ h[1] = w.last /\ Cardinality(w.received) = Window
<1>1. w.last # NoSeq /\ h[1] <= w.last /\ h[1] \in Nat /\ w.last \in Nat
  BY ReliableAssumption DEF GoodWindow, NoSeq
<1>2. CASE h[1] = w.last
  BY <1>1, <1>2 DEF GoodWindow, IsDuplicate
<1>3. CASE h[1] < w.last
  BY <1>1, <1>3, DupWindowAssumption DEF Ahead, IsDuplicate
<1> QED BY <1>1, <1>2, <1>3

-----------------------------------------------------------------------------
(* Type correctness *)

\* Every reachable state has the shape TypeOK gives it.
THEOREM TypeCorrect == Spec => []TypeOK
<1> USE ReliableAssumption, DupWindowAssumption
<1>1. Init => TypeOK
  BY DEF Init, TypeOK, CallType, WindowType, EmptyWindow, Seq32, SeqMod
<1>2. TypeOK /\ [Next]_vars => TypeOK'
  <2> SUFFICES ASSUME TypeOK, [Next]_vars PROVE TypeOK'
    OBVIOUS
  <2>1. ASSUME NEW t \in Thread, NEW p \in Peer, NEW b \in Body, AppSend(t, p, b)
        PROVE  TypeOK'
    BY <2>1 DEF TypeOK, AppSend, Begin, CallType, Seq32, SeqMod
  <2>2. ASSUME NEW t \in Thread, DrawSeq(t) PROVE TypeOK'
    BY <2>2 DEF TypeOK, DrawSeq, Busy, CallType, Key
  <2>3. ASSUME NEW t \in Thread, BumpSeq(t) PROVE TypeOK'
    BY <2>3 DEF TypeOK, BumpSeq, Busy, Advance, CallType, NextSeq, Seq32, SeqMod
  <2>4. ASSUME NEW t \in Thread, Transmit(t) PROVE TypeOK'
    BY <2>4 DEF TypeOK, Transmit, Busy, Advance, Return, CallType, Datagram
  <2>5. ASSUME NEW t \in Thread, NoAddress(t) PROVE TypeOK'
    BY <2>5 DEF TypeOK, NoAddress, Busy, Advance, Return, CallType
  <2>6. ASSUME NEW t \in Thread, SendError(t) PROVE TypeOK'
    BY <2>6 DEF TypeOK, SendError, Busy, CallType
  <2>7. ASSUME NEW t \in Thread, Track(t) PROVE TypeOK'
    <3>1. pending' \in [Key -> Entry \cup {NoEntry}]
      <4>1. [body |-> call[t].body, retries |-> 0] \in Entry
        BY <2>7 DEF TypeOK, Track, Busy, CallType, Entry
      <4> QED BY <2>7, <4>1 DEF TypeOK, Track
    <3>2. call' \in [Thread -> CallType]
      BY <2>7 DEF TypeOK, Track, Busy, Advance, CallType
    <3> QED BY <2>7, <3>1, <3>2 DEF TypeOK, Track
  <2>8. ASSUME NEW t \in Thread, QueueTimer(t) PROVE TypeOK'
    <3>1. KeyOf(call[t]) \in Key
      BY <2>8 DEF TypeOK, QueueTimer, Busy, CallType, Key, KeyOf
    <3>2. timers' \in [Key -> Nat]
      BY <2>8, <3>1 DEF TypeOK, QueueTimer
    <3>3. call' \in [Thread -> CallType]
      BY <2>8 DEF TypeOK, QueueTimer, Busy, Advance, Return, CallType
    <3> QED BY <2>8, <3>2, <3>3 DEF TypeOK, QueueTimer
  <2>9. ASSUME NEW t \in Thread, Requeue(t) PROVE TypeOK'
    <3>1. timers' \in [Key -> Nat]
      <4> DEFINE o == call[t].origin
      <4>1. timers' = [timers EXCEPT ![o] = @ + 1] /\ timers \in [Key -> Nat]
        BY <2>9 DEF TypeOK, Requeue
      <4> HIDE DEF o
      <4>2. timers' = [k \in Key |-> IF k = o THEN timers[k] + 1 ELSE timers[k]]
        BY <4>1
      <4>3. \A k \in Key : timers[k] \in Nat /\ timers[k] + 1 \in Nat
        BY <4>1
      <4> QED BY <4>2, <4>3
    <3>2. call' \in [Thread -> CallType]
      BY <2>9 DEF TypeOK, Requeue, CallType
    <3> QED BY <2>9, <3>1, <3>2 DEF TypeOK, Requeue
  <2>10. ASSUME NEW k \in Key, FireTimer(k) PROVE TypeOK'
    <3>1. timers' \in [Key -> Nat]
      BY <2>10 DEF TypeOK, FireTimer
    <3>2. CASE pending[k] = NoEntry
      BY <2>10, <3>1, <3>2 DEF TypeOK, FireTimer
    <3>3. CASE pending[k] # NoEntry /\ pending[k].retries + 1 >= MaxRetries
      BY <2>10, <3>1, <3>3 DEF TypeOK, FireTimer, GiveUp
    <3>4. CASE pending[k] # NoEntry /\ ~(pending[k].retries + 1 >= MaxRetries)
      <4>1. pending[k] \in Entry /\ k[1] \in Peer
        BY <3>4 DEF TypeOK, Key
      <4>2. pending' \in [Key -> Entry \cup {NoEntry}]
        BY <2>10, <3>4, <4>1 DEF TypeOK, FireTimer, Retry, Entry
      <4>3. call' \in [Thread -> CallType]
        BY <2>10, <3>4, <4>1
        DEF TypeOK, FireTimer, Retry, Begin, CallType, Entry, Seq32, SeqMod
      <4> QED BY <2>10, <3>1, <4>2, <4>3 DEF TypeOK, FireTimer
    <3> QED BY <3>2, <3>3, <3>4
  <2>11. ASSUME NEW d \in net, Deliver(d) PROVE TypeOK'
    <3>1. win' \in [Peer -> WindowType]
      BY <2>11, AcceptType DEF TypeOK, Deliver, Datagram
    <3> QED BY <2>11, <3>1 DEF TypeOK, Deliver, Datagram, Key
  <2>12. ASSUME NEW k \in acks, ReceiveAck(k) PROVE TypeOK'
    BY <2>12 DEF TypeOK, ReceiveAck
  <2>13. ASSUME NEW p \in Peer, DiscardPeer(p) PROVE TypeOK'
    BY <2>13 DEF TypeOK, DiscardPeer
  <2>14. ASSUME RestartNode PROVE TypeOK'
    BY <2>14 DEF TypeOK, RestartNode, CallType, Seq32, SeqMod
  <2>15. ASSUME NEW p \in Peer, RestartPeer(p) PROVE TypeOK'
    BY <2>15 DEF TypeOK, RestartPeer, WindowType, EmptyWindow
  <2>16. CASE UNCHANGED vars
    BY <2>16 DEF TypeOK, vars
  <2> QED
    BY <2>1, <2>2, <2>3, <2>4, <2>5, <2>6, <2>7, <2>8, <2>9, <2>10, <2>11,
       <2>12, <2>13, <2>14, <2>15, <2>16 DEF Next
<1> QED BY <1>1, <1>2, PTL DEF Spec

-----------------------------------------------------------------------------
(* No entry of pending_acks is forgotten *)

LEMMA NoKeyIsNoKey == NoKey \notin Key
  BY DEF NoKey, Key

\* The invariant is inductive together with the types.
LEMMA NoForgottenStep ==
  TypeOK /\ NoForgottenEntry /\ [Next]_vars => NoForgottenEntry'
<1> USE ReliableAssumption
<1> SUFFICES ASSUME TypeOK, NoForgottenEntry, [Next]_vars,
                    NEW k \in Key, pending'[k] # NoEntry
             PROVE  \/ timers'[k] > 0
                    \/ \E t \in Thread : WillQueue(t, k)'
                    \/ k \in abandoned'
  BY DEF NoForgottenEntry
<1> DEFINE Covered == \/ timers[k] > 0
                      \/ \E t \in Thread : WillQueue(t, k)
                      \/ k \in abandoned
           Covered1 == \/ timers'[k] > 0
                       \/ \E t \in Thread : WillQueue(t, k)'
                       \/ k \in abandoned'
<1> HIDE DEF Covered, Covered1
<1>0. pending[k] # NoEntry => Covered
  BY DEF NoForgottenEntry, Covered
<1>a. ASSUME Covered, timers'[k] = timers[k], abandoned \subseteq abandoned',
             \A t \in Thread : WillQueue(t, k) => WillQueue(t, k)' \/ k \in abandoned'
      PROVE  Covered1
  BY <1>a DEF Covered, Covered1, TypeOK
<1>1. ASSUME NEW t \in Thread, NEW p \in Peer, NEW b \in Body, AppSend(t, p, b)
      PROVE  Covered1
  <2>1. pending' = pending /\ timers' = timers /\ abandoned' = abandoned
    BY <1>1 DEF AppSend
  <2>2. \A u \in Thread : WillQueue(u, k) => WillQueue(u, k)'
    BY <1>1 DEF AppSend, Begin, WillQueue, Busy, TypeOK, KeyOf
  <2> QED BY <1>0, <2>1, <2>2 DEF Covered, Covered1
<1>2. ASSUME NEW t \in Thread, DrawSeq(t) PROVE Covered1
  BY <1>2, <1>0, <1>a DEF DrawSeq, WillQueue, Busy, TypeOK, KeyOf, CallType, Idle
<1>3. ASSUME NEW t \in Thread, BumpSeq(t) PROVE Covered1
  BY <1>3, <1>0, <1>a DEF BumpSeq, Advance, WillQueue, Busy, TypeOK, KeyOf, CallType, Idle
<1>4. ASSUME NEW t \in Thread, Transmit(t) \/ NoAddress(t) PROVE Covered1
  BY <1>4, <1>0, <1>a, NoKeyIsNoKey
  DEF Transmit, NoAddress, Advance, Return, WillQueue, Busy, TypeOK, KeyOf,
      CallType, Idle
<1>5. ASSUME NEW t \in Thread, SendError(t) PROVE Covered1
  BY <1>5, <1>0, <1>a, NoKeyIsNoKey DEF SendError, WillQueue, Busy, TypeOK, KeyOf, CallType, Idle
<1>6. ASSUME NEW t \in Thread, Track(t) PROVE Covered1
  <2>1. CASE k = KeyOf(call[t])
    <3>1. WillQueue(t, k)'
      BY <1>6, <2>1 DEF Track, Advance, WillQueue, Busy, TypeOK, KeyOf, CallType, Idle
    <3> QED BY <3>1 DEF Covered1
  <2>2. CASE k # KeyOf(call[t])
    <3>1. pending'[k] = pending[k] /\ timers' = timers
          /\ (k \in abandoned => k \in abandoned')
      BY <1>6, <2>2 DEF Track, TypeOK
    <3>2. \A u \in Thread : WillQueue(u, k) => WillQueue(u, k)'
      BY <1>6, <2>2 DEF Track, Advance, WillQueue, Busy, TypeOK, KeyOf, CallType, Idle
    <3> QED BY <1>0, <3>1, <3>2 DEF Covered, Covered1
  <2> QED BY <2>1, <2>2
<1>7. ASSUME NEW t \in Thread, QueueTimer(t) PROVE Covered1
  <2>1. CASE k = KeyOf(call[t])
    <3>1. timers'[k] > 0
      BY <1>7, <2>1 DEF QueueTimer, TypeOK
    <3> QED BY <3>1 DEF Covered1
  <2>2. CASE k # KeyOf(call[t])
    <3>1. pending' = pending /\ abandoned' = abandoned /\ timers'[k] = timers[k]
      BY <1>7, <2>2 DEF QueueTimer, TypeOK
    <3>2. \A u \in Thread : WillQueue(u, k) => WillQueue(u, k)'
      BY <1>7, <2>2, NoKeyIsNoKey
      DEF QueueTimer, Advance, Return, WillQueue, Busy, TypeOK, KeyOf, CallType, Idle
    <3> QED BY <1>0, <3>1, <3>2 DEF Covered, Covered1
  <2> QED BY <2>1, <2>2
<1>8. ASSUME NEW t \in Thread, Requeue(t) PROVE Covered1
  <2>1. CASE k = call[t].origin
    <3>1. timers'[k] > 0
      BY <1>8, <2>1 DEF Requeue, TypeOK
    <3> QED BY <3>1 DEF Covered1
  <2>2. CASE k # call[t].origin
    <3>1. pending' = pending /\ abandoned' = abandoned /\ timers'[k] = timers[k]
      BY <1>8, <2>2 DEF Requeue, TypeOK
    <3>2. \A u \in Thread : WillQueue(u, k) => WillQueue(u, k)'
      BY <1>8, <2>2 DEF Requeue, WillQueue, Busy, TypeOK, KeyOf, CallType, Idle
    <3> QED BY <1>0, <3>1, <3>2 DEF Covered, Covered1
  <2> QED BY <2>1, <2>2
<1>9. ASSUME NEW j \in Key, FireTimer(j) PROVE Covered1
  <2>1. \A u \in Thread : WillQueue(u, k) => WillQueue(u, k)'
    BY <1>9 DEF FireTimer, GiveUp, Retry, Begin, WillQueue, Busy, TypeOK, KeyOf
  <2>2. CASE j = k
    <3>1. pending[k] # NoEntry /\ ~(pending[k].retries + 1 >= MaxRetries)
      BY <1>9, <2>2 DEF FireTimer, GiveUp, TypeOK
    <3>2. WillQueue(Sched, k)'
      BY <1>9, <2>2, <3>1 DEF FireTimer, Retry, Begin, WillQueue, Busy, TypeOK, Idle
    <3> QED BY <3>2 DEF Covered1
  <2>3. CASE j # k
    <3>1. pending'[k] = pending[k] /\ timers'[k] = timers[k] /\ abandoned' = abandoned
      BY <1>9, <2>3 DEF FireTimer, GiveUp, Retry, TypeOK
    <3> QED BY <1>0, <2>1, <3>1 DEF Covered, Covered1
  <2> QED BY <2>2, <2>3
<1>10. ASSUME NEW d \in net, Deliver(d) PROVE Covered1
  <2>1. UNCHANGED <<pending, timers, call, abandoned>>
    BY <1>10 DEF Deliver
  <2> QED BY <1>0, <2>1 DEF Covered, Covered1, WillQueue, Busy
<1>11. ASSUME NEW j \in acks, ReceiveAck(j) PROVE Covered1
  <2>1. UNCHANGED <<timers, call, abandoned>> /\ pending[k] # NoEntry
    BY <1>11 DEF ReceiveAck, TypeOK
  <2> QED BY <1>0, <2>1 DEF Covered, Covered1, WillQueue, Busy
<1>12. ASSUME NEW p \in Peer, DiscardPeer(p) PROVE Covered1
  <2>1. UNCHANGED <<timers, call, abandoned>> /\ pending[k] # NoEntry
    BY <1>12 DEF DiscardPeer, TypeOK
  <2> QED BY <1>0, <2>1 DEF Covered, Covered1, WillQueue, Busy
<1>13. ~RestartNode
  BY DEF RestartNode, TypeOK
<1>14. ASSUME NEW p \in Peer, RestartPeer(p) PROVE Covered1
  BY <1>14, <1>0 DEF RestartPeer, Covered, Covered1, WillQueue, Busy
<1>15. ASSUME UNCHANGED vars PROVE Covered1
  BY <1>15, <1>0 DEF vars, Covered, Covered1, WillQueue, Busy
<1>16. Covered1
  BY <1>1, <1>2, <1>3, <1>4, <1>5, <1>6, <1>7, <1>8, <1>9, <1>10, <1>11, <1>12,
     <1>13, <1>14, <1>15 DEF Next
<1> QED BY <1>16 DEF Covered1

\* Every message that awaits an ACK keeps a retransmission check, queued or on
\* its way, unless its own retransmission raised; whatever the threads inside
\* send_to do to each other.
THEOREM NoForgottenEntryHolds == Spec => []NoForgottenEntry
<1>1. Init => NoForgottenEntry
  BY DEF Init, NoForgottenEntry
<1> QED BY <1>1, NoForgottenStep, TypeCorrect, PTL DEF Spec

-----------------------------------------------------------------------------
(* What awaits an ACK was sent *)

\* A thread about to track a message has put its datagram on the network.
TrackingWasSent ==
  \A t \in Thread : Busy(t) /\ call[t].pc = "track" =>
    [to |-> call[t].peer, seq |-> call[t].seq, body |-> call[t].body] \in net

SentInv == TrackedWasSent /\ TrackingWasSent

LEMMA SentStep == TypeOK /\ SentInv /\ [Next]_vars => SentInv'
<1> SUFFICES ASSUME TypeOK, SentInv, [Next]_vars PROVE SentInv'
  OBVIOUS
<1> USE DEF SentInv
<1>1. ASSUME NEW t \in Thread, NEW p \in Peer, NEW b \in Body, AppSend(t, p, b)
      PROVE  SentInv'
  BY <1>1 DEF AppSend, Begin, TrackedWasSent, TrackingWasSent, Busy, TypeOK
<1>2. ASSUME NEW t \in Thread, DrawSeq(t) PROVE SentInv'
  BY <1>2 DEF DrawSeq, TrackedWasSent, TrackingWasSent, Busy, TypeOK, CallType, Idle
<1>3. ASSUME NEW t \in Thread, BumpSeq(t) PROVE SentInv'
  BY <1>3 DEF BumpSeq, Advance, TrackedWasSent, TrackingWasSent, Busy, TypeOK,
              CallType, Idle
<1>4. ASSUME NEW t \in Thread, Transmit(t) PROVE SentInv'
  <2>1. TrackedWasSent'
    BY <1>4 DEF Transmit, TrackedWasSent
  <2>2. TrackingWasSent'
    BY <1>4 DEF Transmit, Advance, Return, TrackingWasSent, Busy, TypeOK, CallType, Idle
  <2> QED BY <2>1, <2>2
<1>5. ASSUME NEW t \in Thread, NoAddress(t) \/ SendError(t) \/ QueueTimer(t) \/ Requeue(t)
      PROVE  SentInv'
  <2>1. TrackedWasSent'
    BY <1>5 DEF NoAddress, SendError, QueueTimer, Requeue, TrackedWasSent
  <2>2. TrackingWasSent'
    BY <1>5 DEF NoAddress, SendError, QueueTimer, Requeue, Advance, Return,
                TrackingWasSent, Busy, TypeOK, CallType, Idle
  <2> QED BY <2>1, <2>2
<1>6. ASSUME NEW t \in Thread, Track(t) PROVE SentInv'
  <2>1. TrackingWasSent'
    BY <1>6 DEF Track, Advance, TrackingWasSent, Busy, TypeOK, CallType, Idle
  <2>2. ASSUME NEW k \in Key, k = KeyOf(call[t])
        PROVE  [to |-> k[1], seq |-> k[2], body |-> pending'[k].body] \in net
    BY <1>6, <2>2 DEF Track, TrackingWasSent, KeyOf, TypeOK
  <2>3. ASSUME NEW k \in Key, k # KeyOf(call[t]) PROVE pending'[k] = pending[k]
    BY <1>6, <2>3 DEF Track, TypeOK
  <2>4. net' = net
    BY <1>6 DEF Track
  <2>5. TrackedWasSent'
    BY <2>2, <2>3, <2>4 DEF TrackedWasSent
  <2> QED BY <2>1, <2>5
<1>7. ASSUME NEW j \in Key, FireTimer(j) PROVE SentInv'
  <2>1. TrackingWasSent'
    BY <1>7 DEF FireTimer, GiveUp, Retry, Begin, TrackingWasSent, Busy, TypeOK
  <2>2. ASSUME NEW k \in Key, pending'[k] # NoEntry
        PROVE  pending[k] # NoEntry /\ pending'[k].body = pending[k].body
    BY <1>7, <2>2 DEF FireTimer, GiveUp, Retry, TypeOK, Entry
  <2>3. net' = net
    BY <1>7 DEF FireTimer
  <2> QED BY <2>1, <2>2, <2>3 DEF TrackedWasSent
<1>8. ASSUME NEW d \in net, Deliver(d) PROVE SentInv'
  BY <1>8 DEF Deliver, TrackedWasSent, TrackingWasSent, Busy
<1>9. ASSUME NEW j \in acks, ReceiveAck(j) PROVE SentInv'
  BY <1>9 DEF ReceiveAck, TrackedWasSent, TrackingWasSent, Busy, TypeOK
<1>10. ASSUME NEW p \in Peer, DiscardPeer(p) PROVE SentInv'
  BY <1>10 DEF DiscardPeer, TrackedWasSent, TrackingWasSent, Busy
<1>11. ASSUME RestartNode PROVE SentInv'
  BY <1>11 DEF RestartNode, TrackedWasSent, TrackingWasSent, Busy
<1>12. ASSUME NEW p \in Peer, RestartPeer(p) PROVE SentInv'
  BY <1>12 DEF RestartPeer, TrackedWasSent, TrackingWasSent, Busy
<1>13. CASE UNCHANGED vars
  BY <1>13 DEF vars, TrackedWasSent, TrackingWasSent, Busy
<1> QED
  BY <1>1, <1>2, <1>3, <1>4, <1>5, <1>6, <1>7, <1>8, <1>9, <1>10, <1>11, <1>12,
     <1>13 DEF Next

\* The table of unacknowledged messages never names a datagram that was not
\* sent, even when two threads draw the same sequence number.
THEOREM TrackedWasSentHolds == Spec => []TrackedWasSent
<1>1. Init => SentInv
  BY DEF Init, SentInv, TrackedWasSent, TrackingWasSent, Busy
<1>2. SentInv => TrackedWasSent
  BY DEF SentInv
<1> QED BY <1>1, <1>2, SentStep, TypeCorrect, PTL DEF Spec

-----------------------------------------------------------------------------
(* What is handled is filtered when it comes again *)

\* No number at or above MaxSeq is on the network or on its way there, and the
\* window of every peer is good for what it has handled.
SeqInv == /\ \A d \in net : d.seq \in 0 .. MaxSeq - 1
          /\ \A t \in Thread : Busy(t) /\ call[t].pc \in {"bump", "transmit"} =>
               call[t].seq \in 0 .. MaxSeq - 1
WindowInv == \A p \in Peer : GoodWindow(win[p], handled[p])

LEMMA SeqStep == TypeOK /\ SeqInv /\ [Next]_vars => SeqInv'
<1> SUFFICES ASSUME TypeOK, SeqInv, [Next]_vars PROVE SeqInv'
  OBVIOUS
<1> USE ReliableAssumption, DupWindowAssumption DEF SeqInv
<1>1. ASSUME NEW t \in Thread, NEW p \in Peer, NEW b \in Body, AppSend(t, p, b)
      PROVE  SeqInv'
  BY <1>1 DEF AppSend, Begin, Busy, TypeOK
<1>2. ASSUME NEW t \in Thread, DrawSeq(t) PROVE SeqInv'
  <2>1. seqOut[call[t].peer] \in 0 .. MaxSeq - 1
    BY <1>2 DEF DrawSeq, TypeOK, Busy, CallType, Seq32, SeqMod
  <2> QED BY <1>2, <2>1 DEF DrawSeq, Busy, TypeOK, CallType, Idle
<1>3. ASSUME NEW t \in Thread, BumpSeq(t) PROVE SeqInv'
  BY <1>3 DEF BumpSeq, Advance, Busy, TypeOK, CallType, Idle
<1>4. ASSUME NEW t \in Thread, Transmit(t) PROVE SeqInv'
  BY <1>4 DEF Transmit, Advance, Return, Busy, TypeOK, CallType, Idle
<1>5. ASSUME NEW t \in Thread, \/ NoAddress(t) \/ SendError(t) \/ Track(t)
                               \/ QueueTimer(t) \/ Requeue(t)
      PROVE  SeqInv'
  BY <1>5 DEF NoAddress, SendError, Track, QueueTimer, Requeue, Advance, Return,
              Busy, TypeOK, CallType, Idle
<1>6. ASSUME NEW j \in Key, FireTimer(j) PROVE SeqInv'
  BY <1>6 DEF FireTimer, GiveUp, Retry, Begin, Busy, TypeOK
<1>7. ASSUME \/ \E d \in net : Deliver(d)
             \/ \E j \in acks : ReceiveAck(j)
             \/ \E p \in Peer : DiscardPeer(p) \/ RestartPeer(p)
             \/ UNCHANGED vars
      PROVE  SeqInv'
  <2>1. net' = net /\ call' = call
    BY <1>7 DEF Deliver, ReceiveAck, DiscardPeer, RestartPeer, vars
  <2> QED BY <2>1 DEF Busy
<1>8. ASSUME RestartNode PROVE SeqInv'
  BY <1>8 DEF RestartNode, Busy
<1> QED
  BY <1>1, <1>2, <1>3, <1>4, <1>5, <1>6, <1>7, <1>8 DEF Next

LEMMA WindowStep == TypeOK /\ SeqInv /\ WindowInv /\ [Next]_vars => WindowInv'
<1> SUFFICES ASSUME TypeOK, SeqInv, WindowInv, [Next]_vars PROVE WindowInv'
  OBVIOUS
<1>1. ASSUME NEW d \in net, Deliver(d) PROVE WindowInv'
  <2> DEFINE keep == d.body \in ControlBody \/ IsDuplicate(win[d.to], d.seq)
  <2>1. d.to \in Peer /\ d.seq \in 0 .. MaxSeq - 1 /\ win[d.to] \in WindowType
        /\ GoodWindow(win[d.to], handled[d.to])
    BY DEF TypeOK, Datagram, SeqInv, WindowInv
  <2>2. CASE keep
    BY <1>1, <2>2 DEF Deliver, WindowInv
  <2>3. CASE ~keep
    <3>1. GoodWindow(Accept(win[d.to], d.seq), handled[d.to] \cup {<<d.seq, d.body>>})
      BY <2>1, <2>3, AcceptIsGood
    <3>2. /\ win' = [win EXCEPT ![d.to] = Accept(win[d.to], d.seq)]
          /\ handled' = [handled EXCEPT ![d.to] = handled[d.to] \cup {<<d.seq, d.body>>}]
      BY <1>1, <2>3 DEF Deliver
    <3>3. ASSUME NEW p \in Peer PROVE GoodWindow(win'[p], handled'[p])
      <4>1. CASE p = d.to
        BY <3>1, <3>2, <4>1 DEF TypeOK
      <4>2. CASE p # d.to
        <5>1. win'[p] = win[p] /\ handled'[p] = handled[p]
          BY <3>2, <4>2 DEF TypeOK
        <5> QED BY <5>1 DEF WindowInv
      <4> QED BY <4>1, <4>2
    <3> QED BY <3>3 DEF WindowInv
  <2> QED BY <2>2, <2>3
<1>2. ASSUME NEW p \in Peer, RestartPeer(p) PROVE WindowInv'
  <2>1. ASSUME NEW q \in Peer PROVE GoodWindow(win'[q], handled'[q])
    <3>1. CASE q = p
      BY <1>2, <3>1, EmptyIsGood DEF RestartPeer, TypeOK
    <3>2. CASE q # p
      <4>1. win'[q] = win[q] /\ handled'[q] = handled[q]
        BY <1>2, <3>2 DEF RestartPeer, TypeOK
      <4> QED BY <4>1 DEF WindowInv
    <3> QED BY <3>1, <3>2
  <2> QED BY <2>1 DEF WindowInv
<1>3. CASE UNCHANGED peerVars
  BY <1>3 DEF peerVars, WindowInv
<1>4. ASSUME ~ \E d \in net : Deliver(d), ~ \E p \in Peer : RestartPeer(p)
      PROVE  UNCHANGED peerVars
  BY <1>4 DEF Next, vars, peerVars, AppSend, DrawSeq, BumpSeq, Transmit, NoAddress,
              SendError, Track, QueueTimer, Requeue, FireTimer, ReceiveAck,
              DiscardPeer, RestartNode
<1> QED BY <1>1, <1>2, <1>3, <1>4

\* As long as fewer than HalfSeq numbers were given out, a number a peer has
\* handled is recognised as a duplicate when it comes again, unless it is more
\* than Window behind the newest one or is the newest one of a full window.
THEOREM HandledIsFilteredHolds == Spec => []HandledIsFiltered
<1>1. Init => SeqInv /\ WindowInv
  BY EmptyIsGood DEF Init, SeqInv, WindowInv, Busy
<1>2. TypeOK /\ WindowInv => HandledIsFiltered
  BY GoodFilters DEF TypeOK, WindowInv, HandledIsFiltered
<1> QED BY <1>1, <1>2, SeqStep, WindowStep, TypeCorrect, PTL DEF Spec
=============================================================================
