---------------------------- MODULE PeersProofs ----------------------------
(***************************************************************************)
(* Proofs about the connections, for every number of nodes, every timeout  *)
(* and every number of troubles.                                           *)
(***************************************************************************)
EXTENDS Peers, FiniteSetTheorems, TLAPS

LEMMA ActTypes ==
  ASSUME NEW q \in Node
  PROVE  /\ Act("reply", q) \in Action /\ Act("list", q) \in Action
         /\ Act("punch", q) \in Action /\ Act("verify", q) \in Action
         /\ Act("ask", q) \in Action
BY DEF Act, Action

LEMMA MessageTypes ==
  ASSUME NEW m \in Message
  PROVE  m.from \in Node /\ m.to \in Node /\ (m.type = "list" => m.peers \in SUBSET Node)
BY DEF Message

\* Every reachable state has the shape TypeOK gives it.
THEOREM TypeCorrect == Spec => []TypeOK
<1> USE PeersAssumption
<1>1. Init => TypeOK
  <2> SUFFICES ASSUME Init PROVE TypeOK
    OBVIOUS
  <2>1. /\ link \in [Node -> [Node -> LinkState]]
        /\ silence \in [Node -> [Node -> 0 .. MaxAge + 1]]
    BY DEF Init, LinkState
  <2>2. soon \in [Node -> [Node -> Nat]] /\ later \in [Node -> [Node -> Nat]]
    BY DEF Init
  <2>3. stamp \in [Node -> Nat] /\ clock \in Nat
    BY DEF Init
  <2>7. trouble \in 0 .. MaxTrouble
    BY DEF Init
  <2>4. queue \in [Node -> SUBSET Action] /\ net \in SUBSET Message
    BY DEF Init
  <2>5. /\ up \in [Node -> BOOLEAN] /\ check \in [Node -> BOOLEAN]
        /\ hearing \in [Node -> SUBSET (Node \X BOOLEAN)]
    BY DEF Init
  <2>6. /\ faulty \in BOOLEAN /\ raised \in SUBSET (Node \X Node)
        /\ outdated \in SUBSET (Node \X Node)
    BY DEF Init
  <2> QED BY <2>1, <2>2, <2>3, <2>4, <2>5, <2>6, <2>7 DEF TypeOK
<1>2. TypeOK /\ [Next]_vars => TypeOK'
  <2> SUFFICES ASSUME TypeOK, [Next]_vars PROVE TypeOK'
    OBVIOUS
  <2> USE DEF book, updates, timers, history
  <2>n. /\ "CONNECTED" \in LinkState /\ "DISCONNECTED" \in LinkState
        /\ "PUNCHING" \in LinkState /\ "UNREACHABLE" \in LinkState
        /\ 0 \in 0 .. MaxAge + 1
    BY DEF LinkState
  <2>l. \A n, q \in Node, s \in LinkState :
          SetLink(n, q, s) => link' \in [Node -> [Node -> LinkState]]
    BY DEF TypeOK, SetLink
  <2>s. \A n, q \in Node : Seen(n, q) => silence' \in [Node -> [Node -> 0 .. MaxAge + 1]]
    BY <2>n DEF TypeOK, Seen
  <2>e. \A n \in Node, a \in Action : Enqueue(n, a) => queue' \in [Node -> SUBSET Action]
    BY DEF TypeOK, Enqueue
  <2>d. \A n \in Node, a \in Action : Do(n, a) => queue' \in [Node -> SUBSET Action]
    BY DEF TypeOK, Do
  <2>m. \A n \in Node : Mark(n) => clock' \in Nat /\ stamp' \in [Node -> Nat]
    BY DEF TypeOK, Mark
  <2>r. \A m \in net : Receive(m) => net' \in SUBSET Message
    BY DEF TypeOK, Receive
  <2>b. \A n, q \in Node : [later EXCEPT ![n][q] = @ + 1] \in [Node -> [Node -> Nat]]
    BY DEF TypeOK
  <2>t. Trouble => trouble' \in 0 .. MaxTrouble
    BY DEF TypeOK, Trouble
  <2>f. Fault => trouble' \in 0 .. MaxTrouble /\ faulty' \in BOOLEAN
    BY <2>t DEF Fault
  <2>a. \A n, q \in Node : raised \cup {<<n, q>>} \in SUBSET (Node \X Node)
    BY DEF TypeOK
  <2>1. ASSUME NEW m \in net, OnHello(m) PROVE TypeOK'
    <3>1. m.to \in Node /\ m.from \in Node
      BY MessageTypes DEF TypeOK
    <3>2. net' \in SUBSET Message /\ silence' \in [Node -> [Node -> 0 .. MaxAge + 1]]
      BY <2>1, <2>s, <2>r, <3>1 DEF OnHello
    <3>3. hearing' \in [Node -> SUBSET (Node \X BOOLEAN)]
      <4> DEFINE heard == {<<m.from, link[m.to][m.from] # "CONNECTED">>}
      <4>1. (link[m.to][m.from] # "CONNECTED") \in BOOLEAN
        OBVIOUS
      <4>2. heard \in SUBSET (Node \X BOOLEAN)
        <5>1. \A p \in Node, e \in BOOLEAN : {<<p, e>>} \in SUBSET (Node \X BOOLEAN)
          OBVIOUS
        <5> QED BY <3>1, <4>1, <5>1, Zenon
      <4>3. hearing' = [hearing EXCEPT ![m.to] = heard]
        BY <2>1 DEF OnHello
      <4> HIDE DEF heard
      <4> QED BY <3>1, <4>2, <4>3 DEF TypeOK
    <3> QED BY <2>1, <3>2, <3>3 DEF OnHello, TypeOK
  <2>20. ASSUME NEW n \in Node, NEW q \in Node, Welcome(n, q) PROVE TypeOK'
    <3>1. PICK new \in BOOLEAN : Greets(n, q, new)
      BY <2>20 DEF Welcome
    <3>2. /\ link' \in [Node -> [Node -> LinkState]]
          /\ hearing' \in [Node -> SUBSET (Node \X BOOLEAN)]
          /\ outdated' \in SUBSET (Node \X Node)
      BY <3>1, <2>l, <2>n DEF Greets, TypeOK
    <3>3. /\ clock' \in Nat /\ stamp' \in [Node -> Nat] /\ queue' \in [Node -> SUBSET Action]
          /\ later' \in [Node -> [Node -> Nat]]
      <4>1. CASE new
        <5>1. /\ Mark(n) /\ Enqueue(n, Act("reply", q))
              /\ later' = [later EXCEPT ![n][q] = @ + 1]
          BY <3>1, <4>1 DEF Greets
        <5>2. later' \in [Node -> [Node -> Nat]]
          BY <5>1, <2>b
        <5> QED BY <5>1, <5>2, <2>m, <2>e, ActTypes
      <4>2. CASE ~new
        BY <3>1, <4>2 DEF Greets, TypeOK
      <4> QED BY <4>1, <4>2
    <3> QED BY <3>1, <3>2, <3>3 DEF Greets, TypeOK
  <2>2. ASSUME NEW m \in net, OnPing(m) PROVE TypeOK'
    <3>1. m.to \in Node /\ m.from \in Node
      BY MessageTypes DEF TypeOK
    <3>2. net' \in SUBSET Message /\ silence' \in [Node -> [Node -> 0 .. MaxAge + 1]]
          /\ queue' \in [Node -> SUBSET Action]
      BY <2>2, <2>s, <2>r, <2>e, <3>1, ActTypes DEF OnPing, TypeOK
    <3> QED BY <2>2, <3>2 DEF OnPing, TypeOK
  <2>3. ASSUME NEW m \in net, OnGoodbye(m) PROVE TypeOK'
    <3>1. m.to \in Node /\ m.from \in Node
      BY MessageTypes DEF TypeOK
    <3>2. /\ net' \in SUBSET Message /\ silence' \in [Node -> [Node -> 0 .. MaxAge + 1]]
          /\ link' \in [Node -> [Node -> LinkState]]
          /\ clock' \in Nat /\ stamp' \in [Node -> Nat]
      BY <2>3, <2>s, <2>r, <2>l, <2>m, <2>n, <3>1 DEF OnGoodbye
    <3> QED BY <2>3, <3>2 DEF OnGoodbye, TypeOK
  <2>4. ASSUME NEW m \in net, OnAsk(m) PROVE TypeOK'
    <3>1. m.to \in Node /\ m.from \in Node
      BY MessageTypes DEF TypeOK
    <3>2. net' \in SUBSET Message /\ silence' \in [Node -> [Node -> 0 .. MaxAge + 1]]
          /\ queue' \in [Node -> SUBSET Action]
      BY <2>4, <2>s, <2>r, <2>e, <3>1, ActTypes DEF OnAsk
    <3> QED BY <2>4, <3>2 DEF OnAsk, TypeOK
  <2>5. ASSUME NEW m \in net, OnList(m) PROVE TypeOK'
    <3>1. m.to \in Node /\ m.from \in Node
      BY MessageTypes DEF TypeOK
    <3>2. silence' \in [Node -> [Node -> 0 .. MaxAge + 1]]
      BY <2>5, <2>n, <3>1 DEF OnList, TypeOK
    <3>3. link' \in [Node -> [Node -> LinkState]]
      BY <2>5, <2>n, <3>1 DEF OnList, TypeOK
    <3> QED BY <2>5, <2>r, <3>2, <3>3 DEF OnList, TypeOK
  <2>x. \A n, q \in Node : /\ Msg("hello", n, q) \in Message /\ Msg("ask", n, q) \in Message
                           /\ Msg("goodbye", n, q) \in Message
    BY DEF Msg, Message
  <2>y. \A M \in SUBSET Message : Send(M) => net' \in SUBSET Message
    BY DEF Send, TypeOK
  <2>6. ASSUME NEW n \in Node, NEW q \in Node, Reply(n, q) PROVE TypeOK'
    <3>1. net' \in SUBSET Message /\ queue' \in [Node -> SUBSET Action]
      BY <2>6, <2>x, <2>y, <2>d, ActTypes DEF Reply
    <3> QED BY <2>6, <3>1 DEF Reply, TypeOK
  <2>7. ASSUME NEW n \in Node, NEW q \in Node, SendList(n, q) PROVE TypeOK'
    <3>1. {[type |-> "list", from |-> n, to |-> q, peers |-> Connected(n)]} \in SUBSET Message
      BY DEF Message, Connected
    <3>2. net' \in SUBSET Message /\ queue' \in [Node -> SUBSET Action]
      BY <2>7, <2>y, <2>d, <3>1, ActTypes DEF SendList
    <3> QED BY <2>7, <3>2 DEF SendList, TypeOK
  <2>8. ASSUME NEW n \in Node, Ask(n) PROVE TypeOK'
    <3>1. {Msg("ask", n, q) : q \in Connected(n)} \in SUBSET Message
      BY <2>x DEF Connected
    <3>2. net' \in SUBSET Message /\ queue' \in [Node -> SUBSET Action]
      BY <2>8, <2>y, <2>d, <3>1, ActTypes DEF Ask
    <3> QED BY <2>8, <3>2 DEF Ask, TypeOK
  <2>9. ASSUME NEW n \in Node, NEW q \in Node, Punch(n, q) PROVE TypeOK'
    <3>1. link' \in [Node -> [Node -> LinkState]]
          /\ silence' \in [Node -> [Node -> 0 .. MaxAge + 1]]
      BY <2>9, <2>l, <2>s, <2>n DEF Punch
    <3>2. queue' \in [Node -> SUBSET Action]
      <4>1. \A S \in SUBSET Action : [queue EXCEPT ![n] = S] \in [Node -> SUBSET Action]
        BY DEF TypeOK
      <4>2. (queue[n] \ {Act("punch", q)}) \cup {Act("verify", q)} \in SUBSET Action
            /\ queue[n] \ {Act("punch", q)} \in SUBSET Action
        BY ActTypes DEF TypeOK
      <4> QED BY <2>9, <4>1, <4>2 DEF Punch
    <3>3. net' \in SUBSET Message
      BY <2>9, <2>x, <2>y DEF Punch, TypeOK
    <3>4. /\ trouble' \in 0 .. MaxTrouble /\ faulty' \in BOOLEAN
          /\ raised' \in SUBSET (Node \X Node)
      <4>1. \/ UNCHANGED history
            \/ Fault /\ raised' = raised \cup {<<n, q>>}
        BY <2>9 DEF Punch
      <4>2. CASE UNCHANGED history
        BY <4>2 DEF TypeOK
      <4>3. CASE Fault /\ raised' = raised \cup {<<n, q>>}
        BY <4>3, <2>f, <2>a
      <4> QED BY <4>1, <4>2, <4>3
    <3> QED BY <2>9, <3>1, <3>2, <3>3, <3>4 DEF Punch, TypeOK
  <2>10. ASSUME NEW n \in Node, NEW q \in Node, Verify(n, q) PROVE TypeOK'
    <3>1. queue' \in [Node -> SUBSET Action]
      BY <2>10, <2>d, ActTypes DEF Verify
    <3>2. link' \in [Node -> [Node -> LinkState]]
      BY <2>10, <2>l, <2>n DEF Verify, TypeOK
    <3> QED BY <2>10, <3>1, <3>2 DEF Verify, TypeOK
  <2>11. ASSUME NEW n \in Node, NEW q \in Node, PingPeer(n, q) PROVE TypeOK'
    <3>1. soon' \in [Node -> [Node -> Nat]]
      BY <2>11 DEF PingPeer, TypeOK
    <3>2. later' \in [Node -> [Node -> Nat]]
      <4>1. later' = later \/ later' = [later EXCEPT ![n][q] = @ + 1]
        BY <2>11 DEF PingPeer
      <4>2. CASE later' = later
        BY <4>2 DEF TypeOK
      <4>3. CASE later' = [later EXCEPT ![n][q] = @ + 1]
        BY <4>3, <2>b
      <4> QED BY <4>1, <4>2, <4>3
    <3>3. {[type |-> "ping", from |-> n, to |-> q, stamp |-> stamp[n]]} \in SUBSET Message
      BY DEF Message, TypeOK
    <3>4. net' \in SUBSET Message
      BY <2>11, <2>y, <3>3 DEF PingPeer, TypeOK
    <3>5. /\ trouble' \in 0 .. MaxTrouble /\ faulty' \in BOOLEAN
          /\ raised' \in SUBSET (Node \X Node)
      <4>1. \/ UNCHANGED history
            \/ Fault /\ raised' = raised \cup {<<n, q>>}
        BY <2>11 DEF PingPeer
      <4>2. CASE UNCHANGED history
        BY <4>2 DEF TypeOK
      <4>3. CASE Fault /\ raised' = raised \cup {<<n, q>>}
        BY <4>3, <2>f, <2>a
      <4> QED BY <4>1, <4>2, <4>3
    <3> QED BY <2>11, <3>1, <3>2, <3>4, <3>5 DEF PingPeer, TypeOK
  <2>12. ASSUME NEW n \in Node, LivenessCheck(n) PROVE TypeOK'
    <3>1. link' \in [Node -> [Node -> LinkState]]
      BY <2>12, <2>n DEF LivenessCheck, TypeOK
    <3>2. silence' \in [Node -> [Node -> 0 .. MaxAge + 1]]
      BY <2>12, <2>n DEF LivenessCheck, TypeOK
    <3>3. clock' \in Nat /\ stamp' \in [Node -> Nat] /\ check' \in [Node -> BOOLEAN]
      BY <2>12, <2>m DEF LivenessCheck, TypeOK
    <3> QED BY <2>12, <3>1, <3>2, <3>3 DEF LivenessCheck, TypeOK
  <2>13. CASE Tick
    <3>1. silence' \in [Node -> [Node -> 0 .. MaxAge + 1]]
      BY <2>13 DEF Tick, TypeOK
    <3>2. later' \in [Node -> [Node -> Nat]]
      BY <2>13 DEF Tick
    <3> QED BY <2>13, <3>1, <3>2 DEF Tick, TypeOK
  <2>14. ASSUME NEW n \in Node, NEW q \in Node, Connect(n, q) PROVE TypeOK'
    <3>1. /\ link' \in [Node -> [Node -> LinkState]] /\ queue' \in [Node -> SUBSET Action]
          /\ silence' \in [Node -> [Node -> 0 .. MaxAge + 1]]
      BY <2>14, <2>l, <2>s, <2>n, <2>e, ActTypes DEF Connect
    <3>2. net' \in SUBSET Message /\ trouble' \in 0 .. MaxTrouble
      BY <2>14, <2>x, <2>y, <2>t DEF Connect
    <3> QED BY <2>14, <3>1, <3>2 DEF Connect, TypeOK
  <2>15. ASSUME NEW n \in Node, Stop(n) PROVE TypeOK'
    <3>1. net' \in SUBSET Message
      BY <2>15, <2>x DEF Stop, Connected, TypeOK
    <3>2. stamp' \in [Node -> Nat] /\ up' \in [Node -> BOOLEAN] /\ check' \in [Node -> BOOLEAN]
      BY <2>15 DEF Stop, TypeOK
    <3>3. soon' \in [Node -> [Node -> Nat]] /\ later' \in [Node -> [Node -> Nat]]
      BY <2>15 DEF Stop, TypeOK
    <3>4. queue' \in [Node -> SUBSET Action]
      BY <2>15 DEF Stop, TypeOK
    <3> QED BY <2>15, <2>t, <3>1, <3>2, <3>3, <3>4 DEF Stop, TypeOK
  <2>16. ASSUME NEW n \in Node, Start(n) PROVE TypeOK'
    <3>1. queue' \in [Node -> SUBSET Action]
      BY <2>16, ActTypes DEF Start, TypeOK
    <3> QED BY <2>16, <3>1 DEF Start, TypeOK
  <2>17. ASSUME NEW m \in net, Lose(m) PROVE TypeOK'
    BY <2>17, <2>f DEF Lose, TypeOK
  <2>18. ASSUME NEW m \in net, Filter(m) PROVE TypeOK'
    <3>1. m.to \in Node /\ m.from \in Node
      BY MessageTypes DEF TypeOK
    <3> QED BY <2>18, <2>f, <2>r, <2>s, <3>1 DEF Filter, TypeOK
  <2>19. CASE UNCHANGED vars
    BY <2>19 DEF vars, TypeOK
  <2> QED
    BY <2>1, <2>2, <2>3, <2>4, <2>5, <2>6, <2>7, <2>8, <2>9, <2>10, <2>11, <2>12, <2>13,
       <2>14, <2>15, <2>16, <2>17, <2>18, <2>19, <2>20 DEF Next, Work, Handle, Queued
<1> QED BY <1>1, <1>2, PTL DEF Spec

-----------------------------------------------------------------------------
\* What is taken from a queue leaves the other actions in it.
LEMMA DoKeeps ==
  ASSUME queue \in [Node -> SUBSET Action], NEW k \in Node, NEW a, Do(k, a)
  PROVE  \A n \in Node : \A x : x # a /\ x \in queue[n] => x \in queue'[n]
BY DEF Do

LEMMA EnqueueKeeps ==
  ASSUME queue \in [Node -> SUBSET Action], NEW k \in Node, NEW a, Enqueue(k, a)
  PROVE  a \in queue'[k] /\ \A n \in Node : \A x : x \in queue[n] => x \in queue'[n]
BY DEF Enqueue

LEMMA ActsDiffer ==
  ASSUME NEW p, NEW q
  PROVE  /\ Act("reply", p) # Act("punch", q) /\ Act("reply", p) # Act("verify", q)
         /\ Act("list", p) # Act("punch", q) /\ Act("list", p) # Act("verify", q)
         /\ Act("ask", p) # Act("punch", q) /\ Act("ask", p) # Act("verify", q)
         /\ Act("punch", p) # Act("verify", q)
         /\ (Act("punch", p) = Act("punch", q) => p = q)
         /\ (Act("verify", p) = Act("verify", q) => p = q)
BY DEF Act

\* A peer that is connected is pinged (app.py:343): no order of HELLOs, hole
\* punches, timers, restarts and lost datagrams leaves it connected without a
\* PING_PEER, unless the send of one raised or a HELLO was handled by what the
\* peer was no more.
THEOREM ConnectedIsPingedHolds == Spec => []ConnectedIsPinged
<1> DEFINE Kept(n, q) == \/ Pinged(n, q) \/ Act("punch", q) \in queue[n]
                         \/ <<n, q>> \in raised \cup outdated
<1>1. Init => ConnectedIsPinged
  <2> SUFFICES ASSUME Init, NEW n \in Node, NEW q \in Node, up[n], link[n][q] = "CONNECTED"
               PROVE  Pinged(n, q)
    BY DEF ConnectedIsPinged
  <2>1. n # q
    BY DEF Init
  <2>2. soon[n][q] = 0 /\ later[n][q] = 1
    BY <2>1 DEF Init
  <2> QED BY <2>2 DEF Pinged
<1>2. TypeOK /\ ConnectedIsPinged /\ [Next]_vars => ConnectedIsPinged'
  <2> SUFFICES ASSUME TypeOK, ConnectedIsPinged, [Next]_vars,
                      NEW n \in Node, NEW q \in Node, up'[n], link'[n][q] = "CONNECTED"
               PROVE  Kept(n, q)'
    BY DEF ConnectedIsPinged
  <2> USE DEF book, updates, timers, history
  <2>t. /\ soon \in [Node -> [Node -> Nat]] /\ later \in [Node -> [Node -> Nat]]
        /\ queue \in [Node -> SUBSET Action] /\ link \in [Node -> [Node -> LinkState]]
    BY DEF TypeOK
  <2>k. up[n] /\ link[n][q] = "CONNECTED" => Kept(n, q)
    BY DEF ConnectedIsPinged
  \* Most steps connect nobody and take away neither PINGs nor hole punches.
  <2>i. ASSUME up[n], link[n][q] = "CONNECTED", soon'[n][q] = soon[n][q],
               later'[n][q] = later[n][q], <<n, q>> \in raised \cup outdated => <<n, q>> \in raised' \cup outdated',
               Act("punch", q) \in queue[n] => Act("punch", q) \in queue'[n]
        PROVE  Kept(n, q)'
    BY <2>i, <2>k DEF Pinged
  <2>1. ASSUME NEW m \in net, OnHello(m) PROVE Kept(n, q)'
    <3>1. UNCHANGED <<up, link, queue, soon, later, raised, outdated>>
      BY <2>1 DEF OnHello
    <3> QED BY <3>1, <2>i
  <2>15. ASSUME NEW k \in Node, NEW p \in Node, Welcome(k, p) PROVE Kept(n, q)'
    <3>1. PICK new \in BOOLEAN : Greets(k, p, new)
      BY <2>15 DEF Welcome
    <3>2. SetLink(k, p, "CONNECTED") /\ UNCHANGED <<up, soon, raised>>
      BY <3>1 DEF Greets
    <3>3. CASE new
      <4>1. /\ Enqueue(k, Act("reply", p)) /\ later' = [later EXCEPT ![k][p] = @ + 1]
            /\ outdated' = outdated \ {<<k, p>>}
        BY <3>1, <3>3 DEF Greets
      <4>2. CASE n = k /\ q = p
        <5>1. later'[n][q] = later[n][q] + 1 /\ soon'[n][q] = soon[n][q]
          BY <3>2, <4>1, <4>2, <2>t
        <5>2. soon'[n][q] + later'[n][q] > 0
          BY <5>1, <2>t
        <5> QED BY <5>2 DEF Pinged
      <4>3. CASE ~(n = k /\ q = p)
        <5>1. link[n][q] = "CONNECTED" /\ later'[n][q] = later[n][q]
          BY <3>2, <4>1, <4>3, <2>t DEF SetLink
        <5>2. <<n, q>> \in raised \cup outdated => <<n, q>> \in raised' \cup outdated'
          BY <3>2, <4>1, <4>3
        <5> QED BY <3>2, <4>1, <5>1, <5>2, <2>i, <2>t, EnqueueKeeps
      <4> QED BY <4>2, <4>3
    <3>4. CASE ~new
      <4>1. /\ UNCHANGED <<queue, later>>
            /\ outdated' = outdated \cup ({<<k, p>>} \ Linked)
        BY <3>1, <3>4 DEF Greets
      <4>2. link[n][q] = "CONNECTED" \/ <<n, q>> \in outdated'
        BY <3>2, <4>1, <2>t DEF SetLink, Linked
      <4>3. <<n, q>> \in raised \cup outdated => <<n, q>> \in raised' \cup outdated'
        BY <3>2, <4>1
      <4> QED BY <3>2, <4>1, <4>2, <4>3, <2>i
    <3> QED BY <3>3, <3>4
  <2>2. ASSUME NEW m \in net, OnPing(m) \/ OnAsk(m) PROVE Kept(n, q)'
    <3>1. m.to \in Node /\ m.from \in Node
      BY MessageTypes DEF TypeOK
    <3>2. /\ UNCHANGED <<up, link, soon, later, raised, outdated>>
          /\ \/ UNCHANGED queue
             \/ Enqueue(m.to, Act("ask", m.to)) \/ Enqueue(m.to, Act("list", m.from))
      BY <2>2 DEF OnPing, OnAsk
    <3>3. Act("punch", q) \in queue[n] => Act("punch", q) \in queue'[n]
      BY <3>1, <3>2, <2>t, EnqueueKeeps
    <3> QED BY <3>2, <3>3, <2>i
  <2>3. ASSUME NEW m \in net, OnGoodbye(m) \/ OnList(m) PROVE Kept(n, q)'
    <3>1. m.to \in Node /\ m.from \in Node
      BY MessageTypes DEF TypeOK
    <3>2. UNCHANGED <<up, queue, soon, later, raised, outdated>>
      BY <2>3 DEF OnGoodbye, OnList
    <3>3. link[n][q] = "CONNECTED"
      <4>1. CASE OnGoodbye(m)
        BY <4>1, <3>1, <2>t DEF OnGoodbye, SetLink
      <4>2. CASE OnList(m)
        BY <4>2, <3>1, <2>t DEF OnList
      <4> QED BY <2>3, <4>1, <4>2
    <3> QED BY <3>2, <3>3, <2>i
  <2>4. ASSUME NEW k \in Node, NEW p \in Node, Reply(k, p) \/ SendList(k, p) \/ Ask(k)
        PROVE  Kept(n, q)'
    <3>1. UNCHANGED <<up, link, soon, later, raised, outdated>>
      BY <2>4 DEF Reply, SendList, Ask
    <3>2. Act("punch", q) \in queue[n] => Act("punch", q) \in queue'[n]
      BY <2>4, <2>t, DoKeeps, ActsDiffer DEF Reply, SendList, Ask
    <3> QED BY <3>1, <3>2, <2>i
  <2>5. ASSUME NEW k \in Node, NEW p \in Node, Punch(k, p) PROVE Kept(n, q)'
    <3>1. /\ SetLink(k, p, "PUNCHING") /\ UNCHANGED <<up, soon, later>>
          /\ raised \subseteq raised' /\ UNCHANGED outdated
      BY <2>5 DEF Punch
    <3>2. ~(n = k /\ q = p) /\ link[n][q] = "CONNECTED"
      BY <3>1, <2>t DEF SetLink
    <3>3. Act("punch", q) \in queue[n] => Act("punch", q) \in queue'[n]
      <4>1. \A x : x # Act("punch", p) /\ x \in queue[k] => x \in queue'[k]
        BY <2>5, <2>t DEF Punch
      <4>2. n # k => queue'[n] = queue[n]
        BY <2>5, <2>t DEF Punch
      <4>3. n = k => Act("punch", q) # Act("punch", p)
        BY <3>2, ActsDiffer
      <4> QED BY <4>1, <4>2, <4>3
    <3> QED BY <3>1, <3>2, <3>3, <2>i
  <2>6. ASSUME NEW k \in Node, NEW p \in Node, Verify(k, p) PROVE Kept(n, q)'
    <3>1. Do(k, Act("verify", p)) /\ UNCHANGED <<up, soon, later, raised, outdated>>
      BY <2>6 DEF Verify
    <3>2. link[n][q] = "CONNECTED"
      <4>1. \/ link' = link
            \/ link' = [link EXCEPT ![k][p] = "UNREACHABLE"]
            \/ link' = [link EXCEPT ![k][p] = "DISCONNECTED"]
        BY <2>6 DEF Verify, SetLink
      <4> QED BY <4>1, <2>t
    <3>3. Act("punch", q) \in queue[n] => Act("punch", q) \in queue'[n]
      <4>1. Act("punch", q) # Act("verify", p)
        BY ActsDiffer
      <4>2. Do(k, Act("verify", p))
        BY <3>1
      <4> QED BY <4>1, <4>2, <2>t, DoKeeps
    <3> QED BY <3>1, <3>2, <3>3, <2>i
  <2>7. ASSUME NEW k \in Node, NEW p \in Node, PingPeer(k, p) PROVE Kept(n, q)'
    <3>1. UNCHANGED <<up, link, queue>> /\ soon' = [soon EXCEPT ![k][p] = @ - 1]
      BY <2>7 DEF PingPeer
    <3>2. /\ raised \subseteq raised' /\ UNCHANGED outdated
          /\ \/ UNCHANGED later
             \/ later' = [later EXCEPT ![k][p] = @ + 1]
      BY <2>7 DEF PingPeer
    <3>3. CASE n = k /\ q = p
      <4>1. \/ later' = [later EXCEPT ![k][p] = @ + 1]
            \/ <<k, p>> \in raised'
        BY <2>7, <3>1, <3>3 DEF PingPeer
      <4>2. CASE later' = [later EXCEPT ![k][p] = @ + 1]
        <5>1. later'[n][q] = later[n][q] + 1 /\ soon'[n][q] = soon[n][q] - 1
          BY <3>1, <3>3, <4>2, <2>t
        <5>2. soon[n][q] > 0
          BY <2>7, <3>3 DEF PingPeer
        <5>3. soon'[n][q] + later'[n][q] > 0
          BY <5>1, <5>2, <2>t
        <5> QED BY <5>3 DEF Pinged
      <4> QED BY <3>3, <4>1, <4>2
    <3>4. CASE ~(n = k /\ q = p)
      <4>1. soon'[n][q] = soon[n][q] /\ later'[n][q] = later[n][q]
        BY <3>1, <3>2, <3>4, <2>t
      <4> QED BY <3>1, <3>2, <4>1, <2>i
    <3> QED BY <3>3, <3>4
  <2>8. ASSUME NEW k \in Node, LivenessCheck(k) PROVE Kept(n, q)'
    <3>1. UNCHANGED <<up, queue, soon, later, raised, outdated>>
      BY <2>8 DEF LivenessCheck
    <3>2. link[n][q] = "CONNECTED"
      BY <2>8, <2>t DEF LivenessCheck
    <3> QED BY <3>1, <3>2, <2>i
  <2>9. CASE Tick
    <3>1. /\ UNCHANGED <<up, link, queue, raised, outdated>> /\ soon[n][q] = 0
          /\ soon'[n][q] = later[n][q] /\ later'[n][q] = 0
      BY <2>9 DEF Tick
    <3>2. Pinged(n, q) => soon'[n][q] + later'[n][q] > 0
      BY <3>1, <2>t DEF Pinged
    <3> QED BY <3>1, <3>2, <2>k DEF Pinged
  <2>10. ASSUME NEW k \in Node, NEW p \in Node, Connect(k, p) PROVE Kept(n, q)'
    <3>1. /\ SetLink(k, p, "PUNCHING") /\ Enqueue(k, Act("verify", p))
          /\ UNCHANGED <<up, soon, later, raised, outdated>>
      BY <2>10 DEF Connect
    <3>2. link[n][q] = "CONNECTED"
      BY <3>1, <2>t DEF SetLink
    <3> QED BY <3>1, <3>2, <2>i, <2>t, EnqueueKeeps
  <2>11. ASSUME NEW k \in Node, Stop(k) PROVE Kept(n, q)'
    <3>1. n # k
      BY <2>11 DEF Stop, TypeOK
    <3>2. /\ up[n] = up'[n] /\ UNCHANGED <<link, raised, outdated>> /\ queue'[n] = queue[n]
          /\ soon'[n] = soon[n] /\ later'[n] = later[n]
      BY <2>11, <3>1, <2>t DEF Stop, TypeOK
    <3> QED BY <3>2, <2>i
  <2>12. ASSUME NEW k \in Node, Start(k) PROVE Kept(n, q)'
    <3>1. UNCHANGED <<link, soon, later, raised, outdated>>
      BY <2>12 DEF Start
    <3>2. CASE n = k
      <4>1. link[n][q] # "absent"
        BY <3>1
      <4>2. Act("punch", q) \in queue'[n]
        BY <2>12, <3>2, <4>1, <2>t DEF Start
      <4> QED BY <4>2
    <3>3. CASE n # k
      <4>1. up[n] /\ queue'[n] = queue[n]
        BY <2>12, <3>3, <2>t DEF Start, TypeOK
      <4> QED BY <3>1, <4>1, <2>i
    <3> QED BY <3>2, <3>3
  <2>13. ASSUME NEW m \in net, Lose(m) \/ Filter(m) PROVE Kept(n, q)'
    <3>1. UNCHANGED <<up, link, queue, soon, later, raised, outdated>>
      BY <2>13 DEF Lose, Filter
    <3> QED BY <3>1, <2>i
  <2>14. CASE UNCHANGED vars
    BY <2>14, <2>i DEF vars
  <2> QED
    BY <2>1, <2>2, <2>3, <2>4, <2>5, <2>6, <2>7, <2>8, <2>9, <2>10, <2>11, <2>12, <2>13,
       <2>14, <2>15 DEF Next, Work, Handle, Queued
<1> QED BY <1>1, <1>2, TypeCorrect, PTL DEF Spec

\* No peer stays PUNCHING (app.py:820): whoever began the punch, a check or
\* another punch is queued, through restarts, unless a send of it raised.
THEOREM PunchingIsCheckedHolds == Spec => []PunchingIsChecked
<1> DEFINE Awaited(n, q) == Act("verify", q) \in queue[n] \/ Act("punch", q) \in queue[n]
           Kept(n, q) == Awaited(n, q) \/ <<n, q>> \in raised
<1>1. Init => PunchingIsChecked
  <2> SUFFICES ASSUME Init, NEW n \in Node, NEW q \in Node, up[n]
               PROVE  link[n][q] # "PUNCHING"
    BY DEF PunchingIsChecked
  <2> QED BY DEF Init
<1>2. TypeOK /\ PunchingIsChecked /\ [Next]_vars => PunchingIsChecked'
  <2> SUFFICES ASSUME TypeOK, PunchingIsChecked, [Next]_vars,
                      NEW n \in Node, NEW q \in Node, up'[n], link'[n][q] = "PUNCHING"
               PROVE  Kept(n, q)'
    BY DEF PunchingIsChecked
  <2> USE DEF book, updates, timers, history
  <2>t. queue \in [Node -> SUBSET Action] /\ link \in [Node -> [Node -> LinkState]]
    BY DEF TypeOK
  <2>k. up[n] /\ link[n][q] = "PUNCHING" => Kept(n, q)
    BY DEF PunchingIsChecked
  \* Most steps begin no punch and take away neither checks nor punches.
  <2>i. ASSUME up[n], link[n][q] = "PUNCHING", raised \subseteq raised',
               Awaited(n, q) => Awaited(n, q)'
        PROVE  Kept(n, q)'
    BY <2>i, <2>k
  <2>1. ASSUME NEW m \in net, OnHello(m) PROVE Kept(n, q)'
    BY <2>1, <2>i DEF OnHello
  <2>15. ASSUME NEW k \in Node, NEW p \in Node, Welcome(k, p) PROVE Kept(n, q)'
    <3>1. PICK new \in BOOLEAN : Greets(k, p, new)
      BY <2>15 DEF Welcome
    <3>2. /\ UNCHANGED <<up, raised>> /\ SetLink(k, p, "CONNECTED")
          /\ UNCHANGED queue \/ Enqueue(k, Act("reply", p))
      BY <3>1 DEF Greets
    <3>3. link[n][q] = "PUNCHING"
      BY <3>2, <2>t DEF SetLink
    <3>4. Awaited(n, q) => Awaited(n, q)'
      BY <3>2, <2>t, EnqueueKeeps
    <3> QED BY <3>2, <3>3, <3>4, <2>i
  <2>2. ASSUME NEW m \in net, OnPing(m) \/ OnAsk(m) PROVE Kept(n, q)'
    <3>1. m.to \in Node /\ m.from \in Node
      BY MessageTypes DEF TypeOK
    <3>2. /\ UNCHANGED <<up, link, raised>>
          /\ \/ UNCHANGED queue
             \/ Enqueue(m.to, Act("ask", m.to)) \/ Enqueue(m.to, Act("list", m.from))
      BY <2>2 DEF OnPing, OnAsk
    <3>3. Awaited(n, q) => Awaited(n, q)'
      BY <3>1, <3>2, <2>t, EnqueueKeeps
    <3> QED BY <3>2, <3>3, <2>i
  <2>3. ASSUME NEW m \in net, OnGoodbye(m) \/ OnList(m) PROVE Kept(n, q)'
    <3>1. m.to \in Node /\ m.from \in Node
      BY MessageTypes DEF TypeOK
    <3>2. UNCHANGED <<up, queue, raised>>
      BY <2>3 DEF OnGoodbye, OnList
    <3>3. link[n][q] = "PUNCHING"
      <4>1. CASE OnGoodbye(m)
        BY <4>1, <3>1, <2>t DEF OnGoodbye, SetLink
      <4>2. CASE OnList(m)
        BY <4>2, <3>1, <2>t DEF OnList
      <4> QED BY <2>3, <4>1, <4>2
    <3> QED BY <3>2, <3>3, <2>i
  <2>4. ASSUME NEW k \in Node, NEW p \in Node, Reply(k, p) \/ SendList(k, p) \/ Ask(k)
        PROVE  Kept(n, q)'
    <3>1. UNCHANGED <<up, link, raised>>
      BY <2>4 DEF Reply, SendList, Ask
    <3>2. Awaited(n, q) => Awaited(n, q)'
      BY <2>4, <2>t, DoKeeps, ActsDiffer DEF Reply, SendList, Ask
    <3> QED BY <3>1, <3>2, <2>i
  <2>5. ASSUME NEW k \in Node, NEW p \in Node, Punch(k, p) PROVE Kept(n, q)'
    <3>1. SetLink(k, p, "PUNCHING") /\ UNCHANGED up /\ raised \subseteq raised'
      BY <2>5 DEF Punch
    <3>2. CASE n = k /\ q = p
      BY <2>5, <3>2, <2>t DEF Punch
    <3>3. CASE ~(n = k /\ q = p)
      <4>1. link[n][q] = "PUNCHING"
        BY <3>1, <3>3, <2>t DEF SetLink
      <4>2. \A x : x # Act("punch", p) /\ x \in queue[k] => x \in queue'[k]
        BY <2>5, <2>t DEF Punch
      <4>3. n # k => queue'[n] = queue[n]
        BY <2>5, <2>t DEF Punch
      <4>4. Act("verify", q) # Act("punch", p) /\ (n = k => Act("punch", q) # Act("punch", p))
        BY <3>3, ActsDiffer
      <4>5. Awaited(n, q) => Awaited(n, q)'
        BY <4>2, <4>3, <4>4
      <4> QED BY <3>1, <4>1, <4>5, <2>i
    <3> QED BY <3>2, <3>3
  <2>6. ASSUME NEW k \in Node, NEW p \in Node, Verify(k, p) PROVE Kept(n, q)'
    <3>1. Do(k, Act("verify", p)) /\ UNCHANGED <<up, raised>>
      BY <2>6 DEF Verify
    <3>2. \/ link[k][p] # "PUNCHING" /\ link' = link
          \/ link' = [link EXCEPT ![k][p] = "UNREACHABLE"]
          \/ link' = [link EXCEPT ![k][p] = "DISCONNECTED"]
      BY <2>6 DEF Verify, SetLink
    <3>3. link[n][q] = "PUNCHING" /\ ~(n = k /\ q = p)
      BY <3>2, <2>t
    <3>4. Awaited(n, q) => Awaited(n, q)'
      <4>1. \A x : x # Act("verify", p) /\ x \in queue[k] => x \in queue'[k]
        BY <3>1, <2>t DEF Do
      <4>2. n # k => queue'[n] = queue[n]
        BY <3>1, <2>t DEF Do
      <4>3. Act("punch", q) # Act("verify", p) /\ (n = k => Act("verify", q) # Act("verify", p))
        BY <3>3, ActsDiffer
      <4> QED BY <4>1, <4>2, <4>3
    <3> QED BY <3>1, <3>3, <3>4, <2>i
  <2>7. ASSUME NEW k \in Node, NEW p \in Node, PingPeer(k, p) PROVE Kept(n, q)'
    <3>1. UNCHANGED <<up, link, queue>> /\ raised \subseteq raised'
      BY <2>7 DEF PingPeer
    <3> QED BY <3>1, <2>i
  <2>8. ASSUME NEW k \in Node, LivenessCheck(k) PROVE Kept(n, q)'
    <3>1. UNCHANGED <<up, queue, raised>>
      BY <2>8 DEF LivenessCheck
    <3>2. link[n][q] = "PUNCHING"
      BY <2>8, <2>t DEF LivenessCheck
    <3> QED BY <3>1, <3>2, <2>i
  <2>9. CASE Tick
    BY <2>9, <2>i DEF Tick
  <2>10. ASSUME NEW k \in Node, NEW p \in Node, Connect(k, p) PROVE Kept(n, q)'
    <3>1. /\ SetLink(k, p, "PUNCHING") /\ Enqueue(k, Act("verify", p))
          /\ UNCHANGED <<up, raised>>
      BY <2>10 DEF Connect
    <3>2. CASE n = k /\ q = p
      BY <3>1, <3>2, <2>t, EnqueueKeeps
    <3>3. CASE ~(n = k /\ q = p)
      <4>1. link[n][q] = "PUNCHING"
        BY <3>1, <3>3, <2>t DEF SetLink
      <4>2. Awaited(n, q) => Awaited(n, q)'
        BY <3>1, <2>t, EnqueueKeeps
      <4> QED BY <3>1, <4>1, <4>2, <2>i
    <3> QED BY <3>2, <3>3
  <2>11. ASSUME NEW k \in Node, Stop(k) PROVE Kept(n, q)'
    <3>1. n # k
      BY <2>11 DEF Stop, TypeOK
    <3>2. up[n] = up'[n] /\ UNCHANGED <<link, raised>> /\ queue'[n] = queue[n]
      BY <2>11, <3>1, <2>t DEF Stop, TypeOK
    <3> QED BY <3>2, <2>i
  <2>12. ASSUME NEW k \in Node, Start(k) PROVE Kept(n, q)'
    <3>1. UNCHANGED <<link, raised>>
      BY <2>12 DEF Start
    <3>2. CASE n = k
      BY <2>12, <3>1, <3>2, <2>t DEF Start
    <3>3. CASE n # k
      <4>1. up[n] /\ queue'[n] = queue[n]
        BY <2>12, <3>3, <2>t DEF Start, TypeOK
      <4> QED BY <3>1, <4>1, <2>i
    <3> QED BY <3>2, <3>3
  <2>13. ASSUME NEW m \in net, Lose(m) \/ Filter(m) PROVE Kept(n, q)'
    <3>1. UNCHANGED <<up, link, queue, raised>>
      BY <2>13 DEF Lose, Filter
    <3> QED BY <3>1, <2>i
  <2>14. CASE UNCHANGED vars
    BY <2>14, <2>i DEF vars
  <2> QED
    BY <2>1, <2>2, <2>3, <2>4, <2>5, <2>6, <2>7, <2>8, <2>9, <2>10, <2>11, <2>12, <2>13,
       <2>14, <2>15 DEF Next, Work, Handle, Queued
<1> QED BY <1>1, <1>2, TypeCorrect, PTL DEF Spec
-----------------------------------------------------------------------------
(* Liveness checks.  Within an interval a peer's silence only ends; that a  *)
(* HELLO was sent, answered or handled in it means that both were heard.   *)

HeardGreeters ==
  /\ \A m \in net : m.type = "hello" => silence[m.from][m.to] = 0
  /\ \A n, q \in Node : Act("reply", q) \in queue[n] => silence[n][q] = 0
  /\ \A n, q \in Node, x \in BOOLEAN :
       <<q, x>> \in hearing[n] => silence[n][q] = 0 /\ silence[q][n] = 0

\* n has heard of q in this interval, or will before the next.
Fresh(n, q) == \/ silence[n][q] = 0 \/ link[n][q] = "absent"
               \/ Act("punch", q) \in queue[n]
               \/ \E m \in net : m.from = q /\ m.to = n

\* A PING_PEER for the next interval means that n hears of q in this one; one
\* for any means that it has in the last.
PingsHeard ==
  /\ \A n, q \in Node : up[n] /\ later[q][n] > 0 => Fresh(n, q)
  /\ \A n, q \in Node : check[n] /\ Pinged(q, n) => silence[n][q] <= 1 \/ link[n][q] = "absent"

DropInv == faulty \/ (HeardGreeters /\ PingsHeard)

LEMMA ReplyActs ==
  ASSUME NEW q
  PROVE  /\ \A p : Act("reply", p) = Act("reply", q) => p = q
         /\ \A p : /\ Act("punch", p) # Act("reply", q) /\ Act("verify", p) # Act("reply", q)
                   /\ Act("list", p) # Act("reply", q) /\ Act("ask", p) # Act("reply", q)
BY DEF Act

LEMMA HelloFields ==
  ASSUME NEW n, NEW q, NEW t
  PROVE  Msg(t, n, q).type = t /\ Msg(t, n, q).from = n /\ Msg(t, n, q).to = q
BY DEF Msg

\* What steps other than those of time, stops and starts do: silence only ends,
\* and who was absent is heard when that ends ...
Quieter == \A n, q \in Node :
  /\ silence'[n][q] \in {0, silence[n][q]}
  /\ link[n][q] = "absent" => silence'[n][q] = 0 \/ link'[n][q] = "absent"

\* ... who greets was heard, and so is whose message is taken ...
QuietNet ==
  /\ \A m \in net' \ net : m.type = "hello" => silence'[m.from][m.to] = 0
  /\ \A m \in net \ net' : silence'[m.to][m.from] = 0
QuietHearing ==
  \A n, q \in Node, x \in BOOLEAN : <<q, x>> \in hearing'[n] =>
    <<q, x>> \in hearing[n] \/ (silence'[n][q] = 0 /\ silence'[q][n] = 0)

\* ... whoever is answered or punched was heard ...
QuietQueues == \A n, q \in Node :
  /\ Act("reply", q) \in queue'[n] => Act("reply", q) \in queue[n] \/ silence'[n][q] = 0
  /\ Act("punch", q) \in queue[n] => Act("punch", q) \in queue'[n] \/ silence'[n][q] = 0

\* ... and only who greets or is pinged becomes a peer to ping.
QuietPings ==
  /\ \A n, q \in Node : later'[q][n] > 0 =>
       later[q][n] > 0 \/ silence'[n][q] = 0 \/ (up[n] => \E m \in net' : m.from = q /\ m.to = n)
  /\ \A n, q \in Node : Pinged(q, n)' => Pinged(q, n) \/ silence'[n][q] = 0

LEMMA QuietStep ==
  ASSUME TypeOK, HeardGreeters, PingsHeard, up' = up, \A n \in Node : check'[n] => check[n],
         Quieter, QuietNet, QuietHearing, QuietQueues, QuietPings
  PROVE  (HeardGreeters /\ PingsHeard)'
<1>t. /\ silence \in [Node -> [Node -> 0 .. MaxAge + 1]] /\ net \subseteq Message
      /\ MaxAge \in Nat
  BY PeersAssumption DEF TypeOK
<1>m. \A m \in net : m.from \in Node /\ m.to \in Node
  BY <1>t, MessageTypes
<1>1. HeardGreeters'
  <2>1. \A m \in net' : m.type = "hello" => silence'[m.from][m.to] = 0
    BY <1>m DEF HeardGreeters, Quieter, QuietNet
  <2>2. \A n, q \in Node : Act("reply", q) \in queue'[n] => silence'[n][q] = 0
    BY DEF HeardGreeters, Quieter, QuietQueues
  <2>3. \A n, q \in Node, x \in BOOLEAN :
          <<q, x>> \in hearing'[n] => silence'[n][q] = 0 /\ silence'[q][n] = 0
    BY DEF HeardGreeters, Quieter, QuietHearing
  <2> QED BY <2>1, <2>2, <2>3 DEF HeardGreeters
<1>2. ASSUME NEW n \in Node, NEW q \in Node, up'[n], later'[q][n] > 0
      PROVE  Fresh(n, q)'
  <2>1. CASE later[q][n] > 0
    <3>1. Fresh(n, q)
      BY <1>2, <2>1 DEF PingsHeard
    <3>2. CASE \E m \in net : m.from = q /\ m.to = n
      BY <3>2 DEF Fresh, QuietNet
    <3>3. CASE silence[n][q] = 0 \/ link[n][q] = "absent" \/ Act("punch", q) \in queue[n]
      BY <3>3 DEF Fresh, Quieter, QuietQueues
    <3> QED BY <3>1, <3>2, <3>3 DEF Fresh
  <2>2. CASE ~(later[q][n] > 0)
    BY <1>2, <2>2 DEF Fresh, QuietPings
  <2> QED BY <2>1, <2>2
<1>3. ASSUME NEW n \in Node, NEW q \in Node, check'[n], Pinged(q, n)'
      PROVE  silence'[n][q] <= 1 \/ link'[n][q] = "absent"
  <2>1. silence'[n][q] = 0 => silence'[n][q] <= 1
    OBVIOUS
  <2>2. silence[n][q] <= 1 => silence'[n][q] <= 1
    BY DEF Quieter
  <2>3. Pinged(q, n) \/ silence'[n][q] = 0
    BY <1>3 DEF QuietPings
  <2>4. Pinged(q, n) => silence[n][q] <= 1 \/ link[n][q] = "absent"
    BY <1>3 DEF PingsHeard
  <2> QED BY <2>1, <2>2, <2>3, <2>4 DEF Quieter
<1> QED BY <1>1, <1>2, <1>3 DEF PingsHeard

LEMMA FaultyStays == faulty /\ [Next]_vars => faulty'
<1> SUFFICES ASSUME faulty, Next PROVE faulty'
  BY DEF vars, history
<1> USE DEF history
<1>1. ASSUME NEW m \in net, Handle(m) PROVE faulty'
  BY <1>1 DEF Handle, OnHello, OnPing, OnGoodbye, OnAsk, OnList
<1>2. ASSUME NEW n \in Node, NEW q \in Node, Welcome(n, q) PROVE faulty'
  BY <1>2 DEF Welcome, Greets
<1>3. ASSUME NEW n \in Node, NEW q \in Node, Queued(n, q) PROVE faulty'
  <2>1. CASE Reply(n, q) \/ SendList(n, q) \/ Verify(n, q)
    BY <2>1 DEF Reply, SendList, Verify
  <2>2. CASE Punch(n, q)
    BY <2>2 DEF Punch, Fault
  <2>3. CASE PingPeer(n, q)
    BY <2>3 DEF PingPeer, Fault
  <2> QED BY <1>3, <2>1, <2>2, <2>3 DEF Queued
<1>4. ASSUME NEW n \in Node, NEW q \in Node,
             Ask(n) \/ LivenessCheck(n) \/ Tick \/ Connect(n, q) \/ Stop(n) \/ Start(n)
      PROVE  faulty'
  BY <1>4 DEF Ask, LivenessCheck, Tick, Connect, Stop, Start
<1>5. ASSUME NEW m \in net, Lose(m) \/ Filter(m) PROVE faulty'
  BY <1>5 DEF Lose, Filter, Fault
<1>6. CASE Tick
  BY <1>6 DEF Tick
<1>7. ASSUME NEW n \in Node, Ask(n) \/ LivenessCheck(n) \/ Stop(n) \/ Start(n) PROVE faulty'
  BY <1>4, <1>7
<1> QED BY <1>1, <1>2, <1>3, <1>4, <1>5, <1>6, <1>7 DEF Next, Work

LEMMA CheckEnds ==
  ASSUME Next, NEW n \in Node, check[n], ~check'[n], up'[n], TypeOK
  PROVE  LivenessCheck(n)
<1>t. check \in [Node -> BOOLEAN] /\ up \in [Node -> BOOLEAN]
  BY DEF TypeOK
<1> USE DEF timers
<1>1. ASSUME NEW m \in net, Handle(m) PROVE FALSE
  BY <1>1 DEF Handle, OnHello, OnPing, OnGoodbye, OnAsk, OnList
<1>2. ASSUME NEW k \in Node, NEW q \in Node, Welcome(k, q) \/ Queued(k, q) \/ Connect(k, q)
      PROVE  FALSE
  BY <1>2 DEF Welcome, Greets, Queued, Reply, SendList, Punch, Verify, PingPeer, Connect
<1>3. ASSUME NEW k \in Node, Ask(k) \/ Start(k) PROVE FALSE
  BY <1>3 DEF Ask, Start
<1>4. ASSUME NEW k \in Node, LivenessCheck(k) PROVE LivenessCheck(n)
  <2>1. k = n
    BY <1>4, <1>t DEF LivenessCheck
  <2> QED BY <1>4, <2>1
<1>5. ASSUME NEW k \in Node, Stop(k) PROVE FALSE
  BY <1>5, <1>t DEF Stop
<1>6. CASE Tick
  BY <1>6 DEF Tick
<1>7. ASSUME NEW m \in net, Lose(m) \/ Filter(m) PROVE FALSE
  BY <1>7 DEF Lose, Filter
<1> QED BY <1>1, <1>2, <1>3, <1>4, <1>5, <1>6, <1>7 DEF Next, Work

LEMMA DropStep == TypeOK /\ DropInv /\ [Next]_vars => DropInv'
<1> SUFFICES ASSUME TypeOK, HeardGreeters, PingsHeard, ~faulty', [Next]_vars
             PROVE  (HeardGreeters /\ PingsHeard)'
  BY FaultyStays DEF DropInv
<1> USE DEF book, updates, timers, history
<1>t. /\ silence \in [Node -> [Node -> 0 .. MaxAge + 1]] /\ net \subseteq Message
      /\ link \in [Node -> [Node -> LinkState]] /\ queue \in [Node -> SUBSET Action]
      /\ soon \in [Node -> [Node -> Nat]] /\ later \in [Node -> [Node -> Nat]]
      /\ hearing \in [Node -> SUBSET (Node \X BOOLEAN)] /\ check \in [Node -> BOOLEAN]
      /\ up \in [Node -> BOOLEAN] /\ MaxAge \in Nat
  BY PeersAssumption DEF TypeOK
<1>m. \A m \in net : m.from \in Node /\ m.to \in Node
  BY <1>t, MessageTypes
<1>s. ASSUME NEW n \in Node, NEW q \in Node, Seen(n, q)
      PROVE  /\ silence'[n][q] = 0
             /\ \A k, p \in Node : silence'[k][p] \in {0, silence[k][p]}
  BY <1>s, <1>t DEF Seen
<1>l. ASSUME NEW n \in Node, NEW q \in Node, NEW s, SetLink(n, q, s)
      PROVE  \A k, p \in Node : link'[k][p] = link[k][p] \/ (k = n /\ p = q)
  BY <1>l, <1>t DEF SetLink
<1>e. ASSUME NEW n \in Node, NEW a, Enqueue(n, a)
      PROVE  \A k \in Node : queue'[k] = queue[k] \/ (k = n /\ queue'[k] = queue[k] \cup {a})
  BY <1>e, <1>t DEF Enqueue
<1>d. ASSUME NEW n \in Node, NEW a, Do(n, a)
      PROVE  /\ a \in queue[n]
             /\ \A k \in Node : queue'[k] = queue[k] \/ (k = n /\ queue'[k] = queue[k] \ {a})
  BY <1>d, <1>t DEF Do
<1>n. ASSUME NEW m \in net, Receive(m), \A k, p \in Node : silence'[k][p] \in {0, silence[k][p]},
             silence'[m.to][m.from] = 0
      PROVE  QuietNet
  BY <1>n DEF Receive, QuietNet
<1>p. soon' = soon /\ later' = later => QuietPings
  BY DEF Pinged, QuietPings
<1>q. queue' = queue => QuietQueues
  BY DEF QuietQueues
<1>h. hearing' = hearing => QuietHearing
  BY DEF QuietHearing
<1>a. check' = check => \A n \in Node : check'[n] => check[n]
  OBVIOUS
<1>1. ASSUME NEW m \in net, OnHello(m) PROVE (HeardGreeters /\ PingsHeard)'
  <2>1. m.to \in Node /\ m.from \in Node /\ Seen(m.to, m.from) /\ Receive(m) /\ m.type = "hello"
    BY <1>1, <1>m DEF OnHello
  <2>2. /\ silence'[m.to][m.from] = 0 /\ Quieter
        /\ silence'[m.from][m.to] = 0
    BY <1>1, <2>1, <1>s DEF OnHello, HeardGreeters, Quieter
  <2>3. PICK y : hearing' = [hearing EXCEPT ![m.to] = {<<m.from, y>>}]
    BY <1>1 DEF OnHello
  <2>5. QuietHearing
    <3> SUFFICES ASSUME NEW n \in Node, NEW q \in Node, NEW x \in BOOLEAN,
                        <<q, x>> \in hearing'[n], <<q, x>> \notin hearing[n]
                 PROVE  n = m.to /\ q = m.from
      BY <2>2 DEF QuietHearing
    <3>1. n = m.to
      BY <2>3, <1>t
    <3>2. <<q, x>> = <<m.from, y>>
      BY <2>3, <3>1, <1>t
    <3> QED BY <3>1, <3>2
  <2>4. up' = up /\ queue' = queue /\ soon' = soon /\ later' = later /\ check' = check
    BY <1>1 DEF OnHello
  <2>6. QuietNet
    BY <2>1, <2>2, <1>n DEF Quieter
  <2> QED BY <2>2, <2>4, <2>5, <2>6, <1>a, <1>p, <1>q, QuietStep
<1>2. ASSUME NEW m \in net, OnPing(m) \/ OnAsk(m) PROVE (HeardGreeters /\ PingsHeard)'
  <2>1. m.to \in Node /\ m.from \in Node /\ Seen(m.to, m.from) /\ Receive(m)
    BY <1>2, <1>m DEF OnPing, OnAsk
  <2>2. /\ up' = up /\ link' = link /\ hearing' = hearing
        /\ soon' = soon /\ later' = later /\ check' = check
    BY <1>2 DEF OnPing, OnAsk
  <2>3. silence'[m.to][m.from] = 0 /\ Quieter
    BY <2>1, <2>2, <1>s DEF Quieter
  <2>4. \A k \in Node : \/ queue'[k] = queue[k]
                        \/ queue'[k] = queue[k] \cup {Act("ask", m.to)}
                        \/ queue'[k] = queue[k] \cup {Act("list", m.from)}
    BY <1>2, <2>1, <1>e DEF OnPing, OnAsk
  <2>5. QuietQueues
    BY <2>4, ReplyActs DEF QuietQueues
  <2>6. QuietNet
    BY <2>1, <2>3, <1>n DEF Quieter
  <2> QED BY <2>2, <2>3, <2>5, <2>6, <1>a, <1>h, <1>p, QuietStep
<1>3. ASSUME NEW m \in net, OnGoodbye(m) \/ OnList(m) PROVE (HeardGreeters /\ PingsHeard)'
  <2>1. m.to \in Node /\ m.from \in Node /\ Receive(m)
    BY <1>3, <1>m DEF OnGoodbye, OnList
  <2>2. /\ up' = up /\ queue' = queue /\ hearing' = hearing
        /\ soon' = soon /\ later' = later /\ check' = check
    BY <1>3 DEF OnGoodbye, OnList
  <2>3. silence'[m.to][m.from] = 0 /\ Quieter
    <3>1. CASE OnGoodbye(m)
      <4>1. Seen(m.to, m.from) /\ SetLink(m.to, m.from, "DISCONNECTED")
        BY <3>1 DEF OnGoodbye
      <4> QED BY <4>1, <2>1, <1>s, <1>l DEF Quieter
    <3>2. CASE OnList(m)
      BY <3>2, <2>1, <1>t DEF OnList, Quieter
    <3> QED BY <1>3, <3>1, <3>2
  <2>4. QuietNet
    BY <2>1, <2>3, <1>n DEF Quieter
  <2> QED BY <2>2, <2>3, <2>4, <1>a, <1>h, <1>p, <1>q, QuietStep
<1>4. ASSUME NEW k \in Node, NEW p \in Node, Welcome(k, p) PROVE (HeardGreeters /\ PingsHeard)'
  <2>1. PICK new \in BOOLEAN : <<p, new>> \in hearing[k] /\ Greets(k, p, new)
    BY <1>4 DEF Welcome
  <2>2. silence[k][p] = 0 /\ silence[p][k] = 0
    BY <2>1 DEF HeardGreeters
  <2>3. /\ up' = up /\ silence' = silence /\ net' = net /\ soon' = soon /\ check' = check
        /\ SetLink(k, p, "CONNECTED")
    BY <2>1 DEF Greets
  <2>4. Quieter
    BY <2>2, <2>3, <1>l DEF Quieter
  <2>5. \A n \in Node : \/ queue'[n] = queue[n]
                        \/ n = k /\ queue'[n] = queue[n] \cup {Act("reply", p)}
    BY <2>1, <1>e DEF Greets
  <2>6. QuietQueues
    BY <2>2, <2>3, <2>5, ReplyActs DEF QuietQueues
  <2>7. \A n, q \in Node : later'[q][n] = later[q][n] \/ (q = k /\ n = p)
    BY <2>1, <1>t DEF Greets
  <2>8. QuietPings
    BY <2>2, <2>3, <2>7 DEF Pinged, QuietPings
  <2>9. QuietHearing
    BY <2>1, <1>t DEF Greets, QuietHearing
  <2>10. QuietNet
    BY <2>3 DEF QuietNet
  <2> QED BY <2>3, <2>4, <2>6, <2>8, <2>9, <2>10, <1>a, QuietStep
<1>5. ASSUME NEW k \in Node, NEW p \in Node, Reply(k, p) \/ SendList(k, p) \/ Ask(k)
      PROVE  (HeardGreeters /\ PingsHeard)'
  <2>1. /\ up' = up /\ link' = link /\ silence' = silence /\ hearing' = hearing
        /\ soon' = soon /\ later' = later /\ check' = check /\ net \subseteq net'
    BY <1>5 DEF Reply, SendList, Ask, Send
  <2>2. Quieter
    BY <2>1 DEF Quieter
  <2>3. \A m \in net' \ net : m.type = "hello" => silence'[m.from][m.to] = 0
    <3>1. CASE Reply(k, p)
      <4>1. silence[k][p] = 0
        BY <3>1, <1>d DEF Reply, HeardGreeters
      <4>2. net' \subseteq net \cup {Msg("hello", k, p)}
        BY <3>1 DEF Reply, Send
      <4> QED BY <2>1, <4>1, <4>2, HelloFields
    <3>2. CASE SendList(k, p)
      BY <3>2 DEF SendList, Send
    <3>3. CASE Ask(k)
      BY <3>3, HelloFields DEF Ask, Send
    <3> QED BY <1>5, <3>1, <3>2, <3>3
  <2>4. QuietQueues
    <3>1. Do(k, Act("reply", p)) \/ Do(k, Act("list", p)) \/ Do(k, Act("ask", k))
      BY <1>5 DEF Reply, SendList, Ask
    <3> QED BY <3>1, <1>d, ActsDiffer DEF QuietQueues
  <2>5. QuietNet
    BY <2>1, <2>3 DEF QuietNet
  <2> QED BY <2>1, <2>2, <2>4, <2>5, <1>a, <1>h, <1>p, QuietStep
<1>6. ASSUME NEW k \in Node, NEW p \in Node, Punch(k, p) \/ Connect(k, p)
      PROVE  (HeardGreeters /\ PingsHeard)'
  <2>1. /\ Seen(k, p) /\ SetLink(k, p, "PUNCHING") /\ Send({Msg("hello", k, p)})
        /\ up' = up /\ hearing' = hearing /\ soon' = soon /\ later' = later /\ check' = check
    BY <1>6 DEF Punch, Connect, Fault
  <2>2. silence'[k][p] = 0 /\ Quieter
    BY <2>1, <1>s, <1>l DEF Quieter
  <2>3. QuietNet
    BY <2>1, <2>2, HelloFields DEF Send, QuietNet
  <2>4. \A n \in Node : \/ queue'[n] = queue[n]
                        \/ n = k /\ queue'[n] = (queue[n] \ {Act("punch", p)}) \cup {Act("verify", p)}
                        \/ n = k /\ queue'[n] = queue[n] \cup {Act("verify", p)}
    BY <1>6, <1>t DEF Punch, Connect, Fault, Enqueue
  <2>5. QuietQueues
    BY <2>2, <2>4, ActsDiffer, ReplyActs DEF QuietQueues
  <2> QED BY <2>1, <2>2, <2>3, <2>5, <1>a, <1>h, <1>p, QuietStep
<1>7. ASSUME NEW k \in Node, NEW p \in Node, Verify(k, p) PROVE (HeardGreeters /\ PingsHeard)'
  <2>1. /\ up' = up /\ silence' = silence /\ hearing' = hearing /\ net' = net
        /\ soon' = soon /\ later' = later /\ check' = check /\ Do(k, Act("verify", p))
    BY <1>7 DEF Verify
  <2>2. Quieter
    <3>1. \A n, q \in Node : link[n][q] = "absent" => link'[n][q] = "absent"
      <4>1. CASE link[k][p] = "PUNCHING"
        <5>1. PICK s \in {"DISCONNECTED", "UNREACHABLE"} : SetLink(k, p, s)
          BY <1>7, <4>1 DEF Verify
        <5> QED BY <4>1, <5>1, <1>l
      <4>2. CASE link[k][p] # "PUNCHING"
        BY <1>7, <4>2 DEF Verify
      <4> QED BY <4>1, <4>2
    <3> QED BY <2>1, <3>1 DEF Quieter
  <2>3. QuietQueues
    BY <2>1, <1>d, ActsDiffer, ReplyActs DEF QuietQueues
  <2>4. QuietNet
    BY <2>1 DEF QuietNet
  <2> QED BY <2>1, <2>2, <2>3, <2>4, <1>a, <1>h, <1>p, QuietStep
<1>8. ASSUME NEW k \in Node, NEW p \in Node, PingPeer(k, p) PROVE (HeardGreeters /\ PingsHeard)'
  <2>1. /\ up' = up /\ link' = link /\ silence' = silence /\ hearing' = hearing
        /\ queue' = queue /\ check' = check /\ soon[k][p] > 0
        /\ soon' = [soon EXCEPT ![k][p] = @ - 1]
    BY <1>8 DEF PingPeer
  <2>2. Quieter
    BY <2>1 DEF Quieter
  <2>3. \/ UNCHANGED <<net, later>>
        \/ /\ Send({[type |-> "ping", from |-> k, to |-> p, stamp |-> stamp[k]]})
           /\ later' = [later EXCEPT ![k][p] = @ + 1]
    BY <1>8 DEF PingPeer
  <2>4. /\ net \subseteq net' /\ \A m \in net' \ net : m.type # "hello"
        /\ \A n, q \in Node : later'[q][n] > 0 =>
             later[q][n] > 0 \/ (up[n] => \E m \in net' : m.from = q /\ m.to = n)
    <3>1. CASE UNCHANGED <<net, later>>
      BY <3>1
    <3>2. CASE /\ Send({[type |-> "ping", from |-> k, to |-> p, stamp |-> stamp[k]]})
               /\ later' = [later EXCEPT ![k][p] = @ + 1]
      <4> DEFINE ping == [type |-> "ping", from |-> k, to |-> p, stamp |-> stamp[k]]
      <4>1. net \subseteq net' /\ \A m \in net' \ net : m.type # "hello"
        BY <3>2 DEF Send
      <4>2. \A n, q \in Node : later'[q][n] = later[q][n] \/ (q = k /\ n = p)
        BY <3>2, <1>t
      <4>3. up[p] => ping \in net' /\ ping.from = k /\ ping.to = p
        BY <3>2 DEF Send
      <4> HIDE DEF ping
      <4> QED BY <4>1, <4>2, <4>3
    <3> QED BY <2>3, <3>1, <3>2
  <2>5. \A n, q \in Node : Pinged(q, n)' => Pinged(q, n)
    <3> SUFFICES ASSUME NEW n \in Node, NEW q \in Node, ~(q = k /\ n = p)
                 PROVE  Pinged(q, n)' => Pinged(q, n)
      BY <2>1, <1>t DEF Pinged
    <3>1. soon'[q][n] = soon[q][n] /\ later'[q][n] = later[q][n]
      BY <2>1, <2>3, <1>t
    <3> QED BY <3>1 DEF Pinged
  <2>6. QuietNet /\ QuietPings
    BY <2>4, <2>5 DEF QuietNet, QuietPings
  <2> QED BY <2>1, <2>2, <2>6, <1>a, <1>h, <1>q, QuietStep
<1>9. ASSUME NEW k \in Node, LivenessCheck(k) PROVE (HeardGreeters /\ PingsHeard)'
  <2>1. /\ up' = up /\ queue' = queue /\ soon' = soon /\ later' = later
        /\ net' = net /\ hearing' = hearing /\ \A n \in Node : check'[n] => check[n]
    BY <1>9, <1>t DEF LivenessCheck
  <2>2. Quieter
    BY <1>9, <1>t DEF LivenessCheck, Dead, Connected, Quieter
  <2>3. QuietNet
    BY <2>1 DEF QuietNet
  <2> QED BY <2>1, <2>2, <2>3, <1>h, <1>p, <1>q, QuietStep
<1>10. CASE Tick
  <2>1. /\ net = {} /\ UNCHANGED <<up, link, net, queue, hearing>> /\ check' = up /\ soon' = later
        /\ \A n \in Node : queue[n] = {} /\ hearing[n] = {}
        /\ \A n, q \in Node : later'[n][q] = 0
    BY <1>10 DEF Tick
  <2>2. HeardGreeters'
    BY <2>1 DEF HeardGreeters
  <2>3. ASSUME NEW n \in Node, NEW q \in Node, check'[n], Pinged(q, n)'
        PROVE  silence'[n][q] <= 1 \/ link'[n][q] = "absent"
    <3>1. up[n] /\ later[q][n] > 0
      BY <2>1, <2>3, <1>t DEF Pinged
    <3>2. silence[n][q] = 0 \/ link[n][q] = "absent"
      BY <2>1, <3>1 DEF PingsHeard, Fresh
    <3>3. silence[n][q] = 0 => silence'[n][q] = 1
      BY <1>10, <1>t DEF Tick
    <3> QED BY <2>1, <3>2, <3>3
  <2> QED BY <2>1, <2>2, <2>3 DEF PingsHeard
<1>11. ASSUME NEW k \in Node, Stop(k) PROVE (HeardGreeters /\ PingsHeard)'
  <2>1. /\ UNCHANGED <<link, silence>>
        /\ \A n \in Node : /\ n = k \/ (up'[n] = up[n] /\ check'[n] = check[n])
                           /\ queue'[n] \subseteq queue[n] /\ hearing'[n] \subseteq hearing[n]
                           /\ n # k => queue'[n] = queue[n]
        /\ ~up'[k] /\ ~check'[k]
        /\ \A n, q \in Node : IF q = k THEN soon'[q][n] = 0 /\ later'[q][n] = 0
                              ELSE soon'[q][n] = soon[q][n] /\ later'[q][n] = later[q][n]
    BY <1>11, <1>t DEF Stop
  <2>2. /\ \A m \in net' : m.type = "hello" => m \in net
        /\ \A m \in net : m.to # k => m \in net'
    BY <1>11, HelloFields DEF Stop
  <2>3. HeardGreeters'
    BY <2>1, <2>2 DEF HeardGreeters
  <2>4. ASSUME NEW n \in Node, NEW q \in Node, up'[n], later'[q][n] > 0 PROVE Fresh(n, q)'
    <3>1. n # k /\ q # k
      BY <2>1, <2>4
    <3>2. up[n] /\ later[q][n] > 0
      BY <2>1, <2>4, <3>1
    <3>3. Fresh(n, q)
      BY <3>2 DEF PingsHeard
    <3>4. (\E m \in net : m.from = q /\ m.to = n) => \E m \in net' : m.from = q /\ m.to = n
      BY <2>2, <3>1
    <3>5. silence' = silence /\ link' = link /\ queue'[n] = queue[n]
      BY <2>1, <3>1
    <3> QED BY <3>3, <3>4, <3>5 DEF Fresh
  <2>5. ASSUME NEW n \in Node, NEW q \in Node, check'[n], Pinged(q, n)'
        PROVE  silence'[n][q] <= 1 \/ link'[n][q] = "absent"
    BY <2>1, <2>5, <1>t DEF PingsHeard, Pinged
  <2> QED BY <2>3, <2>4, <2>5 DEF PingsHeard
<1>12. ASSUME NEW k \in Node, Start(k) PROVE (HeardGreeters /\ PingsHeard)'
  <2>1. /\ UNCHANGED <<link, silence, net, hearing, soon, later, check>>
        /\ \A n \in Node : n # k => up'[n] = up[n] /\ queue'[n] = queue[n]
        /\ queue'[k] = {Act("ask", k)} \cup {Act("punch", q) : q \in {p \in Node : link[k][p] # "absent"}}
    BY <1>12, <1>t DEF Start
  <2>2. \A q \in Node : Act("reply", q) \notin queue'[k]
    BY <2>1, ReplyActs
  <2>3. HeardGreeters'
    BY <2>1, <2>2 DEF HeardGreeters
  <2>4. ASSUME NEW n \in Node, NEW q \in Node, up'[n], later'[q][n] > 0 PROVE Fresh(n, q)'
    BY <2>1, <2>4 DEF PingsHeard, Fresh
  <2>5. \A n, q \in Node : Pinged(q, n)' => Pinged(q, n)
    BY <2>1 DEF Pinged
  <2> QED BY <2>1, <2>3, <2>4, <2>5 DEF PingsHeard
<1>13. ASSUME NEW m \in net, Lose(m) \/ Filter(m) PROVE (HeardGreeters /\ PingsHeard)'
  BY <1>13 DEF Lose, Filter, Fault
<1>14. CASE UNCHANGED vars
  BY <1>14 DEF vars, HeardGreeters, PingsHeard, Fresh, Pinged
<1> QED
  BY <1>1, <1>2, <1>3, <1>4, <1>5, <1>6, <1>7, <1>8, <1>9, <1>10, <1>11, <1>12, <1>13, <1>14
     DEF Next, Work, Handle, Queued

\* A liveness check drops no peer that keeps pinging (app.py:939), for every
\* number of nodes and every timeout of at least one interval, if nothing is
\* lost and no send raises.
THEOREM DropIsDeservedHolds == ASSUME MaxAge > 0 PROVE Spec => DropIsDeserved
<1>1. Init => DropInv
  BY DEF Init, DropInv, HeardGreeters, PingsHeard, Fresh
<1>2. ASSUME TypeOK, DropInv, [Next]_vars,
             NEW n \in Node, NEW q \in Node, check[n], ~check'[n], up'[n],
             link[n][q] = "CONNECTED", link'[n][q] # "CONNECTED", Pinged(q, n)
      PROVE  faulty
  <2>t. /\ MaxAge \in Nat /\ link \in [Node -> [Node -> LinkState]]
        /\ silence \in [Node -> [Node -> 0 .. MaxAge + 1]]
    BY <1>2, PeersAssumption DEF TypeOK
  <2>1. LivenessCheck(n)
    BY <1>2, CheckEnds DEF vars, timers
  <2>2. silence[n][q] > MaxAge
    BY <1>2, <2>1, <2>t DEF LivenessCheck, Dead
  <2>3. ~(silence[n][q] <= 1)
    BY <2>2, <2>t
  <2> QED BY <1>2, <2>3 DEF DropInv, PingsHeard
<1>3. TypeOK /\ DropInv /\ [Next]_vars =>
        [\A n, q \in Node :
           check[n] /\ ~check'[n] /\ up'[n] /\ link[n][q] = "CONNECTED" /\ link'[n][q] # "CONNECTED"
             => ~Pinged(q, n) \/ faulty]_vars
  BY <1>2
<1> QED BY <1>1, <1>3, DropStep, TypeCorrect, PTL DEF Spec, DropIsDeserved
=============================================================================
