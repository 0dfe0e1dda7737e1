------------------------------- MODULE Peers -------------------------------
(***************************************************************************)
(* Connections between nodes (the handlers of HELLO, PING, GOODBYE and of  *)
(* peer lists in src/Server/app.py, the states of peer_book.py): punching, *)
(* keepalives, liveness checks, stops and restarts, without LAN broadcast. *)
(* Time passes in keepalive intervals (30 s).  All that takes seconds      *)
(* (datagrams, replies, the check of a hole punch) is over before the next *)
(* interval begins.                                                        *)
(***************************************************************************)
EXTENDS Integers, FiniteSets

CONSTANTS Node,
          Newest,       \* the node that was connected last
          Gone,         \* the nodes that may have crashed since
          MaxAge,       \* config.peer_timeout, in intervals
          MaxTrouble    \* bound: connections made by users, stops, crashes,
                        \* losses and sends that raise; an outage of Gone is one

ASSUME PeersAssumption ==
  /\ IsFiniteSet(Node) /\ Newest \in Node /\ Gone \subseteq Node /\ MaxAge \in Nat
  /\ MaxTrouble \in Nat

VARIABLES
  up,        \* the node runs
  link,      \* peers.state; "absent": no row
  silence,   \* intervals since peers.last_seen
  clock,     \* time.time(), as far as updates are told apart
  stamp,     \* last_peer_update
  queue,     \* queued actions that are due within the interval
  soon,      \* PING_PEER actions for each peer that are due in this interval
  later,     \* and those that are due in the next
  check,     \* whether LIVENESS_CHECK is still to run in this interval
  hearing,   \* the HELLO that the receive thread is handling: the peer, and
             \* whether it was found unconnected
  net,       \* datagrams
  trouble,   \* history: counter for the bound
  faulty,    \* history: a datagram was lost or a send raised
  raised,    \* history: where a send to the peer raised
  outdated   \* history: where a HELLO connected a peer that it had found connected
             \* and that was no more

book == <<link, silence>>
timers == <<queue, soon, later, check>>
history == <<trouble, faulty, raised, outdated>>
updates == <<clock, stamp>>
vars == <<up, book, updates, timers, hearing, net, history>>

LinkState == {"absent", "DISCONNECTED", "PUNCHING", "CONNECTED", "UNREACHABLE"}
Action == [type : {"reply", "list", "punch", "verify", "ask"}, peer : Node]
Message == [type : {"hello", "goodbye", "ask"}, from : Node, to : Node]
           \cup [type : {"ping"}, from : Node, to : Node, stamp : Nat]
           \cup [type : {"list"}, from : Node, to : Node, peers : SUBSET Node]

\* Everybody is connected with everybody else, except that some have crashed,
\* perhaps while users connected them anew.
Init ==
  /\ up \in {f \in [Node -> BOOLEAN] : \A n \in Node \ Gone : f[n]}
  /\ trouble = (IF \A n \in Node : up[n] THEN 0 ELSE 1) /\ trouble <= MaxTrouble
  /\ \E s \in {"CONNECTED", "PUNCHING"} :
       link = [n \in Node |-> [q \in Node |->
         IF q = n THEN "absent" ELSE IF up[n] THEN "CONNECTED" ELSE s]]
  /\ silence = [n \in Node |-> [q \in Node |-> 0]]
  /\ clock = 2
  /\ stamp = [n \in Node |-> IF ~up[n] THEN 0 ELSE IF n = Newest THEN 2 ELSE 1]
  /\ queue = [n \in Node |-> {}]
  /\ soon = [n \in Node |-> [q \in Node |-> 0]]
  /\ later = [n \in Node |-> [q \in Node |-> IF q = n \/ ~up[n] THEN 0 ELSE 1]]
  /\ check = [n \in Node |-> FALSE]
  /\ hearing = [n \in Node |-> {}] /\ net = {}
  /\ faulty = FALSE /\ raised = {} /\ outdated = {}

Trouble == trouble < MaxTrouble /\ trouble' = trouble + 1
Fault == Trouble /\ faulty' = TRUE
Connected(n) == {q \in Node : link[n][q] = "CONNECTED"}
Linked == {p \in Node \X Node : link[p[1]][p[2]] = "CONNECTED"}
\* _mark_peer_updated; the clock moves when it is read.
Mark(n) == clock' = clock + 1 /\ stamp' = [stamp EXCEPT ![n] = clock']

\* What is sent to a node that does not run is gone.
Send(ms) == net' = net \cup {m \in ms : up[m.to]}
Msg(type, n, q) == [type |-> type, from |-> n, to |-> q]
Act(type, q) == [type |-> type, peer |-> q]
Do(n, a) == up[n] /\ a \in queue[n] /\ queue' = [queue EXCEPT ![n] = @ \ {a}]

-----------------------------------------------------------------------------
(* The receive thread.  Any datagram marks its sender as seen.  Messages    *)
(* that only one handler reads carry what it reads.                        *)

Receive(m) == m \in net /\ hearing[m.to] = {} /\ net' = net \ {m}
Seen(n, q) == silence' = [silence EXCEPT ![n][q] = 0]
SetLink(n, q, s) == link' = [link EXCEPT ![n][q] = s]
Enqueue(n, a) == queue' = [queue EXCEPT ![n] = @ \cup {a}]

\* _on_hello reads the state of the peer ...
OnHello(m) ==
  LET n == m.to  q == m.from IN
  /\ Receive(m) /\ m.type = "hello" /\ Seen(n, q)
  /\ hearing' = [hearing EXCEPT ![n] = {<<q, link[n][q] # "CONNECTED">>}]
  /\ UNCHANGED <<up, link, updates, timers, history>>

\* Mutant: the handler starts no keepalives.
GreetsUnpinged(n, q, new) ==
  /\ hearing' = [hearing EXCEPT ![n] = {}] /\ SetLink(n, q, "CONNECTED")
  /\ IF new THEN Mark(n) /\ Enqueue(n, Act("reply", q)) /\ outdated' = outdated \ {<<n, q>>}
            ELSE UNCHANGED <<updates, queue>> /\ outdated' = outdated \cup ({<<n, q>>} \ Linked)
  /\ UNCHANGED <<up, silence, soon, later, check, net, trouble, faulty, raised>>

\* ... and sets it, whatever other threads have made of it meanwhile.  A peer
\* that was connected gets neither a reply nor another PING_PEER.
Greets(n, q, new) ==
  /\ hearing' = [hearing EXCEPT ![n] = {}] /\ SetLink(n, q, "CONNECTED")
  /\ \/ /\ new /\ Mark(n) /\ Enqueue(n, Act("reply", q))
        /\ later' = [later EXCEPT ![n][q] = @ + 1]
        /\ outdated' = outdated \ {<<n, q>>}
     \/ /\ ~new /\ UNCHANGED <<updates, queue, later>>
        /\ outdated' = outdated \cup ({<<n, q>>} \ Linked)
  /\ UNCHANGED <<up, silence, soon, check, net, trouble, faulty, raised>>
Welcome(n, q) == \E new \in BOOLEAN : <<q, new>> \in hearing[n] /\ Greets(n, q, new)

\* Mutant: a PING does not count as a sign of life.
OnPingUnseen(m) ==
  /\ Receive(m) /\ m.type = "ping"
  /\ IF m.stamp > stamp[m.to] THEN Enqueue(m.to, Act("ask", m.to)) ELSE UNCHANGED queue
  /\ UNCHANGED <<up, book, updates, soon, later, check, history, hearing>>
OnPing(m) ==
  /\ Receive(m) /\ m.type = "ping" /\ Seen(m.to, m.from)
  /\ IF m.stamp > stamp[m.to] THEN Enqueue(m.to, Act("ask", m.to)) ELSE UNCHANGED queue
  /\ UNCHANGED <<up, link, updates, soon, later, check, history, hearing>>

\* Mutant: a PING_PEER is cancelled that need not be there.
OnGoodbyeCancels(m) ==
  /\ Receive(m) /\ m.type = "goodbye"
  /\ Seen(m.to, m.from) /\ SetLink(m.to, m.from, "DISCONNECTED")
  /\ Mark(m.to)
  /\ later' = [later EXCEPT ![m.to][m.from] = @ - 1]
  /\ UNCHANGED <<up, queue, soon, check, history, hearing>>
OnGoodbye(m) ==
  /\ Receive(m) /\ m.type = "goodbye"
  /\ Seen(m.to, m.from) /\ SetLink(m.to, m.from, "DISCONNECTED")
  /\ Mark(m.to)
  /\ UNCHANGED <<up, timers, history, hearing>>

\* _on_peer_list_request
OnAsk(m) ==
  /\ Receive(m) /\ m.type = "ask"
  /\ Seen(m.to, m.from) /\ Enqueue(m.to, Act("list", m.from))
  /\ UNCHANGED <<up, link, updates, soon, later, check, history, hearing>>

\* _on_peer_list_response: add_or_update marks every listed peer as seen.
OnList(m) ==
  LET n == m.to IN
  /\ Receive(m) /\ m.type = "list"
  /\ silence' = [silence EXCEPT ![n] =
       [q \in Node |-> IF q \in m.peers \cup {m.from} THEN 0 ELSE @[q]]]
  /\ link' = [link EXCEPT ![n] =
       [q \in Node |-> IF q \in m.peers /\ @[q] = "absent" THEN "DISCONNECTED" ELSE @[q]]]
  /\ UNCHANGED <<up, updates, timers, history, hearing>>

-----------------------------------------------------------------------------
(* The scheduler thread *)

Reply(n, q) ==
  /\ Do(n, Act("reply", q)) /\ Send({Msg("hello", n, q)})
  /\ UNCHANGED <<up, book, updates, soon, later, check, history, hearing>>

SendList(n, q) ==
  /\ Do(n, Act("list", q))
  /\ Send({[type |-> "list", from |-> n, to |-> q, peers |-> Connected(n)]})
  /\ UNCHANGED <<up, book, updates, soon, later, check, history, hearing>>

\* _act_request_peer_list
Ask(n) ==
  /\ Do(n, Act("ask", n)) /\ Send({Msg("ask", n, q) : q \in Connected(n)})
  /\ UNCHANGED <<up, book, updates, soon, later, check, history, hearing>>

\* Mutant: the check is queued only while the peer is not PUNCHING yet.
PunchUnchecked(n, q) ==
  /\ up[n] /\ Act("punch", q) \in queue[n]
  /\ Seen(n, q) /\ SetLink(n, q, "PUNCHING") /\ Send({Msg("hello", n, q)})
  /\ queue' = [queue EXCEPT ![n] = (@ \ {Act("punch", q)}) \cup
       (IF link[n][q] = "PUNCHING" THEN {} ELSE {Act("verify", q)})]
  /\ UNCHANGED <<up, updates, soon, later, check, history, hearing>>

\* _act_hole_punch_peer; the HELLOs of a burst count as one.  A send that
\* raises leaves the state without a check.
Punch(n, q) ==
  /\ up[n] /\ Act("punch", q) \in queue[n]
  /\ Seen(n, q) /\ SetLink(n, q, "PUNCHING")
  /\ \/ /\ Send({Msg("hello", n, q)})
        /\ queue' = [queue EXCEPT ![n] = (@ \ {Act("punch", q)}) \cup {Act("verify", q)}]
        /\ UNCHANGED history
     \/ /\ Fault /\ raised' = raised \cup {<<n, q>>} /\ UNCHANGED <<net, outdated>>
        /\ queue' = [queue EXCEPT ![n] = @ \ {Act("punch", q)}]
  /\ UNCHANGED <<up, updates, soon, later, check, hearing>>

\* _act_check_hole_punch.  Punches that failed are counted over restarts and
\* never forgotten, so any check may be the one that reaches the limit.
Verify(n, q) ==
  /\ Do(n, Act("verify", q))
  /\ IF link[n][q] = "PUNCHING"
       THEN \E s \in {"DISCONNECTED", "UNREACHABLE"} : SetLink(n, q, s)
       ELSE UNCHANGED link
  /\ UNCHANGED <<up, silence, updates, soon, later, check, net, history, hearing>>

\* _act_ping_peer.  CHECK_PING_RESPONSE, which it queues, changes nothing: no
\* check passes its count of missed PINGs on, and one is fewer than allowed.
PingPeer(n, q) ==
  /\ up[n] /\ soon[n][q] > 0
  /\ soon' = [soon EXCEPT ![n][q] = @ - 1]
  /\ \/ /\ link[n][q] # "CONNECTED" /\ UNCHANGED <<net, later, history>>
     \/ /\ link[n][q] = "CONNECTED"
        /\ Send({[type |-> "ping", from |-> n, to |-> q, stamp |-> stamp[n]]})
        /\ later' = [later EXCEPT ![n][q] = @ + 1]
        /\ UNCHANGED history
     \/ /\ link[n][q] = "CONNECTED"
        /\ Fault /\ raised' = raised \cup {<<n, q>>} /\ UNCHANGED <<net, later, outdated>>
  /\ UNCHANGED <<up, book, updates, queue, check, hearing>>

\* _act_liveness_check
Dead(n) == {q \in Connected(n) : silence[n][q] > MaxAge}
LivenessCheck(n) ==
  /\ up[n] /\ check[n] /\ check' = [check EXCEPT ![n] = FALSE]
  /\ link' = [link EXCEPT ![n] = [q \in Node |-> IF q \in Dead(n) THEN "DISCONNECTED" ELSE @[q]]]
  /\ silence' = [silence EXCEPT ![n] = [q \in Node |-> IF q \in Dead(n) THEN 0 ELSE @[q]]]
  /\ IF Dead(n) = {} THEN UNCHANGED updates ELSE Mark(n)
  /\ UNCHANGED <<up, queue, soon, later, net, history, hearing>>

-----------------------------------------------------------------------------
(* Users, time and faults *)

\* connect_to_peer
Connect(n, q) ==
  /\ up[n] /\ n # q /\ Trouble
  /\ Seen(n, q) /\ SetLink(n, q, "PUNCHING")
  /\ Send({Msg("hello", n, q)}) /\ Enqueue(n, Act("verify", q))
  /\ UNCHANGED <<up, updates, soon, later, check, hearing, faulty, raised, outdated>>

\* stop says GOODBYE to the connected peers, a crash does not.
Stop(n) ==
  /\ up[n] /\ Trouble
  /\ up' = [up EXCEPT ![n] = FALSE]
  /\ \E told \in {{}, Connected(n) \ {n}} :
       net' = {m \in net : m.to # n} \cup {Msg("goodbye", n, q) : q \in {p \in told : up[p]}}
  /\ stamp' = [stamp EXCEPT ![n] = 0] /\ UNCHANGED clock
  /\ queue' = [queue EXCEPT ![n] = {}]
  /\ soon' = [soon EXCEPT ![n] = [q \in Node |-> 0]]
  /\ later' = [later EXCEPT ![n] = [q \in Node |-> 0]]
  /\ check' = [check EXCEPT ![n] = FALSE]
  /\ hearing' = [hearing EXCEPT ![n] = {}]
  /\ UNCHANGED <<book, faulty, raised, outdated>>

\* _reconnect, for a book within its limits of punches
Start(n) ==
  /\ ~up[n] /\ up' = [up EXCEPT ![n] = TRUE]
  /\ queue' = [queue EXCEPT ![n] =
       {Act("ask", n)} \cup {Act("punch", q) : q \in {p \in Node : link[n][p] # "absent"}}]
  /\ UNCHANGED <<book, updates, soon, later, check, hearing, net, history>>

Lose(m) ==
  /\ Fault /\ net' = net \ {m}
  /\ UNCHANGED <<up, book, updates, timers, hearing, raised, outdated>>

\* The duplicate filter drops a datagram, after its sender was marked as seen
\* (a restarted sender counts from zero; Reliable has the filter itself).
Filter(m) ==
  /\ Fault /\ Receive(m) /\ m.type \notin {"hello", "ping"} /\ Seen(m.to, m.from)
  /\ UNCHANGED <<up, link, updates, timers, hearing, raised, outdated>>

\* The next interval.
Tick ==
  /\ net = {}
  /\ \A n \in Node : queue[n] = {} /\ hearing[n] = {} /\ ~check[n] /\ \A q \in Node : soon[n][q] = 0
  /\ silence' = [n \in Node |-> [q \in Node |->
       IF silence[n][q] <= MaxAge THEN silence[n][q] + 1 ELSE silence[n][q]]]
  /\ soon' = later /\ later' = [n \in Node |-> [q \in Node |-> 0]]
  /\ check' = up
  /\ UNCHANGED <<up, link, updates, queue, net, history, hearing>>

-----------------------------------------------------------------------------
Handle(m) == OnHello(m) \/ OnPing(m) \/ OnGoodbye(m) \/ OnAsk(m) \/ OnList(m)
Queued(n, q) == Reply(n, q) \/ SendList(n, q) \/ Punch(n, q) \/ Verify(n, q) \/ PingPeer(n, q)
Work ==
  \/ \E m \in net : Handle(m)
  \/ \E n, q \in Node : Welcome(n, q) \/ Queued(n, q)
  \/ \E n \in Node : Ask(n) \/ LivenessCheck(n)
  \/ Tick

Next ==
  \/ Work
  \/ \E n, q \in Node : Connect(n, q)
  \/ \E n \in Node : Stop(n) \/ Start(n)
  \/ \E m \in net : Lose(m) \/ Filter(m)

Spec == Init /\ [][Next]_vars /\ WF_vars(Work)

-----------------------------------------------------------------------------
TypeOK ==
  /\ up \in [Node -> BOOLEAN]
  /\ link \in [Node -> [Node -> LinkState]]
  /\ silence \in [Node -> [Node -> 0 .. MaxAge + 1]]
  /\ clock \in Nat /\ stamp \in [Node -> Nat]
  /\ queue \in [Node -> SUBSET Action]
  /\ soon \in [Node -> [Node -> Nat]] /\ later \in [Node -> [Node -> Nat]]
  /\ check \in [Node -> BOOLEAN]
  /\ hearing \in [Node -> SUBSET (Node \X BOOLEAN)]
  /\ net \in SUBSET Message
  /\ trouble \in 0 .. MaxTrouble /\ faulty \in BOOLEAN
  /\ raised \in SUBSET (Node \X Node) /\ outdated \in SUBSET (Node \X Node)

Pinged(n, q) == soon[n][q] + later[n][q] > 0

\* A peer that is connected is pinged for as long as it is: a PING_PEER is
\* queued, through restarts, second connections and hole punches of connected
\* peers, unless a send of it raised or a HELLO was handled by what the peer
\* was no more.
ConnectedIsPinged ==
  \A n, q \in Node : up[n] /\ link[n][q] = "CONNECTED" =>
    Pinged(n, q) \/ Act("punch", q) \in queue[n] \/ <<n, q>> \in raised \cup outdated

\* A peer does not stay PUNCHING: a check is queued, through restarts too.
PunchingIsChecked ==
  \A n, q \in Node : up[n] /\ link[n][q] = "PUNCHING" =>
    {Act("verify", q), Act("punch", q)} \cap queue[n] # {} \/ <<n, q>> \in raised

\* A liveness check drops no peer that keeps pinging, whatever the two make of
\* each other, if nothing is lost and no send raises.
DropIsDeserved ==
  [][\A n, q \in Node :
       check[n] /\ ~check'[n] /\ up'[n] /\ link[n][q] = "CONNECTED" /\ link'[n][q] # "CONNECTED"
         => ~Pinged(q, n) \/ faulty]_vars

\* net_rules.md:83, a peer is "considered dead" after peer_timeout: one that has
\* stopped for good does not stay connected.
DeadIsDropped ==
  \A n, q \in Node : <>[](up[n] /\ ~up[q]) => <>[](link[n][q] # "CONNECTED")
=============================================================================
