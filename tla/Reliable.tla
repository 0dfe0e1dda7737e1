----------------------------- MODULE Reliable ------------------------------
(***************************************************************************)
(* Reliable delivery as the code builds it: UDPEngine.send_to and          *)
(* _recv_loop (src/Server/udp_engine.py), ReliabilityManager               *)
(* (src/Server/reliable.py) and the CHECK_RETRANSMIT handler               *)
(* (src/Server/app.py), between one node and its peers, over a network     *)
(* that loses, duplicates and reorders datagrams.                          *)
(*                                                                         *)
(* send_to takes no lock from one end to the other and is called by the    *)
(* receive thread, the scheduler thread and the web threads, so each of    *)
(* its accesses to shared state is a step of its own here.                 *)
(***************************************************************************)
EXTENDS DupWindow

CONSTANTS Peer,          \* the peers this node talks to
          Thread,        \* the threads that call send_to ...
          Sched, Recv,   \* ... among them the scheduler and the receive thread
          Body,          \* payloads handed to send_to
          ReliableBody,  \* those whose type is in RELIABLE_MSG_TYPES
          ControlBody,   \* HELLO and PING: never filtered as duplicates
          MaxRetries,    \* ReliabilityManager._max_retries
          MaxSeq,        \* bound: sequence numbers given out to a peer
          MaxRestarts    \* bound: restarts of the node and of its peers

ASSUME ReliableAssumption ==
  /\ Sched \in Thread /\ Recv \in Thread
  /\ "none" \notin Body
  /\ ReliableBody \subseteq Body /\ ControlBody \subseteq Body
  /\ ReliableBody \cap ControlBody = {}
  /\ MaxRetries \in Nat \ {0}
  /\ MaxSeq \in Nat /\ MaxSeq <= HalfSeq
  /\ MaxRestarts \in Nat

VARIABLES
  seqOut,     \* peer_seq_out
  pending,    \* pending_acks, with NoEntry where the dict has no key
  timers,     \* how many CHECK_RETRANSMIT actions are queued for a key
  call,       \* where each thread is in send_to
  net,        \* datagrams on the network: any of them may still arrive
  acks,       \* ACKs on the network
  win,        \* at each peer: its duplicate window for this node
  handled,    \* at each peer: <<seq, body>> passed to a handler since it started
  sent,       \* payloads the application has handed over, per peer
  abandoned,  \* keys whose retransmission raised before it was re-queued
  restarts

nodeVars == <<seqOut, pending, timers, call, abandoned>>
peerVars == <<win, handled>>
vars == <<seqOut, pending, timers, call, net, acks, win, handled, sent,
          abandoned, restarts>>

Key == Peer \X Seq32
NoKey == <<>>
NoEntry == [body |-> "none", retries |-> 0]
Entry == [body : Body, retries : 0 .. MaxRetries - 1]
Datagram == [to : Peer, seq : Seq32, body : Body]

\* A call of send_to: where it is, its arguments, the number it drew, and the
\* key whose retransmission it serves (NoKey for a fresh message).
Idle == [pc |-> "idle"]
CallType == {Idle} \cup
  [pc : {"draw", "bump", "transmit", "track", "queue", "requeue"},
   peer : Peer, body : Body, seq : Seq32, origin : Key \cup {NoKey}]

Busy(t) == call[t] # Idle
KeyOf(c) == <<c.peer, c.seq>>
Begin(t, p, b, origin) ==
  call' = [call EXCEPT ![t] = [pc |-> "draw", peer |-> p, body |-> b,
                               seq |-> 0, origin |-> origin]]
Advance(t, pc) == call' = [call EXCEPT ![t].pc = pc]

\* send_to returns: a fresh send is over, a retransmission goes on to re-queue
\* its own timer.
Return(t) == IF call[t].origin = NoKey
             THEN call' = [call EXCEPT ![t] = Idle]
             ELSE Advance(t, "requeue")
NeedsAck(b) == b \in ReliableBody

Init ==
  /\ seqOut = [p \in Peer |-> 0]
  /\ pending = [k \in Key |-> NoEntry]
  /\ timers = [k \in Key |-> 0]
  /\ call = [t \in Thread |-> Idle]
  /\ net = {} /\ acks = {}
  /\ win = [p \in Peer |-> EmptyWindow]
  /\ handled = [p \in Peer |-> {}]
  /\ sent = [p \in Peer |-> {}]
  /\ abandoned = {}
  /\ restarts = 0

-----------------------------------------------------------------------------
(* Sending *)

\* A handler or the application calls send_to(p, type, b); HELLO and PING only
\* leave from handlers of the scheduler.
AppSend(t, p, b) ==
  /\ ~Busy(t) /\ b \notin sent[p]
  /\ b \in ControlBody => t = Sched
  /\ Begin(t, p, b, NoKey)
  /\ sent' = [sent EXCEPT ![p] = @ \cup {b}]
  /\ UNCHANGED <<seqOut, pending, timers, net, acks, win, handled,
                 abandoned, restarts>>

\* next_seq, the read ...
DrawSeq(t) ==
  /\ Busy(t) /\ call[t].pc = "draw"
  /\ seqOut[call[t].peer] < MaxSeq
  /\ call' = [call EXCEPT ![t].seq = seqOut[call[t].peer], ![t].pc = "bump"]
  /\ UNCHANGED <<seqOut, pending, timers, net, acks, win, handled, sent,
                 abandoned, restarts>>

\* ... and the write: two unlocked steps, so another thread may come between.
BumpSeq(t) ==
  /\ Busy(t) /\ call[t].pc = "bump"
  /\ seqOut' = [seqOut EXCEPT ![call[t].peer] = NextSeq(call[t].seq)]
  /\ Advance(t, "transmit")
  /\ UNCHANGED <<pending, timers, net, acks, win, handled, sent, abandoned,
                 restarts>>

Transmit(t) ==
  /\ Busy(t) /\ call[t].pc = "transmit"
  /\ net' = net \cup {[to |-> call[t].peer, seq |-> call[t].seq,
                       body |-> call[t].body]}
  /\ IF NeedsAck(call[t].body) THEN Advance(t, "track") ELSE Return(t)
  /\ UNCHANGED <<seqOut, pending, timers, acks, win, handled, sent,
                 abandoned, restarts>>

\* The peer book has no address: the message is dropped, send_to returns.
NoAddress(t) ==
  /\ Busy(t) /\ call[t].pc = "transmit"
  /\ Return(t)
  /\ UNCHANGED <<seqOut, pending, timers, net, acks, win, handled, sent,
                 abandoned, restarts>>

\* sock.sendto raises OSError.  The exception leaves send_to; in the handler
\* of CHECK_RETRANSMIT it also skips the re-queueing (Scheduler._execute logs it).
SendError(t) ==
  /\ Busy(t) /\ call[t].pc = "transmit"
  /\ call' = [call EXCEPT ![t] = Idle]
  /\ abandoned' = IF call[t].origin = NoKey THEN abandoned
                  ELSE abandoned \cup {call[t].origin}
  /\ UNCHANGED <<seqOut, pending, timers, net, acks, win, handled, sent, restarts>>

\* A plausible slip: the key is built from the counter read again.
TrackReread(t) ==
  /\ Busy(t) /\ call[t].pc = "track"
  /\ LET k == <<call[t].peer, seqOut[call[t].peer]>>
     IN  pending' = [pending EXCEPT ![k] = [body |-> call[t].body, retries |-> 0]]
  /\ Advance(t, "queue")
  /\ UNCHANGED <<seqOut, timers, net, acks, win, handled, sent, abandoned,
                 restarts>>

Track(t) ==
  /\ Busy(t) /\ call[t].pc = "track"
  /\ pending' = [pending EXCEPT ![KeyOf(call[t])] =
                   [body |-> call[t].body, retries |-> 0]]
  /\ abandoned' = abandoned \ {KeyOf(call[t])}
  /\ Advance(t, "queue")
  /\ UNCHANGED <<seqOut, timers, net, acks, win, handled, sent, restarts>>

\* A plausible slip: no timer for the copy a retransmission sends.
QueueTimerOnlyFresh(t) ==
  /\ Busy(t) /\ call[t].pc = "queue"
  /\ timers' = IF call[t].origin = NoKey
               THEN [timers EXCEPT ![KeyOf(call[t])] = @ + 1] ELSE timers
  /\ Return(t)
  /\ UNCHANGED <<seqOut, pending, net, acks, win, handled, sent, abandoned,
                 restarts>>

QueueTimer(t) ==
  /\ Busy(t) /\ call[t].pc = "queue"
  /\ timers' = [timers EXCEPT ![KeyOf(call[t])] = @ + 1]
  /\ Return(t)
  /\ UNCHANGED <<seqOut, pending, net, acks, win, handled, sent, abandoned,
                 restarts>>

-----------------------------------------------------------------------------
(* The CHECK_RETRANSMIT handler, on the scheduler thread *)

GiveUp(k) == pending' = [pending EXCEPT ![k] = NoEntry] /\ UNCHANGED call

\* mark_retry, then send_to with the same payload: a new sequence number, and
\* so a new entry with a timer of its own.
Retry(k) ==
  /\ pending' = [pending EXCEPT ![k].retries = @ + 1]
  /\ Begin(Sched, k[1], pending[k].body, k)

\* A plausible slip: mark_retry without the limit.
FireTimerNoLimit(k) ==
  /\ ~Busy(Sched) /\ timers[k] > 0
  /\ timers' = [timers EXCEPT ![k] = @ - 1]
  /\ IF pending[k] = NoEntry THEN UNCHANGED <<pending, call>> ELSE Retry(k)
  /\ UNCHANGED <<seqOut, net, acks, win, handled, sent, abandoned, restarts>>

FireTimer(k) ==
  /\ ~Busy(Sched) /\ timers[k] > 0
  /\ timers' = [timers EXCEPT ![k] = @ - 1]
  /\ IF pending[k] = NoEntry THEN UNCHANGED <<pending, call>>
     ELSE IF pending[k].retries + 1 >= MaxRetries THEN GiveUp(k)
     ELSE Retry(k)
  /\ UNCHANGED <<seqOut, net, acks, win, handled, sent, abandoned, restarts>>

Requeue(t) ==
  /\ Busy(t) /\ call[t].pc = "requeue"
  /\ timers' = [timers EXCEPT ![call[t].origin] = @ + 1]
  /\ call' = [call EXCEPT ![t] = Idle]
  /\ UNCHANGED <<seqOut, pending, net, acks, win, handled, sent, abandoned,
                 restarts>>

-----------------------------------------------------------------------------
(* Receiving *)

\* At the peer: _handle_packet filters duplicates, and _recv_loop acknowledges
\* a reliable datagram whatever the filter said.
Deliver(d) ==
  LET p == d.to
      drop == d.body \notin ControlBody /\ IsDuplicate(win[p], d.seq)
  IN  /\ win' = IF drop \/ d.body \in ControlBody THEN win
                ELSE [win EXCEPT ![p] = Accept(@, d.seq)]
      /\ handled' = IF drop \/ d.body \in ControlBody THEN handled
                    ELSE [handled EXCEPT ![p] = @ \cup {<<d.seq, d.body>>}]
      /\ acks' = IF NeedsAck(d.body) THEN acks \cup {<<p, d.seq>>} ELSE acks
      /\ UNCHANGED <<seqOut, pending, timers, call, net, sent, abandoned, restarts>>

\* At the node: _on_ack pops the entry, if there is one.
ReceiveAck(k) ==
  /\ ~Busy(Recv)
  /\ pending' = [pending EXCEPT ![k] = NoEntry]
  /\ UNCHANGED <<seqOut, timers, call, net, acks, win, handled, sent,
                 abandoned, restarts>>

\* discard_all_for_peer: GOODBYE on the receive thread, a liveness timeout on
\* the scheduler thread.  Queued timers stay queued.
DiscardPeer(p) ==
  /\ ~Busy(Recv) \/ ~Busy(Sched)
  /\ pending' = [k \in Key |-> IF k[1] = p THEN NoEntry ELSE pending[k]]
  /\ UNCHANGED <<seqOut, timers, call, net, acks, win, handled, sent,
                 abandoned, restarts>>

-----------------------------------------------------------------------------
(* Restarts: nothing of the ReliabilityManager is persisted *)

RestartNode ==
  /\ restarts < MaxRestarts /\ restarts' = restarts + 1
  /\ seqOut' = [p \in Peer |-> 0]
  /\ pending' = [k \in Key |-> NoEntry]
  /\ timers' = [k \in Key |-> 0]
  /\ call' = [t \in Thread |-> Idle]
  /\ abandoned' = {}
  /\ UNCHANGED <<net, acks, win, handled, sent>>

RestartPeer(p) ==
  /\ restarts < MaxRestarts /\ restarts' = restarts + 1
  /\ win' = [win EXCEPT ![p] = EmptyWindow]
  /\ handled' = [handled EXCEPT ![p] = {}]
  /\ UNCHANGED <<seqOut, pending, timers, call, net, acks, sent, abandoned>>

Next ==
  \/ \E t \in Thread, p \in Peer, b \in Body : AppSend(t, p, b)
  \/ \E t \in Thread : DrawSeq(t)
  \/ \E t \in Thread : BumpSeq(t)
  \/ \E t \in Thread : Transmit(t)
  \/ \E t \in Thread : NoAddress(t)
  \/ \E t \in Thread : SendError(t)
  \/ \E t \in Thread : Track(t)
  \/ \E t \in Thread : QueueTimer(t)
  \/ \E t \in Thread : Requeue(t)
  \/ \E k \in Key : FireTimer(k)
  \/ \E d \in net : Deliver(d)
  \/ \E k \in acks : ReceiveAck(k)
  \/ \E p \in Peer : DiscardPeer(p)
  \/ RestartNode
  \/ \E p \in Peer : RestartPeer(p)

Spec == Init /\ [][Next]_vars

-----------------------------------------------------------------------------
(* Properties *)

\* The shape of the state; the retry count of a kept entry is below the limit.
TypeOK ==
  /\ seqOut \in [Peer -> Seq32]
  /\ pending \in [Key -> Entry \cup {NoEntry}]
  /\ timers \in [Key -> Nat]
  /\ call \in [Thread -> CallType]
  /\ net \subseteq Datagram
  /\ acks \subseteq Key
  /\ win \in [Peer -> WindowType]
  /\ handled \in [Peer -> SUBSET (Seq32 \X Body)]
  /\ sent \in [Peer -> SUBSET Body]
  /\ abandoned \subseteq Key
  /\ restarts \in Nat

\* Thread t is on its way to queue a timer for k.
WillQueue(t, k) ==
  /\ Busy(t)
  /\ \/ call[t].pc = "queue" /\ KeyOf(call[t]) = k
     \/ call[t].origin = k

\* No entry of pending_acks is forgotten: it has a CHECK_RETRANSMIT queued or
\* about to be queued, unless its own retransmission raised.  (track_sent's
\* comment: the caller queues the check, nothing polls.)
NoForgottenEntry ==
  \A k \in Key : pending[k] # NoEntry =>
    timers[k] > 0 \/ (\E t \in Thread : WillQueue(t, k)) \/ k \in abandoned

\* An entry awaits the ACK of a datagram that did go out with that number and
\* that payload, whichever threads were inside send_to together.
TrackedWasSent ==
  \A k \in Key : pending[k] # NoEntry =>
    [to |-> k[1], seq |-> k[2], body |-> pending[k].body] \in net

\* A number that a peer has handled is filtered when it comes again, with the
\* exceptions the code leaves: more than Window behind the newest, or the
\* newest itself once the set is full (the prune throws it out).
HandledIsFiltered ==
  \A p \in Peer : \A h \in handled[p] :
    \/ IsDuplicate(win[p], h[1])
    \/ Ahead(win[p].last, h[1]) > Window
    \/ h[1] = win[p].last /\ Cardinality(win[p].received) = Window

-----------------------------------------------------------------------------
(* What the documents say and the code does not do *)

\* net_rules.md:71, "Reliable delivery", and :562-565, a number neither seen
\* nor behind the window is processed: the ACK that would clear an entry
\* comes from a peer that handled the message.
AckedWasHandled ==
  \A k \in acks : pending[k] # NoEntry =>
    <<k[2], pending[k].body>> \in handled[k[1]]
=============================================================================
