------------------------------ MODULE MCPeers ------------------------------
EXTENDS Peers

CONSTANTS a, b, c, d

\* Among what can happen next the HELLOs at hand come first, then the
\* datagrams, the queued actions, the PINGs, the checks and the next interval,
\* each in a fixed order.
First(S) == CHOOSE x \in S : TRUE
InOrder ==
  LET greeted == {n \in Node : hearing[n] # {}}
      busy == {n \in Node : queue[n] # {}}
      pinging == {<<n, q>> \in Node \X Node : soon[n][q] > 0}
      checking == {n \in Node : check[n]} IN
  CASE greeted # {} -> hearing'[First(greeted)] = {}
    [] greeted = {} /\ net # {} -> First(net) \notin net'
    [] greeted = {} /\ net = {} /\ busy # {} ->
         First(queue[First(busy)]) \notin queue'[First(busy)]
    [] greeted = {} /\ net = {} /\ busy = {} /\ pinging # {} ->
         LET p == First(pinging) IN soon'[p[1]][p[2]] < soon[p[1]][p[2]]
    [] greeted = {} /\ net = {} /\ busy = {} /\ pinging = {} /\ checking # {} ->
         ~check'[First(checking)]
    [] OTHER -> check # check'

\* Some of the behaviours of Spec
OrderlySpec == Init /\ [][Next /\ InOrder]_vars /\ WF_vars(Work /\ InOrder)
=============================================================================
