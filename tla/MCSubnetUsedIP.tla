--------------------------- MODULE MCSubnetUsedIP ---------------------------
(***************************************************************************)
(* An address space of 16 addresses with a network of eight and one of     *)
(* four addresses (so that network and broadcast addresses, a full subnet  *)
(* and gaps between ranges all occur), one of them written with host bits  *)
(* set and one at the bottom of the space, where IPDecrease wraps.  A      *)
(* subnet has no ranges, one range, or two ranges in either order.         *)
(***************************************************************************)
EXTENDS SubnetUsedIP

MCCIDRs == {[ip |-> 5, bits |-> 3], [ip |-> 8, bits |-> 2]}

Interval(a, b) == [from |-> a, to |-> b]

MCRangesOf(c) ==
    LET n == Network(c)
    IN {<<>>, <<Interval(n, Broadcast(c))>>, <<Interval(n + 1, n + 2)>>,
        <<Interval(n + 5, n + 6), Interval(n + 1, n + 2)>>,
        <<Interval(n + 1, n + 3), Interval(n + 2, n + 4)>>}

(* none, the first host address, and one in the middle or at the end *)
MCGatewaysOf(c) == {NoIP, Network(c) + 1, Network(c) + 3}
=============================================================================
