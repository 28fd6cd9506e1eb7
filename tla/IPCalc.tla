------------------------------- MODULE IPCalc -------------------------------
(***************************************************************************)
(* The address arithmetic of pkg/ipcalc/ipcalc.go.                         *)
(*                                                                         *)
(* An address is a number of W bits (a net.IP in its 16-byte form is 128   *)
(* bits wide) and the byte-wise loops of IPIncrease and IPDecrease wrap    *)
(* around at both ends.  A CIDR is a record of the address written before  *)
(* the slash and the number of host bits; the address may have host bits   *)
(* set.  An IPRange is the closed interval [from, to].                     *)
(***************************************************************************)
EXTENDS Integers, Sequences, FiniteSetsExt

CONSTANT W   \* the width of an address in bits

ASSUME WidthPositive == W \in Nat \ {0}
(* a fact of arithmetic, for the provers that have no theory of powers *)
ASSUME PowerPositive == \A bits \in 0 .. W : 2^bits \in Nat \ {0}

Addr == 0 .. (2^W - 1)
IPRange == [from : Addr, to : Addr]

NoIP == -1       \* a nil net.IP, and the outcome ErrNoAvailableIP
Diverges == -2   \* the outcome of a loop that never ends

IPIncrease(ip) == (ip + 1) % 2^W
IPDecrease(ip) == (ip - 1) % 2^W

Mask(ip, bits) == ip - (ip % 2^bits)
Network(cidr) == Mask(cidr.ip, cidr.bits)
Broadcast(cidr) == Network(cidr) + (2^cidr.bits - 1)
IPInNetwork(ip, cidr) == Mask(ip, cidr.bits) = Network(cidr)
IsAvailableIP(ip, cidr) == /\ IPInNetwork(ip, cidr)
                           /\ ip \notin {Network(cidr), Broadcast(cidr)}

(* Go's loops and slices: the first index that passes a test, or 0, and
   append(s[:i], s[i+1:]...).  (SequencesExt has both, but with it in their context
   the proofs about this module take several times as long to check.) *)
FirstIndex(s, Test(_)) ==
    LET found == {i \in 1 .. Len(s) : Test(s[i])}
    IN IF found # {} THEN Min(found) ELSE 0
DeleteAt(s, i) == SubSeq(s, 1, i - 1) \o SubSeq(s, i + 1, Len(s))

IPInRanges(ip, ipRanges) ==
    \E i \in DOMAIN ipRanges : ipRanges[i].from <= ip /\ ip <= ipRanges[i].to

(* slices.SortFunc by the lower end: a range comes after those that begin below
   it, and ranges that begin at the same address (there are none) keep their order *)
Before(ipRanges, k) ==
    {j \in DOMAIN ipRanges : \/ ipRanges[j].from < ipRanges[k].from
                             \/ ipRanges[j].from = ipRanges[k].from /\ j < k}
Place(ipRanges, k) == 1 + Cardinality(Before(ipRanges, k))
SortRanges(ipRanges) ==
    [i \in DOMAIN ipRanges |->
        ipRanges[CHOOSE k \in DOMAIN ipRanges : Place(ipRanges, k) = i]]

Touches(ip, r) == ip \in {IPDecrease(r.from), IPIncrease(r.to)}

-----------------------------------------------------------------------------
(* Bug variant: an address between two ranges extends the first one and the
   two are not connected. *)
AddIPToRangeNotConnecting(ip, ipRanges) ==
    LET i == FirstIndex(ipRanges, LAMBDA r : Touches(ip, r))
    IN IF ip = NoIP \/ IPInRanges(ip, ipRanges) THEN ipRanges
       ELSE IF i = 0 THEN SortRanges(Append(ipRanges, [from |-> ip, to |-> ip]))
       ELSE IF ip = IPDecrease(ipRanges[i].from)
            THEN [ipRanges EXCEPT ![i].from = ip]
            ELSE [ipRanges EXCEPT ![i].to = ip]

(***************************************************************************)
(* AddIPToRange walks the ranges and stops at the first one that the       *)
(* address touches.  It extends that range, or connects it with the next   *)
(* one when the address fills the gap between them; an address that        *)
(* touches no range becomes a range of its own.                            *)
(***************************************************************************)
AddIPToRange(ip, ipRanges) ==
    LET i == FirstIndex(ipRanges, LAMBDA r : Touches(ip, r))
    IN IF ip = NoIP \/ IPInRanges(ip, ipRanges) THEN ipRanges
       ELSE IF i = 0 THEN SortRanges(Append(ipRanges, [from |-> ip, to |-> ip]))
       ELSE IF ip = IPDecrease(ipRanges[i].from)
            THEN [ipRanges EXCEPT ![i].from = ip]
       ELSE IF i < Len(ipRanges) /\ ip = IPDecrease(ipRanges[i + 1].from)
            THEN DeleteAt([ipRanges EXCEPT ![i + 1].from = ipRanges[i].from], i)
            ELSE [ipRanges EXCEPT ![i].to = ip]

(* Bug variant: an address inside a range cuts off everything above it. *)
RemoveFromOneTruncating(ip, r) ==
    CASE r.from < ip /\ ip <= r.to -> <<[from |-> r.from, to |-> IPDecrease(ip)]>>
      [] r.from = ip /\ ip < r.to -> <<[from |-> IPIncrease(ip), to |-> r.to]>>
      [] r.from = ip /\ ip = r.to -> <<>>
      [] OTHER -> <<r>>

(* The switch of RemoveIPFromRange: what is left of one range. *)
RemoveFromOne(ip, r) ==
    CASE r.from < ip /\ ip < r.to -> <<[from |-> r.from, to |-> IPDecrease(ip)],
                                       [from |-> IPIncrease(ip), to |-> r.to]>>
      [] r.from = ip /\ ip < r.to -> <<[from |-> IPIncrease(ip), to |-> r.to]>>
      [] r.from < ip /\ ip = r.to -> <<[from |-> r.from, to |-> IPDecrease(ip)]>>
      [] r.from = ip /\ ip = r.to -> <<>>
      [] OTHER -> <<r>>

RemoveIPFromRange(ip, ipRanges) ==
    LET left[n \in 0 .. Len(ipRanges)] ==
            IF n = 0 THEN <<>> ELSE left[n - 1] \o RemoveFromOne(ip, ipRanges[n])
    IN IF IPInRanges(ip, ipRanges) THEN SortRanges(left[Len(ipRanges)]) ELSE ipRanges

-----------------------------------------------------------------------------
(* Bug variant: the walk starts one address too far behind the used range. *)
SkipPastUsed(start, usedIPs) ==
    LET skip[n \in 0 .. Len(usedIPs)] ==
            IF n = 0 THEN start
            ELSE IF usedIPs[n].from = skip[n - 1] THEN IPIncrease(IPIncrease(usedIPs[n].to))
            ELSE skip[n - 1]
    IN skip[Len(usedIPs)]

(***************************************************************************)
(* GetAvailableIP first moves the start of its loop to the end of a used   *)
(* range that begins exactly there, then walks upwards.                    *)
(***************************************************************************)
SkipUsed(start, usedIPs) ==
    LET skip[n \in 0 .. Len(usedIPs)] ==
            IF n = 0 THEN start
            ELSE IF usedIPs[n].from = skip[n - 1] THEN usedIPs[n].to
            ELSE skip[n - 1]
    IN skip[Len(usedIPs)]

(***************************************************************************)
(* The loop "for ip := start; ip in the set inLoop; IPIncrease(ip)": it    *)
(* returns the first usable address, ends with NoIP when an address fails  *)
(* the loop condition first, and never ends when none ever does.           *)
(***************************************************************************)
Walk(start, inLoop, cidr, usedIPs) ==
    LET At(k) == (start + k) % 2^W
        Usable(k) == /\ IsAvailableIP(At(k), cidr)
                     /\ ~IPInRanges(At(k), usedIPs)
        stops == {k \in Addr : Usable(k) \/ At(k) \notin inLoop}
    IN IF stops = {} THEN Diverges
       ELSE IF At(Min(stops)) \in inLoop THEN At(Min(stops)) ELSE NoIP

WalkRange(r, cidr, usedIPs) ==
    Walk(SkipUsed(r.from, usedIPs), {ip \in Addr : ip <= r.to}, cidr, usedIPs)

WalkNetwork(cidr, usedIPs) ==
    Walk(SkipUsed(IPIncrease(Network(cidr)), usedIPs),
         {ip \in Addr : IPInNetwork(ip, cidr)}, cidr, usedIPs)

GetAvailableIP(cidr, ipRanges, usedIPs) ==
    IF ipRanges = <<>> THEN WalkNetwork(cidr, usedIPs)
    ELSE LET i == FirstIndex(ipRanges,
                      LAMBDA r : WalkRange(r, cidr, usedIPs) # NoIP)
         IN IF i = 0 THEN NoIP ELSE WalkRange(ipRanges[i], cidr, usedIPs)

-----------------------------------------------------------------------------
(* The conflict checks are TRUE where the code returns an error. *)

(* Bug variant: one network inside the other is no conflict. *)
CheckNetworkConflictSame(cidr1, cidr2) == cidr1.ip = cidr2.ip

CheckNetworkConflict(cidr1, cidr2) ==
    \/ cidr1.ip = cidr2.ip
    \/ IPInNetwork(cidr2.ip, cidr1)
    \/ IPInNetwork(cidr1.ip, cidr2)

ipRangeConflict(r1, r2) == \/ IPInRanges(r1.from, <<r2>>)
                           \/ IPInRanges(r1.to, <<r2>>)
                           \/ IPInRanges(r2.from, <<r1>>)
                           \/ IPInRanges(r2.to, <<r1>>)

CheckIPRangesConflict(ranges1, ranges2) ==
    \E i \in DOMAIN ranges1, j \in DOMAIN ranges2 :
        ipRangeConflict(ranges1[i], ranges2[j])
=============================================================================
