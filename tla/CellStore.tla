------------------------------ MODULE CellStore ------------------------------
(***************************************************************************)
(* What hivekit's cell allocator promises the editors that use it          *)
(* (interface alloc.Allocator): a hive is a set of bins, allocated cells   *)
(* lie inside one bin and never overlap, a cell stays where it is until    *)
(* its owner frees it, and a bin goes only when no cell is left in it.     *)
(***************************************************************************)
EXTENDS Integers

CONSTANT Needs   \* the sizes a client may ask for

VARIABLES
  live,   \* the allocated cells, records [off, size]
  bins    \* the HBINs, records [start, end]

Disjoint(c, d) == c.off + c.size <= d.off \/ d.off + d.size <= c.off
Inside(c, b) == b.start < c.off /\ c.off + c.size <= b.end
BinsApart(b, d) == b.end <= d.start \/ d.end <= b.start

CellsOK(L, B) ==
  /\ \A c \in L : c.size > 0 /\ \E b \in B : Inside(c, b)
  /\ \A c, d \in L : c = d \/ Disjoint(c, d)
  /\ \A b, d \in B : b = d \/ BinsApart(b, d)

Init == CellsOK(live, bins)

\* The file grows by a bin beyond all others.
Extend(B) == bins' = B \/ \E b \in bins' : bins' = B \cup {b} /\ \A d \in B : d.end <= b.start

Alloc(n) ==
  /\ \E c \in live' \ live : c.size = n /\ live' = live \cup {c}
  /\ Extend(bins)
  /\ CellsOK(live', bins')

Free(c) ==
  /\ live' = live \ {c}
  /\ bins' = bins

Grow ==
  /\ live' = live
  /\ Extend(bins)
  /\ CellsOK(live', bins')

\* The file shrinks by bins at its end.
Shrink ==
  /\ live' = live
  /\ bins' \subseteq bins
  /\ \A b \in bins', d \in bins \ bins' : b.end <= d.start
  /\ CellsOK(live', bins')

Next == (\E n \in Needs : Alloc(n)) \/ (\E c \in live : Free(c)) \/ Grow \/ Shrink

Spec == Init /\ [][Next]_<<live, bins>>
=============================================================================
