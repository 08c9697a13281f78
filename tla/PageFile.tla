------------------------------ MODULE PageFile ------------------------------
(***************************************************************************)
(* What a page file promises its Tsdb, stated without the mapping, the     *)
(* header table or the bump counters: a file is created, logical pages     *)
(* (headers) are handed out in order, each owning a window of bytes inside *)
(* one physical page that no other window shares; data is only appended to *)
(* a window and never beyond it; a window may shrink, never below its      *)
(* data; the file may shrink, never below a window; and the whole file is  *)
(* either finished or thrown away.                                         *)
(*                                                                         *)
(* PageManager implements this for the compaction file (PageManager.tla,   *)
(* PageFileRefined).                                                       *)
(***************************************************************************)
EXTENDS Integers, FiniteSets

CONSTANTS
    PageSize,    \* bytes of a physical page
    Slots,       \* the logical headers, 0 .. n-1
    FirstPage,   \* the first physical page that holds data
    MaxPages,    \* physical pages of a new file
    DpBits,      \* bits one datapoint takes
    NoRegion     \* a header without a window

VARIABLES
    file,        \* "none" | "open" | "done"
    region,      \* header -> [page, offset, size] or NoRegion
    data,        \* header -> bits of data in its window
    pages        \* physical pages the file has

vars == <<file, region, data, pages>>

Owned == {h \in Slots : region[h] # NoRegion}

\* the window lies in one data page of the file and is not empty
Inside(r) ==
    /\ FirstPage <= r.page /\ r.page < pages
    /\ r.size > 0 /\ r.offset + r.size <= PageSize

Disjoint(r, q) ==
    r.page # q.page \/ r.offset + r.size <= q.offset \/ q.offset + q.size <= r.offset

Init ==
    /\ file = "none"
    /\ region = [h \in Slots |-> NoRegion]
    /\ data = [h \in Slots |-> 0]
    /\ pages = 0

Create ==
    /\ file = "none"
    /\ file' = "open"
    /\ pages' = MaxPages
    /\ UNCHANGED <<region, data>>

(***************************************************************************)
(* The next header gets a fresh window that shares no byte with another.  *)
(* The window is the one the step gives the header: PageFile is checked   *)
(* as a property of PageManager, never run on its own.                     *)
(***************************************************************************)
Allocate(h) ==
    LET r == region'[h] IN
    /\ file = "open"
    /\ h = Cardinality(Owned) /\ h \in Slots
    /\ Inside(r)
    /\ \A q \in Owned : Disjoint(r, region[q])
    /\ region' = [region EXCEPT ![h] = r]
    /\ data' = [data EXCEPT ![h] = 0]
    /\ UNCHANGED <<file, pages>>

AppendData(h) ==
    /\ file = "open" /\ h \in Owned
    /\ \E bits \in DpBits :
         /\ data[h] + bits <= 8 * region[h].size
         /\ data' = [data EXCEPT ![h] = @ + bits]
    /\ UNCHANGED <<file, region, pages>>

Shrink(h) ==
    /\ file = "open" /\ h \in Owned
    /\ \E s \in 1 .. region[h].size :
         /\ data[h] <= 8 * s
         /\ region' = [region EXCEPT ![h].size = s]
    /\ UNCHANGED <<file, data, pages>>

ShrinkFile ==
    /\ file = "open"
    /\ \E p \in 0 .. pages :
         /\ \A h \in Owned : region[h].page < p
         /\ pages' = p
    /\ UNCHANGED <<file, region, data>>

Finish ==
    /\ file = "open"
    /\ file' = "done"
    /\ UNCHANGED <<region, data, pages>>

Discard ==
    /\ file = "open"
    /\ file' = "none"
    /\ region' = [h \in Slots |-> NoRegion]
    /\ data' = [h \in Slots |-> 0]
    /\ pages' = 0

Next ==
    \/ Create
    \/ \E h \in Slots : Allocate(h)
    \/ \E h \in Slots : AppendData(h) \/ Shrink(h)
    \/ ShrinkFile
    \/ Finish
    \/ Discard

Spec == Init /\ [][Next]_vars

=============================================================================
