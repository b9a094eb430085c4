---------------------------- MODULE AddressSpace ----------------------------
(***************************************************************************)
(* What the virtual memory manager promises: a partial identity map of the *)
(* address space that grows one page at a time while it is being built,    *)
(* goes live only when every page below Limit is in it, and loses a page   *)
(* afterwards only when that page is unmapped.  It knows nothing of page   *)
(* tables, of the memory they take, or of the recursion that maps them.    *)
(***************************************************************************)
EXTENDS Integers

CONSTANTS Page, Limit, ClientPages

VARIABLES
    trans,   \* the page each page is translated to
    phase    \* "building", "live", or "stopped"

Unmapped == -1

Init ==
    /\ trans = [p \in Page |-> Unmapped]
    /\ phase = "building"

Map(p) ==
    /\ phase \in {"building", "live"}
    /\ trans' = [trans EXCEPT ![p] = p]
    /\ UNCHANGED phase

GoLive ==
    /\ phase = "building"
    /\ \A p \in 0 .. (Limit - 1) : trans[p] = p
    /\ phase' = "live"
    /\ UNCHANGED trans

Unmap(p) ==
    /\ phase = "live"
    /\ trans' = [trans EXCEPT ![p] = Unmapped]
    /\ UNCHANGED phase

Stop ==
    /\ phase' = "stopped"
    /\ UNCHANGED trans

Next ==
    \/ \E p \in Page : Map(p)
    \/ GoLive
    \/ \E p \in ClientPages : Unmap(p)
    \/ Stop

Spec == Init /\ [][Next]_<< trans, phase >>
=============================================================================
