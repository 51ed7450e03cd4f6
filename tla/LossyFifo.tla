------------------------------ MODULE LossyFifo ------------------------------
(***************************************************************************)
(* What a host integration promises about the requests a user makes from   *)
(* inside the host application (a menu entry, a panel button): each one is *)
(* executed by the main thread at most once and in the order the user made *)
(* them.  A request may be lost on the way, never repeated, never          *)
(* overtaken.  HarmonyRpc, TVPaintRpc and HostPanel implement it.          *)
(***************************************************************************)
EXTENDS Naturals, Sequences

VARIABLES
  posted,   \* how many requests the user has made; they are numbered from 1
  pending,  \* the requests under way
  executed  \* the requests the main thread has executed, in that order

vars == <<posted, pending, executed>>

Init == posted = 0 /\ pending = {} /\ executed = <<>>

Post ==
  /\ posted' = posted + 1
  /\ pending' = pending \cup {posted'}
  /\ UNCHANGED executed

\* A step may lose any number of pending requests, of any age.
Lose ==
  /\ pending' \in SUBSET pending
  /\ UNCHANGED <<posted, executed>>

\* The oldest request that is still under way, and it is under way no more.
Execute ==
  /\ \E k \in pending :
       /\ \A j \in pending : k <= j
       /\ pending' = pending \ {k}
       /\ executed' = Append(executed, k)
  /\ UNCHANGED posted

Next == Post \/ Lose \/ Execute

Spec == Init /\ [][Next]_vars
=============================================================================
