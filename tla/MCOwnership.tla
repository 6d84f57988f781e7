----------------------------- MODULE MCOwnership -----------------------------
(* Who owns a lock, and who owns the containers of object trees.  Three       *)
(* coroutines on two processors and one plain thread share a lock; when they  *)
(* have all been served, the trees are worked on.  The two do not interact:   *)
(* the run explores the sum of their state spaces.                            *)
EXTENDS AsyncLock, TreeNodes, TLC

CONSTANTS c1, c2, c3, p1, p2, t1

MCCoroutines  == {c1, c2, c3}
MCProcessors  == {p1, p2}
MCThreads     == {t1}
MCProcessorOf == c1 :> p1 @@ c2 :> p1 @@ c3 :> p2

OwnershipInit == Init /\ TreeInit
OwnershipNext ==
  \/ Next /\ UNCHANGED heap
  \/ Finished /\ TreeNext

\* Once everybody has been served, none of the lock's fair steps is enabled.
OwnershipSpec == OwnershipInit /\ [][OwnershipNext]_<<vars, heap>> /\ Fairness
=============================================================================
