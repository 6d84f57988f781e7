--------------------------- MODULE CriticalSection ---------------------------
(***************************************************************************)
(* What oatpp::async::Lock promises its clients, whether they are          *)
(* coroutines or plain threads: the section between a successful lock and  *)
(* the matching unlock holds at most one of them at a time.                *)
(***************************************************************************)
CONSTANT Agents

VARIABLES
  inside,   \* the clients in the critical section
  pending   \* the clients that are not yet through with the lock

vars == <<inside, pending>>

Init == inside = {} /\ pending = Agents

Enter(a) == /\ inside = {}
            /\ a \in pending
            /\ inside' = {a}
            /\ UNCHANGED pending

Leave(a) == /\ inside = {a}
            /\ inside' = {}
            /\ UNCHANGED pending

\* A client outside the section gives up its interest in the lock.
Withdraw(a) == /\ a \in pending \ inside
               /\ pending' = pending \ {a}
               /\ UNCHANGED inside

Next == \E a \in Agents : Enter(a) \/ Leave(a) \/ Withdraw(a)

Spec == Init /\ [][Next]_vars
=============================================================================
