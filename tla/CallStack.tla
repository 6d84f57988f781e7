------------------------------ MODULE CallStack -------------------------------
(* What the coroutines of one handle promise each other: calls nest.  A       *)
(* coroutine that finishes gives control back to the one that called it,      *)
(* which continues in the function it was in; an error goes up one caller at  *)
(* a time until one handles it, and leaves only the function of the caller it *)
(* reaches open.                                                              *)
EXTENDS Sequences, SequencesExt

CONSTANTS Coroutines, Functions

VARIABLES
  frames,   \* the coroutines that were called and have not returned
  failing   \* an error is on its way up

Frame == [who : Coroutines, fn : Functions]

Callers == Front(frames)

Running == Last(frames)

Init == failing = FALSE /\ \E c \in Coroutines : frames = <<[who |-> c, fn |-> "act"]>>

\* The running coroutine goes on in another function.
Go == /\ ~ failing /\ frames # <<>>
      /\ \E f \in Functions : frames' = Append(Callers, [Running EXCEPT !.fn = f])
      /\ UNCHANGED failing

\* It calls a coroutine that is in no frame, which starts with act().
Call == /\ ~ failing /\ frames # <<>>
        /\ \E c \in Coroutines \ {frames[i].who : i \in DOMAIN frames} :
             frames' = Append(frames, [who |-> c, fn |-> "act"])
        /\ UNCHANGED failing

Return == ~ failing /\ frames # <<>> /\ frames' = Callers /\ UNCHANGED failing

Fail == ~ failing /\ frames # <<>> /\ failing' = TRUE /\ UNCHANGED frames

Handle == failing /\ failing' = FALSE /\ UNCHANGED frames

\* An error removes the one it meets; where the caller continues is its handler's choice.
Unwind ==
  /\ failing /\ frames # <<>> /\ failing' = (Callers # <<>>)
  /\ \/ Callers = <<>> /\ frames' = <<>>
     \/ Callers # <<>> /\ \E f \in Functions :
          frames' = Append(Front(Callers), [Last(Callers) EXCEPT !.fn = f])

Next == Go \/ Call \/ Return \/ Fail \/ Handle \/ Unwind

Spec == Init /\ [][Next]_<<frames, failing>>
=============================================================================
