---------------------------- MODULE CoroutineStack -----------------------------
(* The coroutines of one handle (async/Coroutine): the actions their          *)
(* functions return, who is called and who continues, who owns and frees      *)
(* coroutines and errors.  A function pointer carries the coroutine it is a   *)
(* member of, as if every coroutine were of a class of its own.  The code of  *)
(* the coroutines is the environment: it returns any action it can build.     *)
EXTENDS Integers, Sequences, Functions

CONSTANTS
  MaxCoroutines,    \* coroutines created in the life of the handle
  MaxErrors,        \* errors created in it
  HandlerRepeats    \* handleError may return repeat(), waits included

ASSUME StackConstants ==
  MaxCoroutines \in Nat \ {0} /\ MaxErrors \in Nat /\ HandlerRepeats \in BOOLEAN

Coroutines == 1 .. MaxCoroutines
Errors == 1 .. MaxErrors
Functions == {"act", "next"}
Null == 0

VARIABLES
  _CP, _FP,         \* the running coroutine and the function to call in it
  action,           \* what takeAction() has in hand
  taking,           \* takeAction() runs; else the next call is iterate()
  coroutine,        \* the members of every coroutine
  born, raised,     \* coroutines and errors created so far
  freed, disposed   \* how often each was deleted

stackVars == <<_CP, _FP, action, taking, coroutine, born, raised, freed, disposed>>

Pointer(c, f) == [of |-> c, name |-> f]
Action(type) == [type |-> type, of |-> Null, name |-> "act"]
YieldTo(c, f) == [type |-> "yieldTo", of |-> c, name |-> f]
Start(c) == [Action("coroutine") EXCEPT !.of = c]
Failure(e) == [Action("error") EXCEPT !.of = e]

Unborn == [parent |-> Null, returnAction |-> Action("none"),
           returnFP |-> Pointer(Null, "act"), callback |-> Pointer(Null, "act")]

StackInit ==
  /\ _CP = 1 /\ _FP = Pointer(1, "act")
  /\ action = Action("none") /\ taking = FALSE
  /\ coroutine = [c \in Coroutines |-> Unborn]
  /\ born = 1 /\ raised = 0
  /\ freed = [c \in Coroutines |-> 0] /\ disposed = [e \in Errors |-> 0]

-----------------------------------------------------------------------------
(* Ownership: an action owns its coroutine or its error, and a coroutine the  *)
(* action its caller continues with.                                          *)

Pointee(a) == IF a.type = "coroutine" /\ a.of # Null THEN {a.of} ELSE {}

\* The coroutines that go when the action is freed: its own and, one in the
\* other's return action, those chained behind it.
Chain(a) ==
  LET reached[n \in 0 .. MaxCoroutines] ==
        IF n = 0 THEN Pointee(a)
        ELSE LET before == reached[n - 1] IN
             before \cup UNION {Pointee(coroutine[c].returnAction) : c \in before}
  IN reached[MaxCoroutines]

Delete(cs) == freed' = [c \in Coroutines |-> freed[c] + (IF c \in cs THEN 1 ELSE 0)]

\* Their members are gone with them.
Cleared(members, cs) == [c \in Coroutines |-> IF c \in cs THEN Unborn ELSE members[c]]

Dispose(es) == disposed' = [e \in Errors |-> disposed[e] + (IF e \in es THEN 1 ELSE 0)]

\* delete of a coroutine: its destructor frees its return action.
WithChain(c) == {c} \cup Chain(coroutine[c].returnAction)

\* Move assignment: what the target held is freed, the source keeps its type
\* and loses its pointer.
Moved(a) == [a EXCEPT !.of = Null]
\* Mutant: what the target held stays.
MutOverwritten(a) == {}

Overwritten(a) == IF a.type = "error" /\ a.of # Null THEN {a.of} ELSE {}

-----------------------------------------------------------------------------
(* The actions the code of coroutine c can return.                            *)

\* yieldTo(), repeat() and the waits, finish(): nothing is created.  Only a
\* coroutine without a result has finish().
Plain(c) == {YieldTo(c, f) : f \in Functions} \cup {Action("repeat")}
            \cup (IF coroutine[c].callback.of = Null THEN {Action("finish")} ELSE {})

CanStart(n) == born + n <= MaxCoroutines

\* C::start().next(a), or C::start().next(D::start()).next(a)
StartThen(c, a) ==
  \/ /\ CanStart(1) /\ born' = born + 1
     /\ coroutine' = [coroutine EXCEPT ![born + 1].returnAction = a]
     /\ action' = Start(born + 1)
  \/ /\ CanStart(2) /\ born' = born + 2
     /\ coroutine' = [coroutine EXCEPT ![born + 1].returnAction = Start(born + 2),
                                       ![born + 2].returnAction = a]
     /\ action' = Start(born + 1)

\* R::startForResult().callbackTo(&C::f)
StartForResult(c, f) ==
  /\ CanStart(1) /\ born' = born + 1
  /\ coroutine' = [coroutine EXCEPT ![born + 1].callback = Pointer(c, f)]
  /\ action' = Start(born + 1)

\* _return(): the callback runs in the parent, and what it returns is what the
\* parent continues with.  It may return by _return() itself.
ReturnResult(c) ==
  LET up == coroutine[c].parent IN
  /\ coroutine[c].callback.of # Null
  /\ \/ \E a \in Plain(up) : coroutine' = [coroutine EXCEPT ![c].returnAction = a]
     \/ /\ coroutine[up].callback.of # Null
        /\ \E a \in Plain(coroutine[up].parent) :
             coroutine' = [coroutine EXCEPT ![c].returnAction = Action("finish"),
                                            ![up].returnAction = a]
  /\ action' = Action("finish")
  /\ UNCHANGED born

\* error(new E), or an exception that iterate() turns into an Error.
Raise == raised < MaxErrors /\ raised' = raised + 1

\* iterate(): the current function of the current coroutine is called.
Iterate ==
  /\ ~taking /\ _CP # Null /\ taking' = TRUE
  /\ \/ \E a \in Plain(_CP) : action' = a /\ UNCHANGED <<coroutine, born, raised>>
     \/ \E a \in Plain(_CP) : StartThen(_CP, a) /\ UNCHANGED raised
     \/ \E f \in Functions : StartForResult(_CP, f) /\ UNCHANGED raised
     \/ ReturnResult(_CP) /\ UNCHANGED raised
     \/ Raise /\ action' = Failure(raised') /\ UNCHANGED <<coroutine, born>>
  /\ UNCHANGED <<_CP, _FP, freed, disposed>>

\* A starter that no action takes over deletes its coroutine.
DropStarter ==
  /\ ~taking /\ _CP # Null /\ CanStart(1) /\ born' = born + 1
  /\ Delete({born'})
  /\ UNCHANGED <<_CP, _FP, action, taking, coroutine, raised, disposed>>

-----------------------------------------------------------------------------
(* takeAction(), one turn of its loop at a time.                              *)

TakeCoroutine ==
  /\ taking /\ action.type = "coroutine" /\ taking' = FALSE
  /\ coroutine' = [coroutine EXCEPT ![action.of].parent = _CP, ![action.of].returnFP = _FP]
  /\ _CP' = action.of /\ _FP' = Pointer(action.of, "act")
  /\ action' = Action("none")
  /\ UNCHANGED <<born, raised, freed, disposed>>

\* Mutant: the caller goes on in the function that was running.
MutTakeFinish ==
  /\ taking /\ action.type = "finish"
  /\ action' = coroutine[_CP].returnAction
  /\ _FP' = _FP /\ _CP' = coroutine[_CP].parent
  /\ LET gone == {_CP} \cup Chain(Moved(coroutine[_CP].returnAction)) IN
     Delete(gone) /\ coroutine' = Cleared(coroutine, gone)
  /\ UNCHANGED <<taking, born, raised, disposed>>

TakeFinish ==
  /\ taking /\ action.type = "finish"
  /\ action' = coroutine[_CP].returnAction
  /\ _FP' = coroutine[_CP].returnFP /\ _CP' = coroutine[_CP].parent
  /\ LET gone == {_CP} \cup Chain(Moved(coroutine[_CP].returnAction)) IN
     Delete(gone) /\ coroutine' = Cleared(coroutine, gone)
  /\ UNCHANGED <<taking, born, raised, disposed>>

TakeYieldTo ==
  /\ taking /\ action.type = "yieldTo" /\ taking' = FALSE
  /\ _FP' = Pointer(action.of, action.name) /\ action' = Action("none")
  /\ UNCHANGED <<_CP, coroutine, born, raised, freed, disposed>>

\* The handler answers with an action that is no error; the error is freed.
HandleError ==
  /\ taking /\ action.type = "error"
  /\ \/ \E a \in Plain(_CP) : /\ a.type = "repeat" => HandlerRepeats
                              /\ action' = a /\ UNCHANGED <<coroutine, born>>
     \/ \E a \in Plain(_CP) : a.type # "repeat" /\ StartThen(_CP, a)
  /\ Dispose(Overwritten(action))
  /\ UNCHANGED <<_CP, _FP, taking, raised, freed>>

\* The handler returns the error it was given, which goes up to the caller.
PassError ==
  /\ taking /\ action.type = "error"
  /\ Delete(WithChain(_CP)) /\ coroutine' = Cleared(coroutine, WithChain(_CP))
  /\ _CP' = coroutine[_CP].parent
  /\ IF _CP' = Null THEN Dispose({action.of}) /\ action' = Action("none")
                    ELSE UNCHANGED <<action, disposed>>
  /\ UNCHANGED <<_FP, taking, born, raised>>

\* It returns or throws another, which replaces the one at hand.
ReplaceError ==
  /\ taking /\ action.type = "error" /\ Raise
  /\ Delete(WithChain(_CP)) /\ coroutine' = Cleared(coroutine, WithChain(_CP))
  /\ _CP' = coroutine[_CP].parent
  /\ IF _CP' = Null
     THEN Dispose(Overwritten(action) \cup {raised'}) /\ action' = Action("none")
     ELSE Dispose(Overwritten(action)) /\ action' = Failure(raised')
  /\ UNCHANGED <<_FP, taking, born>>

\* Repeats, waits, and nothing: the processor schedules the handle.
TakeOther ==
  /\ taking /\ action.type \in {"repeat", "none"} /\ taking' = FALSE
  /\ action' = Action("none")
  /\ UNCHANGED <<_CP, _FP, coroutine, born, raised, freed, disposed>>

StackNext == \/ Iterate \/ DropStarter \/ TakeCoroutine \/ TakeFinish \/ TakeYieldTo
             \/ HandleError \/ PassError \/ ReplaceError \/ TakeOther

StackSpec == StackInit /\ [][StackNext]_stackVars

-----------------------------------------------------------------------------
AnAction == [type : {"none", "coroutine", "yieldTo", "repeat", "finish", "error"},
             of : Nat, name : Functions]

APointer == [of : Coroutines \cup {Null}, name : Functions]

Members == [parent : Coroutines \cup {Null}, returnAction : AnAction,
            returnFP : APointer, callback : APointer]

StackTypeOK ==
  /\ _CP \in Coroutines \cup {Null} /\ _FP \in APointer
  /\ action \in AnAction /\ taking \in BOOLEAN
  /\ coroutine \in [Coroutines -> Members]
  /\ born \in Coroutines /\ raised \in 0 .. MaxErrors
  /\ freed \in [Coroutines -> Nat] /\ disposed \in [Errors -> Nat]

\* The coroutines that are called and have not returned, the running one first.
CalledFrom(top, members) ==
  LET up[n \in 0 .. MaxCoroutines] ==
        IF n = 0 THEN <<>>
        ELSE LET below == up[n - 1]
                 next == IF n = 1 THEN top ELSE members[below[n - 1]].parent
             IN  IF Len(below) < n - 1 \/ next = Null THEN below ELSE Append(below, next)
  IN up[MaxCoroutines]

Stack == CalledFrom(_CP, coroutine)

OnStack == Range(Stack)

\* Whatever the coroutines return, throw, chain or drop, a coroutine or an error is freed
\* once, and exactly when nothing can reach it any more: neither the stack, nor the action
\* in hand, nor a return action on the way (Action::free, the delete's of takeAction()).
FreedOnce ==
  /\ LET reachable == Chain(action) \cup UNION {WithChain(c) : c \in OnStack} IN
     \A c \in 1 .. born : freed[c] = IF c \in reachable THEN 0 ELSE 1
  /\ \A e \in 1 .. raised :
       disposed[e] = IF action.type = "error" /\ action.of = e THEN 0 ELSE 1

\* Results go where they were asked for: a coroutine started for a result runs under the
\* coroutine whose function it will call (_return uses getParent()).
ResultToStarter ==
  \A c \in OnStack : coroutine[c].callback.of \in {Null, coroutine[c].parent}

\* Both: coroutines and errors are freed once, when nothing reaches them, and results go to
\* the coroutine that asked (async/Coroutine.cpp, the cases of takeAction).
CoroutinesOwned == FreedOnce /\ ResultToStarter

\* The function that is called next is one of the coroutine it is called in: "Coroutine
\* keeps track of function ptr and calls corresponding function on each iteration".  act()
\* is virtual: a pointer to it is one of every coroutine.
OwnFunction == (~taking /\ _CP # Null /\ _FP.name # "act") => _FP.of = _CP

\* Calls nest as CallStack says: a frame is a coroutine and the function it continues in.
Frames ==
  LET s == Stack
      frame(k) == [who |-> s[k],
                   fn |-> IF k = 1 THEN _FP.name ELSE coroutine[s[k - 1]].returnFP.name]
  IN [i \in 1 .. Len(s) |-> frame(Len(s) + 1 - i)]

Failing == taking /\ action.type = "error"

Nesting == INSTANCE CallStack WITH frames <- Frames, failing <- Failing

\* Coroutines call, return and fail as the frames of a call stack do
\* (CoroutineHandle::takeAction and iterate): Nesting!Spec, with a premise that is true of
\* every step of the handle and spares TLC the frames at the steps of others.
CallsNest ==
  Nesting!Init /\ [][stackVars' # stackVars => [Nesting!Next]_<<Frames, Failing>>]_stackVars
=============================================================================
