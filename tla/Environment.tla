----------------------------- MODULE Environment -----------------------------
(***************************************************************************)
(* The environment of a program: the registry of its components, which     *)
(* their constructors and destructors keep from any thread, and the        *)
(* counters that the constructors and destructors of every counted object  *)
(* move, with init() and destroy() around them (Environment.cpp,           *)
(* Environment.hpp, base/Countable.cpp).                                   *)
(*                                                                         *)
(* A thread builds or destroys one thing at a time, and it counts it in two*)
(* steps: the atomic counters of the process are moved one by one.  The    *)
(* thread's own counters are moved with the last of them.                  *)
(***************************************************************************)
EXTENDS Integers, FiniteSets, FiniteSetsExt

CONSTANTS
  Threads,
  Types, Names,  \* of components
  Components,    \* the component objects of the program
  MaxObjects     \* counted objects that one thread creates (a bound)

ASSUME EnvironmentConstants == IsFiniteSet(Threads)

VARIABLES
  stage,         \* "new", "running" from init() on, "destroyed"
  components,    \* the registry: [type, name] -> the component registered
  object,        \* a component: its label, its owner, its stage of life
  pc,            \* what a thread is in the middle of
  objects,       \* m_objectsCount
  created,       \* m_objectsCreated
  threadObjects, threadCreated, \* the thread-local counters
  alive          \* how many counted objects there are

registry == <<components, object>>
counters == <<objects, created, threadObjects, threadCreated, alive>>
environmentVars == <<stage, registry, pc, counters>>

Labels == [type : Types, name : Names]
NotBuilt == [life |-> "unborn", label |-> "none", owner |-> "none"]

EnvironmentInit ==
  /\ stage = "new"
  /\ components = [l \in {} |-> "none"]
  /\ object = [c \in Components |-> NotBuilt]
  /\ pc = [t \in Threads |-> "idle"]
  /\ objects = 0 /\ created = 0 /\ alive = 0
  /\ threadObjects = [t \in Threads |-> 0] /\ threadCreated = [t \in Threads |-> 0]

\* The program calls init() once and before it makes anything: init() resets
\* the counters of the process and those of the calling thread.
init ==
  /\ stage = "new"
  /\ stage' = "running"
  /\ objects' = 0 /\ created' = 0
  /\ \E t \in Threads :
       /\ threadObjects' = [threadObjects EXCEPT ![t] = 0]
       /\ threadCreated' = [threadCreated EXCEPT ![t] = 0]
  /\ UNCHANGED <<registry, pc, alive>>

\* destroy() throws while components are registered, and changes nothing then.
destroy ==
  /\ stage = "running" /\ DOMAIN components = {}
  /\ stage' = "destroyed"
  /\ UNCHANGED <<registry, pc, counters>>

-----------------------------------------------------------------------------
(* Components.                                                             *)

BucketOf(type) == {l \in DOMAIN components : l.type = type}

\* The object is there before it is registered.
Construct(t, c, l) ==
  /\ stage = "running" /\ pc[t] = "idle" /\ object[c].life = "unborn"
  /\ object' = [object EXCEPT ![c] = [life |-> "built", label |-> l, owner |-> t]]
  /\ pc' = [pc EXCEPT ![t] = "registering"]
  /\ UNCHANGED <<stage, components, counters>>

\* Mutant: the new component takes the name from the old one.
MutRegisterComponent(t, c) ==
  LET l == object[c].label
  IN /\ pc[t] = "registering" /\ object[c].owner = t /\ object[c].life = "built"
     /\ components' = [k \in DOMAIN components \union {l} |-> IF k = l THEN c ELSE components[k]]
     /\ object' = [object EXCEPT ![c].life = "registered"]
     /\ pc' = [pc EXCEPT ![t] = "idle"]
     /\ UNCHANGED <<stage, counters>>

\* A name that is taken makes the constructor throw: there is no component,
\* and no destructor will run.
registerComponent(t, c) ==
  LET l == object[c].label
      taken == l \in DOMAIN components
  IN /\ pc[t] = "registering" /\ object[c].owner = t /\ object[c].life = "built"
     /\ components' = IF taken THEN components
                      ELSE [k \in DOMAIN components \union {l} |->
                              IF k = l THEN c ELSE components[k]]
     /\ object' = [object EXCEPT ![c] = IF taken THEN NotBuilt ELSE [@ EXCEPT !.life = "registered"]]
     /\ pc' = [pc EXCEPT ![t] = "idle"]
     /\ UNCHANGED <<stage, counters>>

\* The destructor: out of the registry first, then the object goes.
unregisterComponent(t, c) ==
  LET l == object[c].label
  IN /\ pc[t] = "idle" /\ object[c].owner = t /\ object[c].life = "registered"
     /\ l \in DOMAIN components
     /\ components' = [k \in DOMAIN components \ {l} |-> components[k]]
     /\ object' = [object EXCEPT ![c].life = "unregistered"]
     /\ pc' = [pc EXCEPT ![t] = "destroying"]
     /\ UNCHANGED <<stage, counters>>

Destructed(t, c) ==
  /\ pc[t] = "destroying" /\ object[c].owner = t /\ object[c].life = "unregistered"
  /\ object' = [object EXCEPT ![c] = NotBuilt]
  /\ pc' = [pc EXCEPT ![t] = "idle"]
  /\ UNCHANGED <<stage, components, counters>>

\* getComponent of a type throws unless there is exactly one; with a name it
\* throws unless that one is there.
getComponent(type) ==
  IF Cardinality(BucketOf(type)) # 1 THEN "throws"
  ELSE components[CHOOSE l \in BucketOf(type) : TRUE]

getNamedComponent(l) == IF l \in DOMAIN components THEN components[l] ELSE "throws"

-----------------------------------------------------------------------------
(* Counted objects.                                                        *)

incObjectsCount(t) ==
  /\ stage = "running" /\ pc[t] = "idle" /\ threadCreated[t] < MaxObjects
  /\ objects' = objects + 1
  /\ pc' = [pc EXCEPT ![t] = "counted"]
  /\ UNCHANGED <<stage, registry, created, threadObjects, threadCreated, alive>>

incObjectsCreated(t) ==
  /\ pc[t] = "counted"
  /\ created' = created + 1
  /\ threadObjects' = [threadObjects EXCEPT ![t] = @ + 1]
  /\ threadCreated' = [threadCreated EXCEPT ![t] = @ + 1]
  /\ alive' = alive + 1
  /\ pc' = [pc EXCEPT ![t] = "idle"]
  /\ UNCHANGED <<stage, registry, objects>>

\* Any thread may destroy an object: its own counter goes down.
decObjectsCount(t) ==
  /\ pc[t] = "idle" /\ alive > 0
  /\ alive' = alive - 1
  /\ objects' = objects - 1
  /\ pc' = [pc EXCEPT ![t] = "uncounted"]
  /\ UNCHANGED <<stage, registry, created, threadObjects, threadCreated>>

decThreadObjects(t) ==
  /\ pc[t] = "uncounted"
  /\ threadObjects' = [threadObjects EXCEPT ![t] = @ - 1]
  /\ pc' = [pc EXCEPT ![t] = "idle"]
  /\ UNCHANGED <<stage, registry, objects, created, threadCreated, alive>>

EnvironmentNext ==
  \/ init \/ destroy
  \/ \E t \in Threads :
       \/ \E c \in Components :
            \/ \E l \in Labels : Construct(t, c, l)
            \/ registerComponent(t, c) \/ unregisterComponent(t, c) \/ Destructed(t, c)
       \/ incObjectsCount(t) \/ incObjectsCreated(t)
       \/ decObjectsCount(t) \/ decThreadObjects(t)

EnvironmentSpec == EnvironmentInit /\ [][EnvironmentNext]_environmentVars

-----------------------------------------------------------------------------
(* Properties.                                                             *)

\* Whoever looks a component up, by its type or by its name, gets one that has
\* been built and is not being destroyed, under that label; and a component
\* that is registered is found by its name.
LookupsFindTheLiving ==
  /\ \A type \in Types : LET c == getComponent(type) IN
       c # "throws" => object[c].life = "registered" /\ object[c].label.type = type
  /\ \A l \in Labels : LET c == getNamedComponent(l) IN
       c # "throws" => object[c].life = "registered" /\ object[c].label = l
  /\ \A c \in Components :
       object[c].life = "registered" => getNamedComponent(object[c].label) = c

\* What a counter of the threads comes to.
Total(count) == MapThenSumSet(LAMBDA t : count[t], Threads)

\* The counters of the process and of its threads agree about how many counted
\* objects there are, but for the ones being counted.
CountersAgree ==
  LET In(at) == Cardinality({t \in Threads : pc[t] = at})
  IN /\ objects = alive + In("counted")
     /\ Total(threadObjects) = alive + In("uncounted")
     /\ Total(threadCreated) = created

\* Components are looked up while they live, and the counters of objects agree
\* (Environment::getComponent, Environment::incObjects, decObjects).
ComponentsFound == LookupsFindTheLiving /\ CountersAgree
=============================================================================
