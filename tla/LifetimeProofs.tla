---------------------------- MODULE LifetimeProofs -----------------------------
(***************************************************************************)
(* Proofs about what lives how long, for any number of coroutines, errors, *)
(* components, threads and object trees.                                   *)
(*                                                                         *)
(* CoroutineStack: calls nest as CallStack says, and coroutines and errors *)
(* are freed once.  The argument follows the sequence s of the coroutines  *)
(* that were called, and the one owner that each coroutine has: the stack, *)
(* the action in hand, or the return action of a coroutine that one of     *)
(* them owns.                                                              *)
(*                                                                         *)
(* Environment: a component that is found lives, and the counters of the   *)
(* threads add up to the counters of the process.                          *)
(*                                                                         *)
(* TreeNodes: every container of the object trees has one owner, and the   *)
(* variables own them all in the end; a copy says what its original says.  *)
(* The argument follows the function that gives every place that owns a    *)
(* container that container: it is injective, what hangs from one place is *)
(* a tree of its own, and an operation cuts such a tree off or hangs one   *)
(* there.                                                                  *)
(***************************************************************************)
EXTENDS CoroutineStack, Environment, TreeNodes, SequenceTheorems,
        FiniteSetTheorems, WellFoundedInduction, TLAPS

-----------------------------------------------------------------------------
(* The calls of a handle *)

Of(a) == IF a.type = "coroutine" THEN a.of ELSE Null
Behind(m, c) == Of(m[c].returnAction)

\* s are the coroutines that were called, from the running one down.
Called(s, top, m) ==
  /\ s = <<>> <=> top = Null
  /\ s # <<>> => s[1] = top /\ m[s[Len(s)]].parent = Null
  /\ \A i \in 1 .. Len(s) - 1 : m[s[i]].parent = s[i + 1]
  /\ \A i, j \in 1 .. Len(s) : s[i] = s[j] => i = j

\* A coroutine has somebody who will free it.
Owner(s, hand, m, c) ==
  \/ \E i \in 1 .. Len(s) : s[i] = c
  \/ hand = c
  \/ \E d \in Coroutines : Behind(m, d) = c

\* It has one, and is freed once it has none; only who is called or about to be has
\* another coroutine behind it.
Owned(s, hand, m, b, f) ==
  /\ \A i \in 1 .. Len(s) : s[i] # hand /\ \A c \in Coroutines : s[i] # Behind(m, c)
  /\ \A c \in Coroutines : hand # Null => hand # Behind(m, c)
  /\ \A c, d \in Coroutines : Behind(m, c) # Null /\ Behind(m, c) = Behind(m, d) => c = d
  /\ \A c \in Coroutines :
       Behind(m, c) # Null => c = hand \/ \E i \in 1 .. Len(s) : s[i] = c
  /\ \A c \in Coroutines : ~ Owner(s, hand, m, c) => m[c] = Unborn
  /\ \A c \in 1 .. b : f[c] = IF Owner(s, hand, m, c) THEN 0 ELSE 1
  /\ \A c \in Coroutines : c > b => f[c] = 0 /\ ~ Owner(s, hand, m, c)

\* Who was started for a result is called by the one that asked.
Answering(s, top, hand, m) ==
  /\ \A c \in Coroutines : m[c].callback.of # Null => Behind(m, c) = Null
  /\ \A c \in Coroutines : Behind(m, c) # Null => m[Behind(m, c)].callback.of = Null
  /\ \A i \in 1 .. Len(s) : m[s[i]].callback.of \in {Null, m[s[i]].parent}
  /\ hand # Null => m[hand].callback.of \in {Null, top}
  /\ s # <<>> => m[s[Len(s)]].returnAction = Action("none")

\* What actions carry.
Carries(a) ==
  /\ a \in AnAction
  /\ a.type = "coroutine" => a.of \in Coroutines
  /\ a.type = "yieldTo" => a.of \in Coroutines

Typed(s, top, hand, m, b, f) ==
  /\ s \in Seq(Coroutines) /\ top \in Coroutines \cup {Null}
  /\ hand \in Coroutines \cup {Null} /\ m \in [Coroutines -> Members]
  /\ b \in Coroutines /\ f \in [Coroutines -> Nat]
  /\ \A c \in Coroutines : Carries(m[c].returnAction) /\ m[c].returnAction.type # "error"

Sound(s, top, hand, m, b, f) ==
  /\ Typed(s, top, hand, m, b, f) /\ Called(s, top, m)
  /\ Owned(s, hand, m, b, f) /\ Answering(s, top, hand, m)

HandInv ==
  /\ Carries(action)
  /\ ~ taking => action = Action("none")
  /\ _CP = Null => action.type = "none"
  /\ action.type = "error" => action.of \in 1 .. raised
  /\ \A e \in Errors :
       disposed[e] = IF e <= raised /\ ~ (action.type = "error" /\ action.of = e)
                     THEN 1 ELSE 0

StackInv ==
  /\ StackTypeOK /\ HandInv
  /\ Sound(Stack, _CP, Of(action), coroutine, born, freed)

-----------------------------------------------------------------------------
\* A set of numbers has a least element.
LEMMA SmallestNumber ==
  ASSUME NEW S \in SUBSET Nat, S # {}
  PROVE  \E n \in S : \A k \in S : n <= k
<1> DEFINE T == {0 .. n : n \in S}
<1>1. T \subseteq FiniteSubsetsOf(Nat) /\ T # {}
  <2>1. \A n \in Nat : 0 .. n \in FiniteSubsetsOf(Nat)
    BY FS_Interval DEF FiniteSubsetsOf
  <2> QED BY <2>1
<1>2. PICK t \in T : \A u \in T : ~(<<u, t>> \in StrictSubsetOrdering(Nat))
  BY <1>1, FS_StrictSubsetOrderingWellFounded, WFMin
<1>3. PICK x \in S : t = 0 .. x
  OBVIOUS
<1>4. ASSUME NEW y \in S, ~(x <= y) PROVE FALSE
  <2>1. 0 .. y \in SUBSET Nat /\ 0 .. x \in SUBSET Nat
    OBVIOUS
  <2>2. 0 .. y \subseteq 0 .. x /\ x \notin 0 .. y /\ x \in 0 .. x
    BY <1>4
  <2>3. <<0 .. y, 0 .. x>> \in StrictSubsetOrdering(Nat)
    BY <2>1, <2>2 DEF StrictSubsetOrdering
  <2> QED BY <1>2, <1>3, <2>3
<1> QED
  BY <1>4

\* Two functions that begin alike and go on alike are alike.
Alike(f, g, n) == \A k \in 0 .. n : f[k] = g[k]
StepAlike(f, g, n) == \A k \in 1 .. n : f[k - 1] = g[k - 1] => f[k] = g[k]

LEMMA AlikeThroughout ==
  ASSUME NEW n \in Nat, NEW f, NEW g, f[0] = g[0], StepAlike(f, g, n)
  PROVE  Alike(f, g, n)
<1> DEFINE wrong == {k \in 0 .. n : f[k] # g[k]}
<1>1. ASSUME wrong # {} PROVE FALSE
  <2>1. PICK k \in wrong : \A j \in wrong : k <= j
    <3>1. wrong \in SUBSET Nat
      OBVIOUS
    <3> HIDE DEF wrong
    <3> QED BY <1>1, <3>1, SmallestNumber
  <2>2. k \in 1 .. n /\ f[k] # g[k] /\ k - 1 \in 0 .. n /\ k - 1 \notin wrong
    BY <2>1
  <2> QED BY <2>2 DEF StepAlike
<1> QED
  BY <1>1 DEF Alike

\* What is walked up from top are the coroutines that were called.
LEMMA CallsAre ==
  ASSUME NEW s \in Seq(Coroutines), NEW top, NEW m, Called(s, top, m)
  PROVE  CalledFrom(top, m) = s
<1> DEFINE body(f, n) ==
             IF n = 0 THEN <<>>
             ELSE LET below == f[n - 1]
                      next == IF n = 1 THEN top ELSE m[below[n - 1]].parent
                  IN  IF Len(below) < n - 1 \/ next = Null THEN below ELSE Append(below, next)
           g == [n \in 0 .. MaxCoroutines |-> IF n <= Len(s) THEN SubSeq(s, 1, n) ELSE s]
           up == CHOOSE f : f = [n \in 0 .. MaxCoroutines |-> body(f, n)]
<1>1. Len(s) \in Nat /\ MaxCoroutines \in Nat /\ Null = 0 /\ s \in [1 .. Len(s) -> Coroutines]
  BY StackConstants, LenProperties DEF Null
<1>2. Len(s) <= MaxCoroutines
  <2>1. s \in Injection(1 .. Len(s), Coroutines)
    BY <1>1 DEF Called, Injection, IsInjective
  <2>2. IsFiniteSet(Coroutines) /\ Cardinality(Coroutines) = MaxCoroutines
    BY <1>1, FS_Interval, StackConstants DEF Coroutines
  <2>3. Cardinality(1 .. Len(s)) = Len(s)
    BY <1>1, FS_Interval
  <2>4. Cardinality(1 .. Len(s)) <= Cardinality(Coroutines)
    BY <2>1, <2>2, FS_Injection
  <2> QED BY <2>2, <2>3, <2>4
<1>3. ASSUME NEW f, NEW n \in 1 .. MaxCoroutines, f[n - 1] = g[n - 1]
      PROVE  body(f, n) = g[n]
  <2>1. n - 1 \in 0 .. MaxCoroutines /\ n \in 0 .. MaxCoroutines
    BY <1>1
  <2>2. CASE n <= Len(s)
    <3>1. f[n - 1] = SubSeq(s, 1, n - 1) /\ g[n] = SubSeq(s, 1, n)
      BY <1>1, <1>3, <2>1, <2>2
    <3>2. /\ Len(SubSeq(s, 1, n - 1)) = n - 1
          /\ SubSeq(s, 1, n) = Append(SubSeq(s, 1, n - 1), s[n])
          /\ n # 1 => SubSeq(s, 1, n - 1)[n - 1] = s[n - 1]
      BY <1>1, <2>2
    <3>3. s[n] # Null /\ s # <<>>
      BY <1>1, <2>2 DEF Coroutines
    <3>4. n = 1 => s[n] = top
      BY <3>3 DEF Called
    <3>5. n # 1 => s[n] = m[s[n - 1]].parent
      <4>1. n # 1 => n - 1 \in 1 .. Len(s) - 1 /\ (n - 1) + 1 = n
        BY <1>1, <2>2
      <4> QED BY <4>1 DEF Called
    <3>6. s[n] = IF n = 1 THEN top ELSE m[f[n - 1][n - 1]].parent
      BY <3>1, <3>2, <3>4, <3>5
    <3>7. ~ (n - 1 < n - 1) /\ n # 0
      BY <2>1
    <3> HIDE DEF g
    <3> QED BY <3>1, <3>2, <3>3, <3>6, <3>7
  <2>3. CASE n > Len(s)
    <3>1. f[n - 1] = s /\ g[n] = s
      <4>1. n - 1 = Len(s) => SubSeq(s, 1, n - 1) = s
        BY <1>1
      <4>2. n - 1 <= Len(s) => n - 1 = Len(s)
        BY <1>1, <2>3
      <4>3. ~ (n <= Len(s)) /\ (~ (n - 1 <= Len(s)) \/ SubSeq(s, 1, n - 1) = s)
        BY <1>1, <2>3, <4>1, <4>2
      <4>4. g[n] = s /\ g[n - 1] = s
        BY <2>1, <4>3
      <4> HIDE DEF g
      <4> QED BY <1>3, <4>4
    <3>2. CASE n - 1 = Len(s)
      <4>1. n = 1 => top = Null
        BY <1>1, <3>2 DEF Called
      <4>2. n # 1 => m[s[n - 1]].parent = Null
        BY <1>1, <3>2 DEF Called
      <4>3. (IF n = 1 THEN top ELSE m[f[n - 1][n - 1]].parent) = Null
        BY <3>1, <4>1, <4>2
      <4> HIDE DEF g
      <4> QED BY <3>1, <4>3
    <3>3. CASE n - 1 # Len(s)
      <4>1. Len(s) < n - 1 /\ n # 0
        BY <1>1, <2>3, <3>3
      <4> HIDE DEF g
      <4> QED BY <3>1, <4>1
    <3> QED BY <3>2, <3>3
  <2> QED BY <1>1, <2>2, <2>3
<1>4. g[0] = <<>> /\ 0 \in 0 .. MaxCoroutines
  BY <1>1
<1>5. g = [n \in 0 .. MaxCoroutines |-> body(g, n)]
  <2>1. ASSUME NEW n \in 0 .. MaxCoroutines PROVE g[n] = body(g, n)
    <3> HIDE DEF g
    <3>1. CASE n = 0
      BY <1>4, <3>1
    <3>2. CASE n # 0
      <4>1. n \in 1 .. MaxCoroutines
        BY <1>1, <3>2
      <4> HIDE DEF body
      <4> QED BY <1>3, <4>1
    <3> QED BY <3>1, <3>2
  <2> HIDE DEF body
  <2>2. g = [n \in 0 .. MaxCoroutines |-> g[n]]
    OBVIOUS
  <2> HIDE DEF g
  <2> QED BY <2>1, <2>2
<1>6. up = [n \in 0 .. MaxCoroutines |-> body(up, n)]
  <2> HIDE DEF g, body
  <2> QED BY <1>5, Zenon
<1>7. \A n \in 0 .. MaxCoroutines : up[n] = g[n]
  <2> HIDE DEF up, g
  <2>1. \A n \in 0 .. MaxCoroutines : up[n] = body(up, n)
    <3> HIDE DEF body
    <3> QED BY <1>6
  <2>2. up[0] = g[0]
    BY <1>4, <2>1
  <2>3. ASSUME NEW n \in 1 .. MaxCoroutines, up[n - 1] = g[n - 1] PROVE up[n] = g[n]
    <3> HIDE DEF body
    <3>1. n \in 0 .. MaxCoroutines
      BY <1>1
    <3> QED BY <1>3, <2>1, <2>3, <3>1
  <2>4. StepAlike(up, g, MaxCoroutines)
    BY <2>3 DEF StepAlike
  <2>5. MaxCoroutines \in Nat
    BY <1>1
  <2>6. Alike(up, g, MaxCoroutines)
    BY <2>2, <2>4, <2>5, AlikeThroughout
  <2> QED BY <2>6 DEF Alike
<1>8. up[MaxCoroutines] = s
  <2>1. MaxCoroutines \in 0 .. MaxCoroutines /\ g[MaxCoroutines] = s
    <3>1. MaxCoroutines \in 0 .. MaxCoroutines
      BY <1>1
    <3>2. SubSeq(s, 1, Len(s)) = s
      BY <1>1
    <3>3. MaxCoroutines <= Len(s) => MaxCoroutines = Len(s)
      <4>1. \A a, b \in Nat : a <= b /\ b <= a => a = b
        OBVIOUS
      <4> QED BY <1>1, <1>2, <4>1, Zenon
    <3> QED BY <3>1, <3>2, <3>3
  <2> HIDE DEF up, g
  <2> QED BY <1>7, <2>1
<1> QED
  BY <1>8 DEF CalledFrom, up

\* What a chain of starters holds, when it has two coroutines at most.
LEMMA ChainIs ==
  ASSUME NEW a,
         Of(a) # Null =>
           \A d \in Pointee(coroutine[Of(a)].returnAction) :
             Pointee(coroutine[d].returnAction) = {}
  PROVE  Chain(a) = IF Of(a) = Null THEN {}
                    ELSE {Of(a)} \cup Pointee(coroutine[Of(a)].returnAction)
<1> DEFINE P == Pointee(a)
           more(S) == S \cup UNION {Pointee(coroutine[c].returnAction) : c \in S}
           body(f, n) == IF n = 0 THEN P ELSE more(f[n - 1])
           all == IF Of(a) = Null THEN {}
                  ELSE {Of(a)} \cup Pointee(coroutine[Of(a)].returnAction)
           g == [n \in 0 .. MaxCoroutines |-> IF n = 0 THEN P ELSE all]
           reached == CHOOSE f : f = [n \in 0 .. MaxCoroutines |-> body(f, n)]
<1>1. MaxCoroutines \in Nat /\ MaxCoroutines # 0
  BY StackConstants
<1>2. more(P) = all /\ more(all) = all
  <2>1. P = IF Of(a) = Null THEN {} ELSE {Of(a)}
    BY DEF Pointee, Of
  <2>2. CASE Of(a) = Null
    BY <2>1, <2>2
  <2>3. CASE Of(a) # Null
    BY <2>1, <2>3
  <2> QED BY <2>2, <2>3
<1> HIDE DEF more, all, P
<1>3. ASSUME NEW f, NEW n \in 1 .. MaxCoroutines, f[n - 1] = g[n - 1]
      PROVE  body(f, n) = g[n]
  <2>1. n \in 0 .. MaxCoroutines /\ n - 1 \in 0 .. MaxCoroutines /\ n # 0
    BY <1>1
  <2>2. g[n] = all /\ g[n - 1] \in {P, all}
    BY <2>1
  <2> HIDE DEF g
  <2> QED BY <1>2, <1>3, <2>1, <2>2
<1>4. g[0] = P /\ 0 \in 0 .. MaxCoroutines
  BY <1>1
<1>5. g = [n \in 0 .. MaxCoroutines |-> body(g, n)]
  <2>1. ASSUME NEW n \in 0 .. MaxCoroutines PROVE g[n] = body(g, n)
    <3> HIDE DEF g
    <3>1. CASE n = 0
      BY <1>4, <3>1
    <3>2. CASE n # 0
      <4>1. n \in 1 .. MaxCoroutines
        BY <1>1, <3>2
      <4> HIDE DEF body
      <4> QED BY <1>3, <4>1
    <3> QED BY <3>1, <3>2
  <2> HIDE DEF body
  <2>2. g = [n \in 0 .. MaxCoroutines |-> g[n]]
    OBVIOUS
  <2> HIDE DEF g
  <2> QED BY <2>1, <2>2
<1>6. reached = [n \in 0 .. MaxCoroutines |-> body(reached, n)]
  <2> HIDE DEF g, body
  <2> QED BY <1>5, Zenon
<1>7. \A n \in 0 .. MaxCoroutines : reached[n] = g[n]
  <2> HIDE DEF reached, g
  <2>1. \A n \in 0 .. MaxCoroutines : reached[n] = body(reached, n)
    <3> HIDE DEF body
    <3> QED BY <1>6
  <2>2. reached[0] = g[0]
    BY <1>4, <2>1
  <2>3. ASSUME NEW n \in 1 .. MaxCoroutines, reached[n - 1] = g[n - 1]
        PROVE  reached[n] = g[n]
    <3> HIDE DEF body
    <3>1. n \in 0 .. MaxCoroutines
      BY <1>1
    <3> QED BY <1>3, <2>1, <2>3, <3>1
  <2>4. StepAlike(reached, g, MaxCoroutines)
    BY <2>3 DEF StepAlike
  <2>5. MaxCoroutines \in Nat
    BY <1>1
  <2>6. Alike(reached, g, MaxCoroutines)
    BY <2>2, <2>4, <2>5, AlikeThroughout
  <2> QED BY <2>6 DEF Alike
<1>8. reached[MaxCoroutines] = all
  <2>1. MaxCoroutines \in 0 .. MaxCoroutines /\ g[MaxCoroutines] = all
    BY <1>1
  <2> HIDE DEF reached, g
  <2> QED BY <1>7, <2>1
<1> QED
  BY <1>8 DEF Chain, reached, all, P, more

-----------------------------------------------------------------------------
(* What happens to calls and owners *)

\* What is known of the coroutines in a sound state.
LEMMA Known ==
  ASSUME NEW s, NEW top, NEW hand, NEW m, NEW b, NEW f, Sound(s, top, hand, m, b, f)
  PROVE  /\ s \in Seq(Coroutines) /\ Len(s) \in Nat /\ b \in Nat
         /\ \A i \in 1 .. Len(s) : s[i] \in Coroutines /\ s[i] # Null /\ s[i] <= b
         /\ \A c \in Coroutines : /\ c # Null /\ c \in Nat /\ m[c] \in Members
                                 /\ Behind(m, c) \in Coroutines \cup {Null}
         /\ \A c \in Coroutines : c > b => m[c] = Unborn
         /\ Of(Unborn.returnAction) = Null /\ Unborn.callback.of = Null
         /\ hand # Null => hand <= b
         /\ \A c \in Coroutines : Behind(m, c) # Null => Behind(m, c) <= b
<1>1. Typed(s, top, hand, m, b, f) /\ Owned(s, hand, m, b, f)
  BY DEF Sound
<1>2. s \in Seq(Coroutines) /\ Len(s) \in Nat /\ \A i \in 1 .. Len(s) : s[i] \in Coroutines
  BY <1>1, LenProperties, ElementOfSeq DEF Typed
<1>3. /\ \A c \in Coroutines : c # Null /\ c \in Nat
      /\ b \in Nat
  BY <1>1, StackConstants DEF Typed, Coroutines, Null
<1>4. ASSUME NEW c \in Coroutines, Owner(s, hand, m, c) PROVE c <= b
  BY <1>1, <1>3, <1>4 DEF Owned
<1>5. \A c \in Coroutines : m[c] \in Members /\ Behind(m, c) \in Coroutines \cup {Null}
  BY <1>1 DEF Typed, Behind, Of, Carries
<1>6. Of(Unborn.returnAction) = Null /\ Unborn.callback.of = Null
  BY DEF Of, Unborn, Action, Pointer
<1>7. \A c \in Coroutines : c > b => m[c] = Unborn
  BY <1>1 DEF Owned
<1>8. \A i \in 1 .. Len(s) : s[i] <= b
  BY <1>2, <1>4 DEF Owner
<1>9. hand # Null => hand <= b
  BY <1>1, <1>4 DEF Owner, Typed
<1>10. ASSUME NEW c \in Coroutines, Behind(m, c) # Null PROVE Behind(m, c) <= b
  <2>1. Behind(m, c) \in Coroutines
    BY <1>5, <1>10
  <2> QED BY <1>4, <2>1 DEF Owner
<1> QED
  BY <1>2, <1>3, <1>5, <1>6, <1>7, <1>8, <1>9, <1>10

\* A coroutine is created and handed to an action.
LEMMA Started ==
  ASSUME NEW s, NEW top, NEW m, NEW b, NEW f, Sound(s, top, Null, m, b, f),
         b + 1 \in Coroutines, NEW m2 \in [Coroutines -> Members],
         \A c \in Coroutines : c # b + 1 => m2[c] = m[c],
         Carries(m2[b + 1].returnAction), m2[b + 1].returnAction.type # "error",
         Behind(m2, b + 1) = Null, m2[b + 1].callback.of \in {Null, top}
  PROVE  Sound(s, top, b + 1, m2, b + 1, f)
<1> DEFINE n == b + 1
<1>1. /\ s \in Seq(Coroutines) /\ Len(s) \in Nat /\ b \in Nat
      /\ \A i \in 1 .. Len(s) : s[i] \in Coroutines /\ s[i] # Null /\ s[i] <= b
      /\ \A c \in Coroutines : c # Null /\ c \in Nat
      /\ \A c \in Coroutines : Behind(m, c) \in Coroutines \cup {Null}
      /\ m[n] = Unborn /\ Of(Unborn.returnAction) = Null
      /\ \A c \in Coroutines : Behind(m, c) # Null => Behind(m, c) <= b
  BY Known
<1>2. /\ Typed(s, top, Null, m, b, f) /\ Called(s, top, m)
      /\ Owned(s, Null, m, b, f) /\ Answering(s, top, Null, m)
  BY DEF Sound
<1>3. /\ \A c \in Coroutines : Behind(m2, c) = Behind(m, c)
      /\ \A c \in Coroutines : Behind(m2, c) # n /\ Behind(m2, c) \in Coroutines \cup {Null}
  <2>1. Behind(m, n) = Null
    BY <1>1 DEF Behind
  <2>2. \A c \in Coroutines : c # n => Behind(m2, c) = Behind(m, c)
    BY DEF Behind
  <2>3. \A c \in Coroutines : Behind(m2, c) = Behind(m, c)
    BY <2>1, <2>2
  <2>4. \A c \in Coroutines : Behind(m, c) # n
    BY <1>1
  <2> QED BY <1>1, <2>3, <2>4
<1>4. \A i \in 1 .. Len(s) : s[i] # n /\ m2[s[i]] = m[s[i]]
  BY <1>1
<1>5. \A c \in Coroutines : Owner(s, n, m2, c) <=> c = n \/ Owner(s, Null, m, c)
  BY <1>1, <1>3 DEF Owner
<1>6. Typed(s, top, n, m2, n, f)
  BY <1>2 DEF Typed
<1>7. Called(s, top, m2)
  <2>1. s # <<>> => Len(s) \in 1 .. Len(s)
    BY <1>1, EmptySeq
  <2>2. \A i \in 1 .. Len(s) - 1 : i \in 1 .. Len(s)
    BY <1>1
  <2> QED BY <1>2, <1>4, <2>1, <2>2 DEF Called
<1>8. Owned(s, n, m2, n, f)
  <2>1. \A i \in 1 .. Len(s) : s[i] # n /\ \A c \in Coroutines : s[i] # Behind(m2, c)
    BY <1>2, <1>3, <1>4 DEF Owned
  <2>2. /\ \A c \in Coroutines : n # Null => n # Behind(m2, c)
        /\ \A c, d \in Coroutines :
             Behind(m2, c) # Null /\ Behind(m2, c) = Behind(m2, d) => c = d
        /\ \A c \in Coroutines :
             Behind(m2, c) # Null => c = n \/ \E i \in 1 .. Len(s) : s[i] = c
    BY <1>1, <1>2, <1>3 DEF Owned
  <2>3. \A c \in Coroutines : ~ Owner(s, n, m2, c) => m2[c] = Unborn
    BY <1>2, <1>5 DEF Owned
  <2>4. \A c \in 1 .. n : f[c] = IF Owner(s, n, m2, c) THEN 0 ELSE 1
    <3>1. ASSUME NEW c \in 1 .. n
          PROVE  c \in Coroutines /\ (c = n => f[c] = 0) /\ (c # n => c \in 1 .. b)
      BY <1>1, <1>2, StackConstants DEF Owned, Coroutines
    <3> QED BY <1>2, <1>5, <3>1 DEF Owned
  <2>5. \A c \in Coroutines : c > n => f[c] = 0 /\ ~ Owner(s, n, m2, c)
    <3>1. \A c \in Coroutines : c > n => c > b /\ c # n
      BY <1>1
    <3> QED BY <1>2, <1>5, <3>1 DEF Owned
  <2> QED BY <2>1, <2>2, <2>3, <2>4, <2>5 DEF Owned
<1>9. Answering(s, top, n, m2)
  <2>1. \A c \in Coroutines : m2[c].callback.of # Null => Behind(m2, c) = Null
    BY <1>2, <1>3 DEF Answering
  <2>2. \A c \in Coroutines : Behind(m2, c) # Null => m2[Behind(m2, c)].callback.of = Null
    BY <1>2, <1>3 DEF Answering
  <2>3. s # <<>> => Len(s) \in 1 .. Len(s)
    BY <1>1, EmptySeq
  <2> QED BY <1>2, <1>4, <2>1, <2>2, <2>3 DEF Answering
<1> QED
  BY <1>6, <1>7, <1>8, <1>9 DEF Sound

\* One is created with another behind it.
LEMMA StartedTwo ==
  ASSUME NEW s, NEW top, NEW m, NEW b, NEW f, Sound(s, top, Null, m, b, f),
         b + 1 \in Coroutines, b + 2 \in Coroutines, NEW m2 \in [Coroutines -> Members],
         \A c \in Coroutines : c # b + 1 /\ c # b + 2 => m2[c] = m[c],
         m2[b + 1].returnAction = Start(b + 2), m2[b + 1].callback.of = Null,
         Carries(m2[b + 2].returnAction), m2[b + 2].returnAction.type # "error",
         Behind(m2, b + 2) = Null, m2[b + 2].callback.of = Null
  PROVE  Sound(s, top, b + 1, m2, b + 2, f)
<1> DEFINE n == b + 1
           k == b + 2
<1>1. /\ s \in Seq(Coroutines) /\ Len(s) \in Nat /\ b \in Nat
      /\ \A i \in 1 .. Len(s) : s[i] \in Coroutines /\ s[i] # Null /\ s[i] <= b
      /\ \A c \in Coroutines : c # Null /\ c \in Nat
      /\ \A c \in Coroutines : Behind(m, c) \in Coroutines \cup {Null}
      /\ m[n] = Unborn /\ m[k] = Unborn /\ Of(Unborn.returnAction) = Null
      /\ \A c \in Coroutines : Behind(m, c) # Null => Behind(m, c) <= b
  <2>1. b \in Nat
    BY Known
  <2>2. n > b /\ k > b
    BY <2>1
  <2> QED BY <2>2, Known
<1>2. /\ Typed(s, top, Null, m, b, f) /\ Called(s, top, m)
      /\ Owned(s, Null, m, b, f) /\ Answering(s, top, Null, m)
  BY DEF Sound
<1>3. /\ n # k /\ n \in Coroutines /\ k \in Coroutines /\ n # Null /\ k # Null
      /\ \A i \in 1 .. Len(s) : s[i] # n /\ s[i] # k
      /\ \A c \in Coroutines : Behind(m, c) # n /\ Behind(m, c) # k
      /\ Behind(m, n) = Null /\ Behind(m, k) = Null
  <2>1. \A x \in Coroutines : x <= b => x # n /\ x # k
    BY <1>1
  <2>2. n # k
    BY <1>1
  <2> QED BY <1>1, <2>1, <2>2 DEF Behind
<1>4. /\ Behind(m2, n) = k /\ Behind(m2, k) = Null
      /\ \A c \in Coroutines : c # n => Behind(m2, c) = Behind(m, c)
      /\ \A c \in Coroutines : c # n => Behind(m2, c) # n /\ Behind(m2, c) # k
      /\ \A c \in Coroutines : Behind(m2, c) \in Coroutines \cup {Null}
  <2>1. Behind(m2, n) = k
    BY DEF Behind, Of, Start, Action
  <2>2. \A c \in Coroutines : c # n => Behind(m2, c) = Behind(m, c)
    BY <1>3 DEF Behind
  <2> QED BY <1>1, <1>3, <2>1, <2>2
<1>5. \A i \in 1 .. Len(s) : m2[s[i]] = m[s[i]]
  BY <1>1, <1>3
<1>6. \A c \in Coroutines : Owner(s, n, m2, c) <=> c \in {n, k} \/ Owner(s, Null, m, c)
  <2>1. ASSUME NEW c \in Coroutines
        PROVE  (\E d \in Coroutines : Behind(m2, d) = c)
                 <=> c = k \/ (\E d \in Coroutines : Behind(m, d) = c)
    <3>1. c # Null
      BY <1>1
    <3> QED BY <1>3, <1>4, <3>1
  <2> QED BY <1>1, <2>1 DEF Owner
<1>7. Typed(s, top, n, m2, k, f)
  <2>1. Carries(Start(k)) /\ Start(k).type # "error"
    BY <1>3 DEF Carries, Start, Action, AnAction, Functions, Coroutines
  <2>2. ASSUME NEW c \in Coroutines
        PROVE  Carries(m2[c].returnAction) /\ m2[c].returnAction.type # "error"
    <3>1. CASE c = n
      BY <2>1, <3>1
    <3>2. CASE c = k
      BY <3>2
    <3>3. CASE c # n /\ c # k
      BY <1>2, <3>3 DEF Typed
    <3> QED BY <3>1, <3>2, <3>3
  <2> QED BY <1>2, <1>3, <2>2 DEF Typed
<1>8. Called(s, top, m2)
  <2>1. s # <<>> => Len(s) \in 1 .. Len(s)
    BY <1>1, EmptySeq
  <2>2. \A i \in 1 .. Len(s) - 1 : i \in 1 .. Len(s)
    BY <1>1
  <2> QED BY <1>2, <1>5, <2>1, <2>2 DEF Called
<1>9. Owned(s, n, m2, k, f)
  <2>1. \A i \in 1 .. Len(s) : s[i] # n /\ \A c \in Coroutines : s[i] # Behind(m2, c)
    <3>1. ASSUME NEW i \in 1 .. Len(s), NEW c \in Coroutines PROVE s[i] # Behind(m2, c)
      <4>1. CASE c = n
        BY <1>3, <1>4, <4>1
      <4>2. CASE c # n
        BY <1>2, <1>4, <4>2 DEF Owned
      <4> QED BY <4>1, <4>2
    <3> QED BY <1>3, <3>1
  <2>2. \A c \in Coroutines : n # Null => n # Behind(m2, c)
    BY <1>3, <1>4
  <2>3. ASSUME NEW c \in Coroutines, NEW d \in Coroutines,
               Behind(m2, c) # Null, Behind(m2, c) = Behind(m2, d)
        PROVE  c = d
    <3>1. CASE c = n \/ d = n
      BY <1>4, <2>3, <3>1
    <3>2. CASE c # n /\ d # n
      BY <1>2, <1>4, <2>3, <3>2 DEF Owned
    <3> QED BY <3>1, <3>2
  <2>4. \A c \in Coroutines :
          Behind(m2, c) # Null => c = n \/ \E i \in 1 .. Len(s) : s[i] = c
    BY <1>1, <1>2, <1>4 DEF Owned
  <2>5. \A c \in Coroutines : ~ Owner(s, n, m2, c) => m2[c] = Unborn
    BY <1>2, <1>6 DEF Owned
  <2>6. \A c \in 1 .. k : f[c] = IF Owner(s, n, m2, c) THEN 0 ELSE 1
    <3>1. ASSUME NEW c \in 1 .. k
          PROVE  c \in Coroutines /\ (c \in {n, k} => f[c] = 0)
                 /\ (c \notin {n, k} => c \in 1 .. b)
      <4>1. c \in Coroutines /\ (c \in {n, k} => c > b) /\ (c \notin {n, k} => c \in 1 .. b)
        BY <1>1, StackConstants DEF Coroutines
      <4> QED BY <1>2, <4>1 DEF Owned
    <3> QED BY <1>2, <1>6, <3>1 DEF Owned
  <2>7. \A c \in Coroutines : c > k => f[c] = 0 /\ ~ Owner(s, n, m2, c)
    <3>1. \A c \in Coroutines : c > k => c > b /\ c # n /\ c # k
      BY <1>1
    <3> QED BY <1>2, <1>6, <3>1 DEF Owned
  <2> QED BY <2>1, <2>2, <2>3, <2>4, <2>5, <2>6, <2>7 DEF Owned
<1>10. Answering(s, top, n, m2)
  <2>1. ASSUME NEW c \in Coroutines, m2[c].callback.of # Null PROVE Behind(m2, c) = Null
    <3>1. c # n /\ c # k
      BY <2>1
    <3> QED BY <1>2, <1>4, <2>1, <3>1 DEF Answering
  <2>2. ASSUME NEW c \in Coroutines, Behind(m2, c) # Null
        PROVE  m2[Behind(m2, c)].callback.of = Null
    <3>1. CASE c = n
      BY <1>4, <3>1
    <3>2. CASE c # n
      <4>1. m2[Behind(m2, c)] = m[Behind(m, c)]
        BY <1>4, <2>2, <3>2
      <4> QED BY <1>2, <1>4, <2>2, <3>2, <4>1 DEF Answering
    <3> QED BY <3>1, <3>2
  <2>3. s # <<>> => Len(s) \in 1 .. Len(s)
    BY <1>1, EmptySeq
  <2> QED BY <1>2, <1>5, <2>1, <2>2, <2>3 DEF Answering
<1> QED
  BY <1>7, <1>8, <1>9, <1>10 DEF Sound

\* Return actions without a coroutine of their own are set by those who owe a result.
LEMMA Answered ==
  ASSUME NEW s, NEW top, NEW hand, NEW m, NEW b, NEW f, Sound(s, top, hand, m, b, f),
         NEW m2 \in [Coroutines -> Members],
         \A c \in Coroutines :
           \/ m2[c] = m[c]
           \/ /\ m[c].callback.of # Null /\ \E i \in 1 .. Len(s) : s[i] = c
              /\ m2[c].callback = m[c].callback /\ m2[c].parent = m[c].parent
              /\ Carries(m2[c].returnAction) /\ m2[c].returnAction.type # "error"
              /\ Behind(m2, c) = Null
  PROVE  Sound(s, top, hand, m2, b, f)
<1>1. /\ s \in Seq(Coroutines) /\ Len(s) \in Nat
      /\ \A i \in 1 .. Len(s) : s[i] \in Coroutines
      /\ \A c \in Coroutines : Behind(m, c) \in Coroutines \cup {Null}
  BY Known
<1>2. /\ Typed(s, top, hand, m, b, f) /\ Called(s, top, m)
      /\ Owned(s, hand, m, b, f) /\ Answering(s, top, hand, m)
  BY DEF Sound
<1>3. /\ \A c \in Coroutines : Behind(m2, c) = Behind(m, c)
      /\ \A c \in Coroutines : m2[c].callback = m[c].callback /\ m2[c].parent = m[c].parent
      /\ \A c \in Coroutines : m2[c] # m[c] => Owner(s, hand, m, c)
  <2>1. \A c \in Coroutines : m2[c] = m[c] => Behind(m2, c) = Behind(m, c)
    BY DEF Behind
  <2>2. \A c \in Coroutines : m[c].callback.of # Null => Behind(m, c) = Null
    BY <1>2 DEF Answering
  <2>3. \A c \in Coroutines : Behind(m2, c) = Behind(m, c)
    BY <2>1, <2>2
  <2>4. \A c \in Coroutines : m2[c].callback = m[c].callback /\ m2[c].parent = m[c].parent
    OBVIOUS
  <2>5. \A c \in Coroutines : m2[c] # m[c] => Owner(s, hand, m, c)
    BY DEF Owner
  <2> QED BY <2>3, <2>4, <2>5
<1>4. s # <<>> => /\ Len(s) \in 1 .. Len(s) /\ m2[s[Len(s)]] = m[s[Len(s)]]
  <2>1. ASSUME s # <<>> PROVE m2[s[Len(s)]] = m[s[Len(s)]]
    <3>1. Len(s) \in 1 .. Len(s)
      BY <1>1, <2>1, EmptySeq
    <3>2. m[s[Len(s)]].callback.of = Null
      BY <1>2, <2>1, <3>1 DEF Answering, Called
    <3> QED BY <1>1, <3>1, <3>2
  <2> QED BY <1>1, <2>1, EmptySeq
<1>5. \A c : Owner(s, hand, m2, c) <=> Owner(s, hand, m, c)
  BY <1>3 DEF Owner
<1>6. Typed(s, top, hand, m2, b, f)
  BY <1>2 DEF Typed
<1>7. Called(s, top, m2)
  <2>1. \A i \in 1 .. Len(s) - 1 : i \in 1 .. Len(s)
    BY <1>1
  <2> QED BY <1>1, <1>2, <1>3, <1>4, <2>1 DEF Called
<1>8. Owned(s, hand, m2, b, f)
  <2>1. \A c \in Coroutines : ~ Owner(s, hand, m2, c) => m2[c] = Unborn
    BY <1>2, <1>3, <1>5 DEF Owned
  <2> QED BY <1>2, <1>3, <1>5, <2>1 DEF Owned
<1>9. Answering(s, top, hand, m2)
  <2>1. \A c \in Coroutines : m2[c].callback.of # Null => Behind(m2, c) = Null
    BY <1>2, <1>3 DEF Answering
  <2>2. \A c \in Coroutines : Behind(m2, c) # Null => m2[Behind(m2, c)].callback.of = Null
    BY <1>1, <1>2, <1>3 DEF Answering
  <2>3. \A i \in 1 .. Len(s) : m2[s[i]].callback.of \in {Null, m2[s[i]].parent}
    BY <1>1, <1>2, <1>3 DEF Answering
  <2>4. hand # Null => m2[hand].callback.of \in {Null, top}
    BY <1>2, <1>3 DEF Answering, Typed
  <2>5. s # <<>> => m2[s[Len(s)]].returnAction = Action("none")
    BY <1>2, <1>4 DEF Answering
  <2> QED BY <2>1, <2>2, <2>3, <2>4, <2>5 DEF Answering
<1> QED
  BY <1>6, <1>7, <1>8, <1>9 DEF Sound

\* A coroutine is created and deleted at once.
LEMMA StarterDropped ==
  ASSUME NEW s, NEW top, NEW hand, NEW m, NEW b, NEW f, Sound(s, top, hand, m, b, f),
         b + 1 \in Coroutines, NEW f2 \in [Coroutines -> Nat],
         \A c \in Coroutines : f2[c] = f[c] + (IF c = b + 1 THEN 1 ELSE 0)
  PROVE  Sound(s, top, hand, m, b + 1, f2)
<1>1. /\ Typed(s, top, hand, m, b, f) /\ Called(s, top, m)
      /\ Owned(s, hand, m, b, f) /\ Answering(s, top, hand, m) /\ b \in Nat
  BY Known DEF Sound
<1>2. \A c \in Coroutines : c \in Nat /\ f[c] \in Nat
  BY <1>1, StackConstants DEF Typed, Coroutines
<1>3. \A c \in 1 .. b + 1 : f2[c] = IF Owner(s, hand, m, c) THEN 0 ELSE 1
  <2>1. ASSUME NEW c \in 1 .. b + 1 PROVE f2[c] = IF Owner(s, hand, m, c) THEN 0 ELSE 1
    <3>1. c \in Coroutines /\ (c = b + 1 => c > b) /\ (c # b + 1 => c \in 1 .. b)
      BY <1>1, StackConstants DEF Coroutines
    <3>2. CASE c = b + 1
      <4>1. f[c] = 0 /\ ~ Owner(s, hand, m, c)
        BY <1>1, <3>1, <3>2 DEF Owned
      <4> QED BY <3>1, <3>2, <4>1
    <3>3. CASE c # b + 1
      <4>1. f2[c] = f[c]
        BY <1>2, <3>1, <3>3
      <4> QED BY <1>1, <3>1, <3>3, <4>1 DEF Owned
    <3> QED BY <3>2, <3>3
  <2> QED BY <2>1
<1>4. \A c \in Coroutines : c > b + 1 => f2[c] = 0 /\ ~ Owner(s, hand, m, c)
  <2>1. \A c \in Coroutines : c > b + 1 => c > b /\ c # b + 1
    BY <1>1, <1>2
  <2>2. \A c \in Coroutines : c > b + 1 => f2[c] = f[c]
    BY <1>2, <2>1
  <2> QED BY <1>1, <2>1, <2>2 DEF Owned
<1>5. Owned(s, hand, m, b + 1, f2)
  BY <1>1, <1>3, <1>4 DEF Owned
<1>6. Typed(s, top, hand, m, b + 1, f2)
  BY <1>1 DEF Typed
<1> QED
  BY <1>1, <1>5, <1>6 DEF Sound

\* The coroutine in hand is called.
LEMMA CallTaken ==
  ASSUME NEW s, NEW top, NEW x, NEW m, NEW b, NEW f, Sound(s, top, x, m, b, f),
         x # Null, top # Null, NEW m2 \in [Coroutines -> Members],
         \A c \in Coroutines : c # x => m2[c] = m[c],
         m2[x].parent = top, m2[x].callback = m[x].callback,
         m2[x].returnAction = m[x].returnAction
  PROVE  Sound(<<x>> \o s, x, Null, m2, b, f)
<1> DEFINE t == <<x>> \o s
<1>1. /\ s \in Seq(Coroutines) /\ Len(s) \in Nat
      /\ \A i \in 1 .. Len(s) : s[i] \in Coroutines /\ s[i] # Null
      /\ \A c \in Coroutines : c # Null /\ Behind(m, c) \in Coroutines \cup {Null}
  BY Known
<1>2. /\ Typed(s, top, x, m, b, f) /\ Called(s, top, m)
      /\ Owned(s, x, m, b, f) /\ Answering(s, top, x, m) /\ x \in Coroutines
  BY DEF Sound, Typed
<1>3. /\ t \in Seq(Coroutines) /\ Len(t) = Len(s) + 1 /\ t[1] = x
      /\ \A i \in 1 .. Len(s) : t[i + 1] = s[i]
      /\ t # <<>> /\ s # <<>> /\ Len(s) \in 1 .. Len(s)
  <2>1. t \in Seq(Coroutines) /\ Len(t) = Len(s) + 1 /\ t[1] = x
    BY <1>1, <1>2
  <2>2. \A i \in 1 .. Len(s) : t[i + 1] = s[i]
    BY <1>1, <1>2
  <2>3. s # <<>>
    BY <1>2 DEF Called
  <2>4. t # <<>> /\ Len(s) \in 1 .. Len(s)
    BY <1>1, <2>1, <2>3, EmptySeq
  <2> QED BY <2>1, <2>2, <2>3, <2>4
<1> HIDE DEF t
<1>4. \A i \in 1 .. Len(t) : i = 1 \/ (i - 1 \in 1 .. Len(s) /\ t[i] = s[i - 1])
  <2>1. ASSUME NEW i \in 1 .. Len(t), i # 1
        PROVE  i - 1 \in 1 .. Len(s) /\ t[i] = s[i - 1]
    <3>1. i - 1 \in 1 .. Len(s) /\ (i - 1) + 1 = i
      BY <1>1, <1>3, <2>1
    <3> QED BY <1>3, <3>1
  <2> QED BY <2>1
<1>5. \A c \in Coroutines : /\ Behind(m2, c) = Behind(m, c)
                           /\ m2[c].callback = m[c].callback
                           /\ m2[c].returnAction = m[c].returnAction
  BY DEF Behind
<1>6. \A i \in 1 .. Len(s) : s[i] # x /\ m2[s[i]] = m[s[i]]
  BY <1>1, <1>2 DEF Owned
<1>7. \A c : (\E i \in 1 .. Len(t) : t[i] = c) <=> c = x \/ \E i \in 1 .. Len(s) : s[i] = c
  <2>1. 1 \in 1 .. Len(t) /\ \A i \in 1 .. Len(s) : i + 1 \in 1 .. Len(t)
    BY <1>1, <1>3
  <2>2. \A i \in 1 .. Len(s) : \E j \in 1 .. Len(t) : t[j] = s[i]
    BY <1>3, <2>1
  <2>3. \A i \in 1 .. Len(t) : t[i] = x \/ \E j \in 1 .. Len(s) : s[j] = t[i]
    BY <1>3, <1>4
  <2>4. \E i \in 1 .. Len(t) : t[i] = x
    BY <1>3, <2>1
  <2> QED BY <2>2, <2>3, <2>4
<1>8. \A c \in Coroutines : Owner(t, Null, m2, c) <=> Owner(s, x, m, c)
  BY <1>1, <1>5, <1>7 DEF Owner
<1>9. Typed(t, x, Null, m2, b, f)
  BY <1>2, <1>3, <1>5 DEF Typed
<1>10. Called(t, x, m2)
  <2>1. t[1] = x /\ m2[t[Len(t)]].parent = Null
    BY <1>2, <1>3, <1>6 DEF Called
  <2>2. ASSUME NEW i \in 1 .. Len(t) - 1 PROVE m2[t[i]].parent = t[i + 1]
    <3>1. CASE i = 1
      <4>1. t[i] = x /\ t[i + 1] = s[1] /\ s[1] = top
        BY <1>1, <1>2, <1>3, <3>1 DEF Called
      <4> QED BY <4>1
    <3>2. CASE i # 1
      <4>1. /\ i - 1 \in 1 .. Len(s) - 1 /\ i - 1 \in 1 .. Len(s) /\ i \in 1 .. Len(s)
            /\ i \in 1 .. Len(t) /\ (i - 1) + 1 = i
        BY <1>1, <1>3, <3>2
      <4>2. t[i] = s[i - 1] /\ t[i + 1] = s[i]
        BY <1>3, <1>4, <3>2, <4>1
      <4>3. m[s[i - 1]].parent = s[(i - 1) + 1]
        BY <1>2, <4>1 DEF Called
      <4> QED BY <1>6, <4>1, <4>2, <4>3
    <3> QED BY <3>1, <3>2
  <2>3. ASSUME NEW i \in 1 .. Len(t), NEW j \in 1 .. Len(t), t[i] = t[j] PROVE i = j
    <3>1. CASE i = 1 \/ j = 1
      BY <1>3, <1>4, <1>6, <2>3, <3>1
    <3>2. CASE i # 1 /\ j # 1
      <4>1. i - 1 = j - 1
        BY <1>2, <1>4, <2>3, <3>2 DEF Called
      <4> QED BY <4>1
    <3> QED BY <3>1, <3>2
  <2> QED BY <1>3, <2>1, <2>2, <2>3 DEF Called
<1>11. Owned(t, Null, m2, b, f)
  <2>1. ASSUME NEW i \in 1 .. Len(t)
        PROVE  t[i] # Null /\ \A c \in Coroutines : t[i] # Behind(m2, c)
    <3>1. CASE i = 1
      BY <1>2, <1>3, <1>5, <3>1 DEF Owned
    <3>2. CASE i # 1
      BY <1>1, <1>2, <1>4, <1>5, <3>2 DEF Owned
    <3> QED BY <3>1, <3>2
  <2>2. \A c, d \in Coroutines :
          Behind(m2, c) # Null /\ Behind(m2, c) = Behind(m2, d) => c = d
    BY <1>2, <1>5 DEF Owned
  <2>3. \A c \in Coroutines :
          Behind(m2, c) # Null => c = Null \/ \E i \in 1 .. Len(t) : t[i] = c
    BY <1>2, <1>5, <1>7 DEF Owned
  <2>4. \A c \in Coroutines : ~ Owner(t, Null, m2, c) => m2[c] = Unborn
    <3>1. Owner(s, x, m, x)
      BY DEF Owner
    <3> QED BY <1>2, <1>8, <3>1 DEF Owned
  <2>5. \A c \in 1 .. b : f[c] = IF Owner(t, Null, m2, c) THEN 0 ELSE 1
    <3>1. 1 .. b \subseteq Coroutines
      BY <1>2, StackConstants DEF Typed, Coroutines
    <3> QED BY <1>2, <1>8, <3>1 DEF Owned
  <2>6. \A c \in Coroutines : c > b => f[c] = 0 /\ ~ Owner(t, Null, m2, c)
    BY <1>2, <1>8 DEF Owned
  <2> QED BY <2>1, <2>2, <2>3, <2>4, <2>5, <2>6 DEF Owned
<1>12. Answering(t, x, Null, m2)
  <2>1. \A c \in Coroutines : m2[c].callback.of # Null => Behind(m2, c) = Null
    BY <1>2, <1>5 DEF Answering
  <2>2. \A c \in Coroutines : Behind(m2, c) # Null => m2[Behind(m2, c)].callback.of = Null
    BY <1>1, <1>2, <1>5 DEF Answering
  <2>3. ASSUME NEW i \in 1 .. Len(t)
        PROVE  m2[t[i]].callback.of \in {Null, m2[t[i]].parent}
    <3>1. CASE i = 1
      BY <1>2, <1>3, <3>1 DEF Answering
    <3>2. CASE i # 1
      BY <1>2, <1>4, <1>6, <3>2 DEF Answering
    <3> QED BY <3>1, <3>2
  <2>4. m2[t[Len(t)]].returnAction = Action("none")
    BY <1>2, <1>3, <1>6 DEF Answering
  <2> QED BY <2>1, <2>2, <2>3, <2>4 DEF Answering
<1>13. Sound(t, x, Null, m2, b, f)
  BY <1>9, <1>10, <1>11, <1>12 DEF Sound
<1> QED
  BY <1>13 DEF t

\* The running coroutine goes, and what it had behind it comes to hand.
LEMMA Returned ==
  ASSUME NEW s, NEW top, NEW m, NEW b, NEW f, Sound(s, top, Null, m, b, f), top # Null,
         NEW m2 \in [Coroutines -> Members],
         \A c \in Coroutines : m2[c] = IF c = top THEN Unborn ELSE m[c],
         NEW f2 \in [Coroutines -> Nat],
         \A c \in Coroutines : f2[c] = f[c] + (IF c = top THEN 1 ELSE 0)
  PROVE  Sound(Tail(s), m[top].parent, Behind(m, top), m2, b, f2)
<1> DEFINE t == Tail(s)
           h == Behind(m, top)
<1>1. /\ s \in Seq(Coroutines) /\ Len(s) \in Nat
      /\ \A i \in 1 .. Len(s) : s[i] \in Coroutines /\ s[i] # Null
      /\ \A c \in Coroutines : c # Null /\ Behind(m, c) \in Coroutines \cup {Null}
      /\ Of(Unborn.returnAction) = Null /\ Unborn.callback.of = Null
  BY Known
<1>2. /\ Typed(s, top, Null, m, b, f) /\ Called(s, top, m)
      /\ Owned(s, Null, m, b, f) /\ Answering(s, top, Null, m)
      /\ top \in Coroutines /\ h \in Coroutines \cup {Null}
  BY <1>1 DEF Sound, Typed
<1>3. /\ s # <<>> /\ s[1] = top /\ Len(s) >= 1
      /\ t \in Seq(Coroutines) /\ Len(t) = Len(s) - 1
      /\ \A i \in 1 .. Len(t) : t[i] = s[i + 1] /\ i + 1 \in 1 .. Len(s)
  <2>1. s # <<>> /\ s[1] = top
    BY <1>2 DEF Called
  <2>2. Len(s) >= 1
    BY <1>1, <2>1, EmptySeq
  <2> QED BY <1>1, <2>1, <2>2
<1> HIDE DEF t
<1>4. \A i \in 1 .. Len(t) : t[i] # top /\ m2[t[i]] = m[t[i]] /\ t[i] \in Coroutines
  <2>1. ASSUME NEW i \in 1 .. Len(t) PROVE t[i] # top /\ t[i] \in Coroutines
    <3>1. i + 1 # 1 /\ 1 \in 1 .. Len(s)
      BY <1>3
    <3>2. s[i + 1] # s[1]
      BY <1>2, <1>3, <3>1 DEF Called
    <3> QED BY <1>1, <1>3, <3>2
  <2> QED BY <2>1
<1>5. \A c \in Coroutines : Behind(m2, c) = IF c = top THEN Null ELSE Behind(m, c)
  BY <1>1 DEF Behind
<1>6. \A c : (\E i \in 1 .. Len(s) : s[i] = c) <=> c = top \/ \E i \in 1 .. Len(t) : t[i] = c
  <2>1. ASSUME NEW i \in 1 .. Len(s), i # 1 PROVE \E j \in 1 .. Len(t) : t[j] = s[i]
    <3>1. i - 1 \in 1 .. Len(t) /\ (i - 1) + 1 = i
      BY <1>3, <2>1
    <3> QED BY <1>3, <3>1
  <2>2. \A i \in 1 .. Len(s) : s[i] = top \/ \E j \in 1 .. Len(t) : t[j] = s[i]
    BY <1>3, <2>1
  <2>3. \E i \in 1 .. Len(s) : s[i] = top
    <3>1. 1 \in 1 .. Len(s)
      BY <1>3
    <3> QED BY <1>3, <3>1
  <2>4. \A i \in 1 .. Len(t) : \E j \in 1 .. Len(s) : s[j] = t[i]
    BY <1>3
  <2>5. ASSUME NEW c, NEW i \in 1 .. Len(s), s[i] = c
        PROVE  c = top \/ \E j \in 1 .. Len(t) : t[j] = c
    BY <2>2, <2>5
  <2>6. ASSUME NEW c, c = top \/ \E j \in 1 .. Len(t) : t[j] = c
        PROVE  \E i \in 1 .. Len(s) : s[i] = c
    <3>1. CASE c = top
      BY <2>3, <3>1
    <3>2. ASSUME NEW j \in 1 .. Len(t), t[j] = c PROVE \E i \in 1 .. Len(s) : s[i] = c
      BY <2>4, <3>2
    <3> QED BY <2>6, <3>1, <3>2
  <2> QED BY <2>5, <2>6
<1>7. \A c \in Coroutines : Owner(t, h, m2, c) <=> c # top /\ Owner(s, Null, m, c)
  <2>1. \A c \in Coroutines : c # top =>
          ((h = c \/ \E d \in Coroutines : Behind(m2, d) = c)
             <=> \E d \in Coroutines : Behind(m, d) = c)
    BY <1>1, <1>2, <1>5
  <2>2. ~ Owner(t, h, m2, top)
    <3>1. \A d \in Coroutines : Behind(m, d) # top
      <4>1. 1 \in 1 .. Len(s)
        BY <1>3
      <4> QED BY <1>2, <1>3, <4>1 DEF Owned
    <3> QED BY <1>1, <1>2, <1>4, <1>5, <3>1 DEF Owner
  <2> QED BY <1>1, <1>6, <2>1, <2>2 DEF Owner
<1>8. Typed(t, m[top].parent, h, m2, b, f2)
  <2>1. ASSUME NEW c \in Coroutines
        PROVE  Carries(m2[c].returnAction) /\ m2[c].returnAction.type # "error"
    <3>1. CASE c = top
      BY <3>1 DEF Carries, AnAction, Unborn, Action, Functions, Null
    <3>2. CASE c # top
      BY <1>2, <3>2 DEF Typed
    <3> QED BY <3>1, <3>2
  <2>2. m[top].parent \in Coroutines \cup {Null}
    BY <1>2 DEF Typed, Members
  <2> QED BY <1>2, <1>3, <2>1, <2>2 DEF Typed
<1>9. Called(t, m[top].parent, m2)
  <2>1. CASE Len(s) = 1
    <3>1. t = <<>> /\ Len(t) = 0
      BY <1>3, <2>1, EmptySeq
    <3>2. m[top].parent = Null
      BY <1>2, <1>3, <2>1 DEF Called
    <3> QED BY <3>1, <3>2 DEF Called
  <2>2. CASE Len(s) # 1
    <3>1. /\ Len(t) \in 1 .. Len(t) /\ 1 \in 1 .. Len(t) /\ Len(t) + 1 = Len(s)
          /\ 1 \in 1 .. Len(s) - 1 /\ t # <<>>
      BY <1>3, <2>2, EmptySeq
    <3>2. m[top].parent = t[1]
      BY <1>2, <1>3, <3>1 DEF Called
    <3>3. m2[t[Len(t)]].parent = Null
      BY <1>2, <1>3, <1>4, <3>1 DEF Called
    <3>4. ASSUME NEW i \in 1 .. Len(t) - 1 PROVE m2[t[i]].parent = t[i + 1]
      <4>1. /\ i \in 1 .. Len(t) /\ i + 1 \in 1 .. Len(t) /\ i + 1 \in 1 .. Len(s) - 1
        BY <1>3
      <4>2. m[s[i + 1]].parent = s[(i + 1) + 1]
        BY <1>2, <4>1 DEF Called
      <4> QED BY <1>3, <1>4, <4>1, <4>2
    <3>5. ASSUME NEW i \in 1 .. Len(t), NEW j \in 1 .. Len(t), t[i] = t[j] PROVE i = j
      <4>1. i + 1 = j + 1
        BY <1>2, <1>3, <3>5, SMTT(30) DEF Called
      <4> QED BY <4>1
    <3>6. t[1] # Null
      BY <1>1, <1>4, <3>1
    <3> QED BY <3>1, <3>2, <3>3, <3>4, <3>5, <3>6 DEF Called
  <2> QED BY <2>1, <2>2
<1>10. Owned(t, h, m2, b, f2)
  <2>1. ASSUME NEW i \in 1 .. Len(t)
        PROVE  t[i] # h /\ \A c \in Coroutines : t[i] # Behind(m2, c)
    <3>1. \A c \in Coroutines : t[i] # Behind(m, c)
      BY <1>2, <1>3 DEF Owned
    <3> QED BY <1>1, <1>2, <1>4, <1>5, <3>1
  <2>2. \A c \in Coroutines : h # Null => h # Behind(m2, c)
    BY <1>2, <1>5 DEF Owned
  <2>3. \A c, d \in Coroutines :
          Behind(m2, c) # Null /\ Behind(m2, c) = Behind(m2, d) => c = d
    BY <1>2, <1>5 DEF Owned
  <2>4. \A c \in Coroutines :
          Behind(m2, c) # Null => c = h \/ \E i \in 1 .. Len(t) : t[i] = c
    BY <1>1, <1>2, <1>5, <1>6 DEF Owned
  <2>5. \A c \in Coroutines : ~ Owner(t, h, m2, c) => m2[c] = Unborn
    BY <1>2, <1>7 DEF Owned
  <2>6. Owner(s, Null, m, top)
    BY <1>6 DEF Owner
  <2>7. \A c \in Coroutines : f[c] \in Nat /\ c \in Nat /\ b \in Nat
    BY <1>2, StackConstants DEF Typed, Coroutines
  <2>8. \A c \in 1 .. b : f2[c] = IF Owner(t, h, m2, c) THEN 0 ELSE 1
    <3>1. ASSUME NEW c \in 1 .. b PROVE f2[c] = IF Owner(t, h, m2, c) THEN 0 ELSE 1
      <4>1. c \in Coroutines /\ f[c] = IF Owner(s, Null, m, c) THEN 0 ELSE 1
        BY <1>2, StackConstants DEF Typed, Coroutines, Owned
      <4>2. CASE c = top
        BY <1>7, <2>6, <4>1, <4>2
      <4>3. CASE c # top
        BY <1>7, <2>7, <4>1, <4>3
      <4> QED BY <4>2, <4>3
    <3> QED BY <3>1
  <2>9. \A c \in Coroutines : c > b => f2[c] = 0 /\ ~ Owner(t, h, m2, c)
    <3>1. ASSUME NEW c \in Coroutines, c > b
          PROVE  f2[c] = 0 /\ ~ Owner(t, h, m2, c)
      <4>1. f[c] = 0 /\ ~ Owner(s, Null, m, c)
        BY <1>2, <3>1 DEF Owned
      <4> QED BY <1>7, <2>6, <2>7, <4>1
    <3> QED BY <3>1
  <2> QED BY <2>1, <2>2, <2>3, <2>4, <2>5, <2>8, <2>9 DEF Owned
<1>11. Answering(t, m[top].parent, h, m2)
  <2>1. \A c \in Coroutines : m2[c].callback.of # Null => Behind(m2, c) = Null
    BY <1>1, <1>2, <1>5 DEF Answering
  <2>2. \A c \in Coroutines : Behind(m, c) # Null => m2[Behind(m, c)].callback.of = Null
    BY <1>1, <1>2 DEF Answering
  <2>3. ASSUME NEW i \in 1 .. Len(t)
        PROVE  m2[t[i]].callback.of \in {Null, m2[t[i]].parent}
    <3>1. m[s[i + 1]].callback.of \in {Null, m[s[i + 1]].parent}
      BY <1>2, <1>3 DEF Answering
    <3>2. m2[t[i]] = m[s[i + 1]]
      BY <1>3, <1>4
    <3> QED BY <3>1, <3>2
  <2>4. t # <<>> => m2[t[Len(t)]].returnAction = Action("none")
    <3>1. t # <<>> => Len(t) \in 1 .. Len(t) /\ Len(t) + 1 = Len(s)
      BY <1>3, EmptySeq
    <3> QED BY <1>2, <1>3, <1>4, <3>1 DEF Answering
  <2> QED BY <1>2, <1>5, <2>1, <2>2, <2>3, <2>4 DEF Answering
<1>12. Sound(t, m[top].parent, h, m2, b, f2)
  BY <1>8, <1>9, <1>10, <1>11 DEF Sound
<1> QED
  BY <1>12 DEF t

\* What is in hand is freed, and has nothing behind it.
LEMMA HandFreed ==
  ASSUME NEW s, NEW top, NEW h, NEW m, NEW b, NEW f, Sound(s, top, h, m, b, f),
         h # Null, Behind(m, h) = Null,
         NEW m2 \in [Coroutines -> Members],
         \A c \in Coroutines : m2[c] = IF c = h THEN Unborn ELSE m[c],
         NEW f2 \in [Coroutines -> Nat],
         \A c \in Coroutines : f2[c] = f[c] + (IF c = h THEN 1 ELSE 0)
  PROVE  Sound(s, top, Null, m2, b, f2)
<1>1. /\ s \in Seq(Coroutines) /\ Len(s) \in Nat
      /\ \A i \in 1 .. Len(s) : s[i] \in Coroutines /\ s[i] # Null
      /\ \A c \in Coroutines : c # Null /\ Behind(m, c) \in Coroutines \cup {Null}
      /\ Of(Unborn.returnAction) = Null /\ Unborn.callback.of = Null
  BY Known
<1>2. /\ Typed(s, top, h, m, b, f) /\ Called(s, top, m)
      /\ Owned(s, h, m, b, f) /\ Answering(s, top, h, m) /\ h \in Coroutines
  BY DEF Sound, Typed
<1>3. \A i \in 1 .. Len(s) : s[i] # h /\ m2[s[i]] = m[s[i]]
  BY <1>1, <1>2 DEF Owned
<1>4. \A c \in Coroutines : Behind(m2, c) = Behind(m, c)
  BY <1>1 DEF Behind
<1>5. \A c \in Coroutines : Behind(m, c) # h
  BY <1>2 DEF Owned
<1>6. \A c \in Coroutines : Owner(s, Null, m2, c) <=> c # h /\ Owner(s, h, m, c)
  BY <1>1, <1>3, <1>4, <1>5 DEF Owner
<1>7. Typed(s, top, Null, m2, b, f2)
  <2>1. ASSUME NEW c \in Coroutines
        PROVE  Carries(m2[c].returnAction) /\ m2[c].returnAction.type # "error"
    <3>1. CASE c = h
      BY <3>1 DEF Carries, AnAction, Unborn, Action, Functions, Null
    <3>2. CASE c # h
      BY <1>2, <3>2 DEF Typed
    <3> QED BY <3>1, <3>2
  <2> QED BY <1>2, <2>1 DEF Typed
<1>8. s # <<>> => Len(s) \in 1 .. Len(s)
  BY <1>1, EmptySeq
<1>9. Called(s, top, m2)
  <2>1. \A i \in 1 .. Len(s) - 1 : i \in 1 .. Len(s)
    BY <1>1
  <2> QED BY <1>2, <1>3, <1>8, <2>1, SMTT(30) DEF Called
<1>10. Owned(s, Null, m2, b, f2)
  <2>1. \A i \in 1 .. Len(s) : s[i] # Null /\ \A c \in Coroutines : s[i] # Behind(m2, c)
    BY <1>1, <1>2, <1>4 DEF Owned
  <2>2. \A c, d \in Coroutines :
          Behind(m2, c) # Null /\ Behind(m2, c) = Behind(m2, d) => c = d
    BY <1>2, <1>4 DEF Owned
  <2>3. \A c \in Coroutines :
          Behind(m2, c) # Null => c = Null \/ \E i \in 1 .. Len(s) : s[i] = c
    BY <1>2, <1>4 DEF Owned
  <2>4. \A c \in Coroutines : ~ Owner(s, Null, m2, c) => m2[c] = Unborn
    BY <1>2, <1>6 DEF Owned
  <2>5. Owner(s, h, m, h)
    BY DEF Owner
  <2>6. \A c \in Coroutines : f[c] \in Nat /\ c \in Nat /\ b \in Nat
    BY <1>2, StackConstants DEF Typed, Coroutines
  <2>7. ASSUME NEW c \in 1 .. b PROVE f2[c] = IF Owner(s, Null, m2, c) THEN 0 ELSE 1
    <3>1. c \in Coroutines /\ f[c] = IF Owner(s, h, m, c) THEN 0 ELSE 1
      BY <1>2, StackConstants DEF Typed, Coroutines, Owned
    <3>2. CASE c = h
      BY <1>6, <2>5, <3>1, <3>2
    <3>3. CASE c # h
      BY <1>6, <2>6, <3>1, <3>3
    <3> QED BY <3>2, <3>3
  <2>8. ASSUME NEW c \in Coroutines, c > b PROVE f2[c] = 0 /\ ~ Owner(s, Null, m2, c)
    <3>1. f[c] = 0 /\ ~ Owner(s, h, m, c)
      BY <1>2, <2>8 DEF Owned
    <3> QED BY <1>6, <2>5, <2>6, <3>1
  <2> QED BY <2>1, <2>2, <2>3, <2>4, <2>7, <2>8 DEF Owned
<1>11. Answering(s, top, Null, m2)
  <2>1. \A c \in Coroutines : m2[c].callback.of # Null => Behind(m2, c) = Null
    BY <1>1, <1>2, <1>4 DEF Answering
  <2>2. \A c \in Coroutines : Behind(m2, c) # Null => m2[Behind(m2, c)].callback.of = Null
    BY <1>1, <1>2, <1>4 DEF Answering
  <2>3. \A i \in 1 .. Len(s) : m2[s[i]].callback.of \in {Null, m2[s[i]].parent}
    BY <1>2, <1>3 DEF Answering
  <2>4. s # <<>> => m2[s[Len(s)]].returnAction = Action("none")
    BY <1>2, <1>3, <1>8 DEF Answering
  <2> QED BY <2>1, <2>2, <2>3, <2>4 DEF Answering
<1> QED
  BY <1>7, <1>9, <1>10, <1>11 DEF Sound

-----------------------------------------------------------------------------
(* The state of a handle *)

\* The invariant speaks of calls that are a constant.
LEMMA TheCalls ==
  ASSUME StackInv
  PROVE  \E s \in Seq(Coroutines) :
           s = Stack /\ Sound(s, _CP, Of(action), coroutine, born, freed)
BY DEF StackInv, Sound, Typed

\* After a step that leaves the calls s the invariant holds.
LEMMA Arrived ==
  ASSUME NEW s, Sound(s, _CP', Of(action'), coroutine', born', freed'), HandInv',
         _FP' \in APointer, taking' \in BOOLEAN, raised' \in 0 .. MaxErrors,
         disposed' \in [Errors -> Nat]
  PROVE  StackInv' /\ Stack' = s
<1>1. s \in Seq(Coroutines) /\ Called(s, _CP', coroutine')
  BY DEF Sound, Typed
<1>2. Stack' = s
  <2>1. CalledFrom(_CP', coroutine') = s
    BY <1>1, CallsAre
  <2> QED BY <2>1 DEF Stack
<1>3. StackTypeOK'
  BY DEF StackTypeOK, Sound, Typed, HandInv, Carries
<1> QED
  BY <1>2, <1>3 DEF StackInv

\* What an action owns directly.
LEMMA PointeeIs ==
  \A a : Pointee(a) = IF Of(a) = Null THEN {} ELSE {Of(a)}
BY DEF Pointee, Of

\* Coroutines and errors are freed once.
LEMMA EachFreedOnce ==
  ASSUME StackInv
  PROVE  CoroutinesOwned
<1>1. PICK s \in Seq(Coroutines) :
        s = Stack /\ Sound(s, _CP, Of(action), coroutine, born, freed)
  BY TheCalls
<1> DEFINE h == Of(action)
           next(c) == Behind(coroutine, c)
<1>2. /\ Owned(s, h, coroutine, born, freed) /\ Answering(s, _CP, h, coroutine)
      /\ h \in Coroutines \cup {Null}
      /\ \A c \in Coroutines : c # Null /\ next(c) \in Coroutines \cup {Null}
      /\ \A i \in 1 .. Len(s) : s[i] \in Coroutines
      /\ born \in Coroutines
  BY <1>1, Known DEF Sound, Typed
<1>3. OnStack = {s[i] : i \in 1 .. Len(s)}
  BY <1>1, LenProperties DEF OnStack, Range
<1>4. ASSUME NEW c \in Coroutines, next(c) # Null PROVE next(next(c)) = Null
  <2>1. next(c) \in Coroutines /\ next(c) # h /\ \A i \in 1 .. Len(s) : s[i] # next(c)
    BY <1>2, <1>4 DEF Owned
  <2> QED BY <1>2, <2>1 DEF Owned
<1>5. ASSUME NEW c \in Coroutines
      PROVE  Pointee(coroutine[c].returnAction) = IF next(c) = Null THEN {} ELSE {next(c)}
  BY PointeeIs DEF Behind
<1>6. Chain(action) = IF h = Null THEN {} ELSE {h} \cup (IF next(h) = Null THEN {} ELSE {next(h)})
  <2>1. ASSUME h # Null, NEW d \in Pointee(coroutine[h].returnAction)
        PROVE  Pointee(coroutine[d].returnAction) = {}
    <3>1. d = next(h) /\ next(h) # Null /\ d \in Coroutines
      BY <1>2, <1>5, <2>1
    <3> QED BY <1>2, <1>4, <1>5, <2>1, <3>1
  <2>2. Chain(action) = IF h = Null THEN {} ELSE {h} \cup Pointee(coroutine[h].returnAction)
    BY <2>1, ChainIs
  <2> QED BY <1>2, <1>5, <2>2
<1>7. ASSUME NEW c \in Coroutines
      PROVE  WithChain(c) = {c} \cup (IF next(c) = Null THEN {} ELSE {next(c)})
  <2> DEFINE a == coroutine[c].returnAction
  <2>1. Of(a) = next(c)
    BY DEF Behind
  <2>2. next(c) # Null => Pointee(coroutine[next(c)].returnAction) = {}
    BY <1>2, <1>4, <1>5
  <2> HIDE DEF a
  <2>3. Chain(a) = IF next(c) = Null THEN {} ELSE {next(c)} \cup {}
    <3> HIDE DEF next
    <3>1. Of(a) # Null => \A d \in Pointee(coroutine[Of(a)].returnAction) :
                             Pointee(coroutine[d].returnAction) = {}
      BY <2>1, <2>2
    <3> QED BY <2>1, <2>2, <3>1, ChainIs
  <2> QED BY <2>3 DEF WithChain, a
<1>8. ASSUME NEW c \in Coroutines
      PROVE  c \in Chain(action) \cup UNION {WithChain(d) : d \in OnStack}
               <=> Owner(s, h, coroutine, c)
  <2>1. c \in Chain(action) <=> h = c \/ (h # Null /\ next(h) = c)
    BY <1>2, <1>6
  <2>2. c \in UNION {WithChain(d) : d \in OnStack}
          <=> \E i \in 1 .. Len(s) : s[i] = c \/ next(s[i]) = c
    <3>1. ASSUME NEW i \in 1 .. Len(s)
          PROVE  c \in WithChain(s[i]) <=> s[i] = c \/ next(s[i]) = c
      <4> DEFINE d == s[i]
      <4>1. d \in Coroutines
        BY <1>2
      <4> HIDE DEF d, next
      <4>2. c \in WithChain(d) <=> d = c \/ next(d) = c
        BY <1>2, <1>7, <4>1
      <4> QED BY <4>2 DEF d
    <3>2. c \in UNION {WithChain(d) : d \in OnStack}
            <=> \E i \in 1 .. Len(s) : c \in WithChain(s[i])
      BY <1>3
    <3> QED BY <3>1, <3>2
  <2>3. (\E d \in Coroutines : next(d) = c)
          <=> (h # Null /\ next(h) = c) \/ \E i \in 1 .. Len(s) : next(s[i]) = c
    <3>1. ASSUME NEW d \in Coroutines, next(d) = c
          PROVE  d = h \/ \E i \in 1 .. Len(s) : s[i] = d
      BY <1>2, <3>1 DEF Owned
    <3> HIDE DEF next
    <3> QED BY <1>2, <3>1
  <2> HIDE DEF h
  <2> QED BY <2>1, <2>2, <2>3 DEF Owner
<1>9. 1 .. born \subseteq Coroutines
  BY <1>2, StackConstants DEF Coroutines
<1>10. \A c \in 1 .. born :
         freed[c] = IF c \in Chain(action) \cup UNION {WithChain(d) : d \in OnStack}
                    THEN 0 ELSE 1
  BY <1>2, <1>8, <1>9 DEF Owned
<1>11. \A e \in 1 .. raised :
         disposed[e] = IF action.type = "error" /\ action.of = e THEN 0 ELSE 1
  <2>1. \A e \in 1 .. raised : e \in Errors /\ e <= raised
    BY StackConstants DEF StackInv, StackTypeOK, Errors
  <2> QED BY <2>1 DEF StackInv, HandInv
<1>12. \A c \in OnStack : coroutine[c].callback.of \in {Null, coroutine[c].parent}
  BY <1>2, <1>3 DEF Answering
<1> QED
  BY <1>10, <1>11, <1>12 DEF CoroutinesOwned, FreedOnce, ResultToStarter

-----------------------------------------------------------------------------
(* What each step does to calls and owners *)

\* Actions for which nothing is created are of three types and own nothing.
LEMMA PlainIs ==
  ASSUME NEW c \in Coroutines, NEW a \in Plain(c)
  PROVE  /\ Carries(a) /\ Of(a) = Null /\ a.type \in {"yieldTo", "repeat", "finish"}
BY DEF Plain, YieldTo, Action, Carries, AnAction, Of, Coroutines, Functions, Null

\* The running coroutine, or its handler, starts one or two.
LEMMA ThenStarted ==
  ASSUME NEW s, Sound(s, _CP, Null, coroutine, born, freed), NEW a, Carries(a),
         a.type # "error", Of(a) = Null, StartThen(_CP, a)
  PROVE  /\ Sound(s, _CP, Of(action'), coroutine', born', freed)
         /\ Carries(action') /\ action'.type = "coroutine"
         /\ \A i \in 1 .. Len(s) : coroutine'[s[i]] = coroutine[s[i]]
<1>1. /\ born \in Nat /\ \A c \in Coroutines : c > born => coroutine[c] = Unborn
      /\ \A i \in 1 .. Len(s) : s[i] \in Coroutines /\ s[i] <= born
      /\ \A c \in Coroutines : c # Null /\ c \in Nat
      /\ coroutine \in [Coroutines -> Members] /\ a \in AnAction
      /\ Unborn.callback.of = Null
  BY Known DEF Sound, Typed, Carries
<1>2. \A c \in Coroutines : /\ Of(Start(c)) = c /\ Carries(Start(c)) /\ Start(c) \in AnAction
                           /\ Start(c).type = "coroutine"
  BY <1>1 DEF Of, Start, Action, Carries, AnAction, Functions, Null
<1>3. CASE /\ CanStart(1) /\ born' = born + 1
           /\ coroutine' = [coroutine EXCEPT ![born + 1].returnAction = a]
           /\ action' = Start(born + 1)
  <2> DEFINE n == born + 1
  <2>1. n \in Coroutines /\ n > born
    BY <1>1, <1>3, StackConstants DEF CanStart, Coroutines
  <2>2. /\ coroutine' \in [Coroutines -> Members]
        /\ \A c \in Coroutines : c # n => coroutine'[c] = coroutine[c]
        /\ coroutine'[n].returnAction = a /\ coroutine'[n].callback = coroutine[n].callback
    BY <1>1, <1>3, <2>1 DEF Members
  <2>3. Behind(coroutine', n) = Null /\ coroutine'[n].callback.of = Null
    BY <1>1, <2>1, <2>2 DEF Behind
  <2>4. Sound(s, _CP, n, coroutine', n, freed)
    BY <2>1, <2>2, <2>3, Started
  <2>5. \A i \in 1 .. Len(s) : coroutine'[s[i]] = coroutine[s[i]]
    BY <1>1, <2>1, <2>2
  <2> QED BY <1>2, <1>3, <2>1, <2>4, <2>5
<1>4. CASE /\ CanStart(2) /\ born' = born + 2
           /\ coroutine' = [coroutine EXCEPT ![born + 1].returnAction = Start(born + 2),
                                             ![born + 2].returnAction = a]
           /\ action' = Start(born + 1)
  <2> DEFINE n == born + 1
             k == born + 2
  <2>1. n \in Coroutines /\ n > born /\ k \in Coroutines /\ k > born /\ n # k
    BY <1>1, <1>4, StackConstants DEF CanStart, Coroutines
  <2>2. /\ coroutine' \in [Coroutines -> Members]
        /\ \A c \in Coroutines : c # n /\ c # k => coroutine'[c] = coroutine[c]
        /\ coroutine'[n].returnAction = Start(k)
        /\ coroutine'[n].callback = coroutine[n].callback
        /\ coroutine'[k].returnAction = a /\ coroutine'[k].callback = coroutine[k].callback
    <3>1. Start(k) \in AnAction
      BY <1>2, <2>1
    <3> QED BY <1>1, <1>4, <2>1, <3>1, SMTT(30) DEF Members
  <2>3. /\ Behind(coroutine', k) = Null /\ coroutine'[n].callback.of = Null
        /\ coroutine'[k].callback.of = Null
    BY <1>1, <2>1, <2>2 DEF Behind
  <2>4. Sound(s, _CP, n, coroutine', k, freed)
    BY <2>1, <2>2, <2>3, StartedTwo
  <2>5. \A i \in 1 .. Len(s) : coroutine'[s[i]] = coroutine[s[i]]
    <3>1. \A c \in Coroutines : c <= born => c # n /\ c # k
      BY <1>1
    <3> QED BY <1>1, <2>2, <3>1
  <2> QED BY <1>2, <1>4, <2>1, <2>4, <2>5
<1> QED
  BY <1>3, <1>4 DEF StartThen

\* It starts one for a result.
LEMMA ForResultStarted ==
  ASSUME NEW s, Sound(s, _CP, Null, coroutine, born, freed), _CP \in Coroutines,
         NEW fn \in Functions, StartForResult(_CP, fn)
  PROVE  /\ Sound(s, _CP, Of(action'), coroutine', born', freed)
         /\ Carries(action') /\ action'.type = "coroutine"
         /\ \A i \in 1 .. Len(s) : coroutine'[s[i]] = coroutine[s[i]]
<1> DEFINE n == born + 1
<1>1. /\ born \in Nat /\ \A c \in Coroutines : c > born => coroutine[c] = Unborn
      /\ \A i \in 1 .. Len(s) : s[i] \in Coroutines /\ s[i] <= born
      /\ \A c \in Coroutines : c # Null /\ c \in Nat
      /\ coroutine \in [Coroutines -> Members] /\ Of(Unborn.returnAction) = Null
      /\ \A c \in Coroutines : Carries(coroutine[c].returnAction)
                              /\ coroutine[c].returnAction.type # "error"
  BY Known DEF Sound, Typed
<1>2. /\ n \in Coroutines /\ n > born /\ born' = n /\ action' = Start(n)
      /\ coroutine' = [coroutine EXCEPT ![n].callback = Pointer(_CP, fn)]
  BY <1>1, StackConstants DEF StartForResult, CanStart, Coroutines
<1>3. Of(Start(n)) = n /\ Carries(Start(n)) /\ Start(n).type = "coroutine"
  BY <1>1, <1>2 DEF Of, Start, Action, Carries, AnAction, Functions, Null
<1>4. Pointer(_CP, fn) \in APointer /\ Pointer(_CP, fn).of = _CP
  BY DEF Pointer, APointer
<1>5. /\ coroutine' \in [Coroutines -> Members]
      /\ \A c \in Coroutines : c # n => coroutine'[c] = coroutine[c]
      /\ coroutine'[n].returnAction = coroutine[n].returnAction
      /\ coroutine'[n].callback.of = _CP
  BY <1>1, <1>2, <1>4 DEF Members
<1>6. Behind(coroutine', n) = Null
  BY <1>1, <1>2, <1>5 DEF Behind
<1>7. Sound(s, _CP, n, coroutine', n, freed)
  <2>1. Carries(coroutine'[n].returnAction) /\ coroutine'[n].returnAction.type # "error"
    BY <1>1, <1>2, <1>5
  <2> QED BY <1>2, <1>5, <1>6, <2>1, Started
<1>8. \A i \in 1 .. Len(s) : coroutine'[s[i]] = coroutine[s[i]]
  BY <1>1, <1>2, <1>5
<1> QED
  BY <1>2, <1>3, <1>7, <1>8

\* It returns a result, and its caller perhaps its own.
LEMMA ResultReturned ==
  ASSUME NEW s, Sound(s, _CP, Null, coroutine, born, freed), _CP \in Coroutines,
         ReturnResult(_CP)
  PROVE  /\ Sound(s, _CP, Of(action'), coroutine', born', freed)
         /\ Carries(action') /\ action'.type = "finish"
         /\ \A i \in 1 .. Len(s) : coroutine'[s[i]].returnFP = coroutine[s[i]].returnFP
<1> DEFINE up == coroutine[_CP].parent
<1>1. /\ s \in Seq(Coroutines) /\ Len(s) \in Nat
      /\ \A i \in 1 .. Len(s) : s[i] \in Coroutines
      /\ \A c \in Coroutines : c # Null
      /\ coroutine \in [Coroutines -> Members] /\ Called(s, _CP, coroutine)
      /\ \A i \in 1 .. Len(s) : coroutine[s[i]].callback.of \in {Null, coroutine[s[i]].parent}
  BY Known DEF Sound, Typed, Answering
<1>2. /\ coroutine[_CP].callback.of # Null /\ action' = Action("finish") /\ born' = born
      /\ \/ \E a \in Plain(up) : coroutine' = [coroutine EXCEPT ![_CP].returnAction = a]
         \/ /\ coroutine[up].callback.of # Null
            /\ \E a \in Plain(coroutine[up].parent) :
                 coroutine' = [coroutine EXCEPT ![_CP].returnAction = Action("finish"),
                                                ![up].returnAction = a]
  BY DEF ReturnResult
<1>3. Carries(Action("finish")) /\ Of(Action("finish")) = Null /\ Action("finish").type = "finish"
  BY DEF Carries, AnAction, Action, Of, Functions, Null
<1>4. s # <<>> /\ 1 \in 1 .. Len(s) /\ s[1] = _CP
  <2>1. s # <<>> /\ s[1] = _CP
    BY <1>1 DEF Called
  <2> QED BY <1>1, <2>1, EmptySeq
<1>5. up \in Coroutines /\ 2 \in 1 .. Len(s) /\ s[2] = up /\ up # _CP
  <2>1. up \in Coroutines \cup {Null} /\ up # Null
    BY <1>1, <1>2, <1>4 DEF Members
  <2>2. Len(s) # 1
    BY <1>1, <1>4, <2>1 DEF Called
  <2>3. 1 \in 1 .. Len(s) - 1 /\ 2 \in 1 .. Len(s)
    <3>1. \A n \in Nat : 1 \in 1 .. n /\ n # 1 => 1 \in 1 .. n - 1 /\ 2 \in 1 .. n
      OBVIOUS
    <3> QED BY <1>1, <1>4, <2>2, <3>1
  <2>4. s[2] = up
    BY <1>1, <1>4, <2>3 DEF Called
  <2>5. s[2] # s[1]
    BY <1>1, <1>4, <2>3 DEF Called
  <2> QED BY <1>4, <2>1, <2>3, <2>4, <2>5
<1> DEFINE Set ==
             /\ coroutine' \in [Coroutines -> Members]
             /\ \A c \in Coroutines :
                  \/ coroutine'[c] = coroutine[c]
                  \/ /\ coroutine[c].callback.of # Null /\ c \in {s[1], s[2]}
                     /\ coroutine'[c].callback = coroutine[c].callback
                     /\ coroutine'[c].parent = coroutine[c].parent
                     /\ Carries(coroutine'[c].returnAction)
                     /\ coroutine'[c].returnAction.type # "error"
                     /\ Behind(coroutine', c) = Null
             /\ \A c \in Coroutines : coroutine'[c].returnFP = coroutine[c].returnFP
<1>6. Set
  <2>1. ASSUME NEW a, Carries(a), a.type # "error", Of(a) = Null,
               coroutine' = [coroutine EXCEPT ![_CP].returnAction = a]
        PROVE  Set
    <3>1. a \in AnAction
      BY <2>1 DEF Carries
    <3>2. /\ coroutine' \in [Coroutines -> Members]
          /\ \A c \in Coroutines : c # _CP => coroutine'[c] = coroutine[c]
          /\ coroutine'[_CP].returnAction = a
          /\ coroutine'[_CP].callback = coroutine[_CP].callback
          /\ coroutine'[_CP].parent = coroutine[_CP].parent
          /\ coroutine'[_CP].returnFP = coroutine[_CP].returnFP
      BY <1>1, <2>1, <3>1 DEF Members
    <3>3. Behind(coroutine', _CP) = Null
      BY <2>1, <3>2 DEF Behind
    <3> QED BY <1>2, <1>4, <2>1, <3>2, <3>3
  <2>2. ASSUME NEW a, Carries(a), a.type # "error", Of(a) = Null,
               coroutine[up].callback.of # Null,
               coroutine' = [coroutine EXCEPT ![_CP].returnAction = Action("finish"),
                                              ![up].returnAction = a]
        PROVE  Set
    <3>1. a \in AnAction /\ Action("finish") \in AnAction
      BY <1>3, <2>2 DEF Carries
    <3>2. /\ coroutine' \in [Coroutines -> Members]
          /\ \A c \in Coroutines : c # _CP /\ c # up => coroutine'[c] = coroutine[c]
          /\ coroutine'[_CP].returnAction = Action("finish") /\ coroutine'[up].returnAction = a
          /\ \A c \in {_CP, up} : /\ coroutine'[c].callback = coroutine[c].callback
                                 /\ coroutine'[c].parent = coroutine[c].parent
                                 /\ coroutine'[c].returnFP = coroutine[c].returnFP
      BY <1>1, <1>5, <2>2, <3>1 DEF Members
    <3>3. Behind(coroutine', _CP) = Null /\ Behind(coroutine', up) = Null
      BY <1>3, <2>2, <3>2 DEF Behind
    <3>4. \A c \in Coroutines : coroutine'[c].returnFP = coroutine[c].returnFP
      BY <3>2
    <3>5. coroutine[_CP].callback.of # Null /\ coroutine[up].callback.of # Null
      BY <1>2, <2>2
    <3>6. \A c \in {_CP, up} : Carries(coroutine'[c].returnAction)
                             /\ coroutine'[c].returnAction.type # "error"
      BY <1>3, <2>2, <3>2
    <3> QED BY <1>4, <1>5, <3>2, <3>3, <3>4, <3>5, <3>6
  <2>3. \A a \in Plain(up) : Carries(a) /\ Of(a) = Null /\ a.type # "error"
    BY <1>5, PlainIs
  <2>4. CASE \E a \in Plain(up) : coroutine' = [coroutine EXCEPT ![_CP].returnAction = a]
    BY <2>1, <2>3, <2>4
  <2>5. ASSUME coroutine[up].callback.of # Null, NEW a \in Plain(coroutine[up].parent),
               coroutine' = [coroutine EXCEPT ![_CP].returnAction = Action("finish"),
                                              ![up].returnAction = a]
        PROVE  Set
    <3>1. coroutine[up].parent \in Coroutines
      BY <1>1, <1>5, <2>5 DEF Members
    <3>2. Carries(a) /\ Of(a) = Null /\ a.type # "error"
      BY <3>1, PlainIs
    <3> QED BY <2>2, <2>5, <3>2
  <2> QED BY <1>2, <2>4, <2>5
<1>7. Sound(s, _CP, Null, coroutine', born, freed)
  <2>1. \A c \in Coroutines : c \in {s[1], s[2]} => \E i \in 1 .. Len(s) : s[i] = c
    BY <1>4, <1>5
  <2> QED BY <1>6, <2>1, Answered
<1> QED
  BY <1>1, <1>2, <1>3, <1>6, <1>7

-----------------------------------------------------------------------------
(* The frames of the calls *)

\* The frames of the calls s, of which the running one is in function fn.
FramesOf(s, fn, m) ==
  LET frame(k) == [who |-> s[k], fn |-> IF k = 1 THEN fn ELSE m[s[k - 1]].returnFP.name]
  IN [i \in 1 .. Len(s) |-> frame(Len(s) + 1 - i)]

AFrame == [who : Coroutines, fn : Functions]

\* What the frames of calls are, the running one last.
LEMMA FramesAre ==
  ASSUME NEW s \in Seq(Coroutines), NEW fn \in Functions, NEW m \in [Coroutines -> Members]
  PROVE  /\ FramesOf(s, fn, m) \in Seq(AFrame) /\ Len(FramesOf(s, fn, m)) = Len(s)
         /\ \A i \in 1 .. Len(s) :
              FramesOf(s, fn, m)[i] =
                [who |-> s[Len(s) + 1 - i],
                 fn |-> IF i = Len(s) THEN fn ELSE m[s[Len(s) - i]].returnFP.name]
<1> DEFINE n == Len(s)
           F == FramesOf(s, fn, m)
           frame(i) == [who |-> s[n + 1 - i],
                        fn |-> IF i = n THEN fn ELSE m[s[n - i]].returnFP.name]
<1>1. n \in Nat /\ \A i \in 1 .. n : s[i] \in Coroutines
  BY LenProperties, ElementOfSeq
<1>2. \A i \in 1 .. n : /\ n + 1 - i \in 1 .. n /\ (n + 1 - i = 1 <=> i = n)
                       /\ n + 1 - i - 1 = n - i /\ (i # n => n - i \in 1 .. n)
  BY <1>1
<1>3. F = [i \in 1 .. n |-> frame(i)]
  BY <1>2 DEF FramesOf
<1>4. \A i \in 1 .. n : frame(i) \in AFrame
  <2>1. ASSUME NEW i \in 1 .. n PROVE frame(i) \in AFrame
    <3>1. s[n + 1 - i] \in Coroutines
      BY <1>1, <1>2
    <3>2. ASSUME i # n PROVE m[s[n - i]].returnFP.name \in Functions
      <4>1. s[n - i] \in Coroutines
        BY <1>1, <1>2, <3>2
      <4>2. m[s[n - i]] \in Members
        BY <4>1
      <4> QED BY <4>2 DEF Members, APointer
    <3> QED BY <3>1, <3>2 DEF AFrame
  <2> QED BY <2>1
<1> HIDE DEF F, frame, n
<1>5. F \in [1 .. n -> AFrame]
  BY <1>3, <1>4
<1>6. F \in Seq(AFrame) /\ Len(F) = n
  BY <1>1, <1>5
<1>7. \A i \in 1 .. n : F[i] = frame(i)
  BY <1>3
<1> QED
  BY <1>6, <1>7 DEF F, frame, n

\* Sequences of frames are equal that agree everywhere.
\* F lists the n calls of s.
Lists(F, n, s, fn, m) ==
  /\ F \in Seq(AFrame) /\ Len(F) = n
  /\ \A i \in 1 .. n : F[i] = [who |-> s[n + 1 - i],
                              fn |-> IF i = n THEN fn ELSE m[s[n - i]].returnFP.name]

LEMMA FramesList ==
  ASSUME NEW s \in Seq(Coroutines), NEW fn \in Functions, NEW m \in [Coroutines -> Members]
  PROVE  Lists(FramesOf(s, fn, m), Len(s), s, fn, m)
  BY FramesAre DEF Lists

LEMMA FramesKept ==
  ASSUME NEW s \in Seq(Coroutines), NEW fn \in Functions, NEW m \in [Coroutines -> Members],
         NEW m2 \in [Coroutines -> Members],
         \A i \in 1 .. Len(s) : m2[s[i]].returnFP = m[s[i]].returnFP
  PROVE  FramesOf(s, fn, m2) = FramesOf(s, fn, m)
<1>1. Len(s) \in Nat
  BY LenProperties
<1>2. \A i \in 1 .. Len(s) : /\ Len(s) + 1 - i = 1 <=> i = Len(s)
                            /\ i # Len(s) => Len(s) + 1 - i - 1 \in 1 .. Len(s)
  BY <1>1
<1>3. \A i \in 1 .. Len(s) : i # Len(s) =>
        m2[s[Len(s) + 1 - i - 1]].returnFP = m[s[Len(s) + 1 - i - 1]].returnFP
  BY <1>2
<1> QED
  BY <1>2, <1>3 DEF FramesOf

\* The running one goes on in another function.
LEMMA FrameGoes ==
  ASSUME NEW s \in Seq(Coroutines), s # <<>>, NEW fn \in Functions, NEW fn2 \in Functions,
         NEW m \in [Coroutines -> Members]
  PROVE  LET F == FramesOf(s, fn, m)
             n == Len(F)
         IN  FramesOf(s, fn2, m) = Append(SubSeq(F, 1, n - 1), [F[n] EXCEPT !.fn = fn2])
<1> DEFINE F == FramesOf(s, fn, m)
           G == FramesOf(s, fn2, m)
           n == Len(s)
           C == SubSeq(F, 1, n - 1)
           e == [F[n] EXCEPT !.fn = fn2]
<1>1. n \in Nat /\ n >= 1
  BY LenProperties, EmptySeq
<1>2. /\ F \in Seq(AFrame) /\ Len(F) = n /\ G \in Seq(AFrame) /\ Len(G) = n
      /\ \A i \in 1 .. n : i # n => G[i] = F[i]
      /\ F[n].who = s[1] /\ G[n] = [who |-> s[1], fn |-> fn2]
  <2>1. Lists(F, n, s, fn, m)
    BY FramesList
  <2>2. Lists(G, n, s, fn2, m)
    BY FramesList
  <2>3. n \in 1 .. n /\ n + 1 - n = 1
    BY <1>1
  <2> HIDE DEF F, G, n
  <2>4. \A i \in 1 .. n : i # n => G[i] = F[i]
    BY <2>1, <2>2 DEF Lists
  <2>5. F[n].who = s[1] /\ G[n] = [who |-> s[1], fn |-> fn2]
    BY <2>1, <2>2, <2>3 DEF Lists
  <2> QED BY <2>1, <2>2, <2>4, <2>5 DEF Lists
<1>3. F[n] \in AFrame
  BY <1>1, <1>2, ElementOfSeq
<1>4. e = G[n] /\ e \in AFrame
  <2>1. s[1] \in Coroutines
    BY <1>1, ElementOfSeq
  <2> QED BY <1>2, <1>3, <2>1 DEF AFrame
<1> HIDE DEF F, G, n, e
<1>5. C \in Seq(AFrame) /\ Len(C) = n - 1 /\ \A i \in 1 .. n - 1 : C[i] = F[i]
  BY <1>1, <1>2
<1> HIDE DEF C
<1>6. /\ Append(C, e) \in Seq(AFrame) /\ Len(Append(C, e)) = n
      /\ \A i \in 1 .. n - 1 : Append(C, e)[i] = C[i]
      /\ Append(C, e)[n] = e
  <2>1. Len(C) + 1 = n
    BY <1>1, <1>5
  <2> QED BY <1>4, <1>5, <2>1, AppendProperties
<1>7. \A i \in 1 .. n : Append(C, e)[i] = G[i]
  <2>1. \A i \in 1 .. n : i = n \/ (i \in 1 .. n - 1 /\ i # n)
    BY <1>1
  <2> QED BY <1>2, <1>4, <1>5, <1>6, <2>1
<1>8. Append(C, e) = G
  BY <1>2, <1>6, <1>7, SeqEqual
<1> QED
  BY <1>2, <1>8 DEF F, G, n, C, e

\* It calls another.
LEMMA FramePushed ==
  ASSUME NEW s \in Seq(Coroutines), s # <<>>, NEW x \in Coroutines,
         NEW m \in [Coroutines -> Members], NEW m2 \in [Coroutines -> Members],
         \A i \in 1 .. Len(s) : m2[s[i]].returnFP = m[s[i]].returnFP
  PROVE  FramesOf(<<x>> \o s, "act", m2) =
           Append(FramesOf(s, m2[x].returnFP.name, m), [who |-> x, fn |-> "act"])
<1> DEFINE fn == m2[x].returnFP.name
           F == FramesOf(s, fn, m2)
           t == <<x>> \o s
           G == FramesOf(t, "act", m2)
           n == Len(s)
           e == [who |-> x, fn |-> "act"]
<1>1. n \in Nat /\ n >= 1
  BY LenProperties, EmptySeq
<1>2. /\ t \in Seq(Coroutines) /\ Len(t) = n + 1 /\ t[1] = x
      /\ \A i \in 1 .. n : t[i + 1] = s[i]
  BY <1>1
<1>3. "act" \in Functions
  BY DEF Functions
<1>4. fn \in Functions
  <2>1. m2[x] \in Members
    OBVIOUS
  <2> QED BY <2>1 DEF Members, APointer
<1> HIDE DEF t, fn
<1>5. /\ F \in Seq(AFrame) /\ Len(F) = n /\ G \in Seq(AFrame) /\ Len(G) = n + 1
      /\ \A i \in 1 .. n :
           F[i] = [who |-> s[n + 1 - i],
                   fn |-> IF i = n THEN fn ELSE m2[s[n - i]].returnFP.name]
      /\ \A i \in 1 .. n + 1 :
           G[i] = [who |-> t[n + 1 + 1 - i],
                   fn |-> IF i = n + 1 THEN "act" ELSE m2[t[n + 1 - i]].returnFP.name]
  <2>1. Lists(F, n, s, fn, m2)
    BY <1>4, FramesList
  <2>2. Lists(G, Len(t), t, "act", m2)
    BY <1>2, <1>3, FramesList
  <2>3. Len(t) = n + 1
    BY <1>2
  <2> HIDE DEF F, G, n, t
  <2>4. Lists(G, n + 1, t, "act", m2)
    BY <2>2, <2>3
  <2> QED BY <2>1, <2>4 DEF Lists
<1>6. e \in AFrame
  BY <1>3 DEF AFrame
<1>7. G[n + 1] = e
  <2>1. n + 1 \in 1 .. n + 1 /\ n + 1 + 1 - (n + 1) = 1
    BY <1>1
  <2> QED BY <1>2, <1>5, <2>1
<1>8. \A i \in 1 .. n : G[i] = F[i]
  <2>1. ASSUME NEW i \in 1 .. n PROVE G[i] = F[i]
    <3>1. /\ i \in 1 .. n + 1 /\ i # n + 1 /\ n + 1 - i \in 1 .. n
          /\ n + 1 + 1 - i = (n + 1 - i) + 1
          /\ i = n => n + 1 - i = 1
          /\ i # n => n - i \in 1 .. n /\ n + 1 - i = (n - i) + 1
      BY <1>1
    <3>2. t[n + 1 + 1 - i] = s[n + 1 - i]
      BY <1>2, <3>1
    <3>3. m2[t[n + 1 - i]].returnFP.name = IF i = n THEN fn ELSE m2[s[n - i]].returnFP.name
      BY <1>2, <3>1 DEF fn
    <3> HIDE DEF n, F, G
    <3>4. G[i] = [who |-> t[n + 1 + 1 - i], fn |-> m2[t[n + 1 - i]].returnFP.name]
      BY <1>5, <3>1
    <3>5. F[i] = [who |-> s[n + 1 - i],
                  fn |-> IF i = n THEN fn ELSE m2[s[n - i]].returnFP.name]
      BY <1>5
    <3> QED BY <3>2, <3>3, <3>4, <3>5, Zenon
  <2> QED BY <2>1
<1>9. G = Append(F, e)
  <2> HIDE DEF F, G, n, e
  <2>1. /\ Append(F, e) \in Seq(AFrame) /\ Len(Append(F, e)) = n + 1
        /\ \A i \in 1 .. n : Append(F, e)[i] = F[i]
        /\ Append(F, e)[n + 1] = e
    BY <1>5, <1>6, AppendProperties
  <2>2. \A i \in 1 .. n + 1 : i \in 1 .. n \/ i = n + 1
    BY <1>1
  <2>3. \A i \in 1 .. n + 1 : G[i] = Append(F, e)[i]
    BY <1>7, <1>8, <2>1, <2>2
  <2> QED BY <1>5, <2>1, <2>3, SeqEqual
<1>10. F = FramesOf(s, fn, m)
  BY <1>4, FramesKept
<1> QED
  BY <1>9, <1>10 DEF t, fn

\* It returns: who called it goes on where it was.
LEMMA FramePopped ==
  ASSUME NEW s \in Seq(Coroutines), s # <<>>, NEW fn \in Functions,
         NEW m \in [Coroutines -> Members], NEW m2 \in [Coroutines -> Members],
         \A i \in 1 .. Len(Tail(s)) : m2[Tail(s)[i]].returnFP = m[Tail(s)[i]].returnFP
  PROVE  LET F == FramesOf(s, fn, m)
         IN  FramesOf(Tail(s), m[s[1]].returnFP.name, m2) = SubSeq(F, 1, Len(F) - 1)
<1> DEFINE F == FramesOf(s, fn, m)
           t == Tail(s)
           n == Len(s)
           fn2 == m[s[1]].returnFP.name
           G == FramesOf(t, fn2, m)
           C == SubSeq(F, 1, n - 1)
<1>1. n \in Nat /\ n >= 1
  BY LenProperties, EmptySeq
<1>2. /\ t \in Seq(Coroutines) /\ Len(t) = n - 1
      /\ \A i \in 1 .. n - 1 : t[i] = s[i + 1]
  BY <1>1
<1>3. fn2 \in Functions
  <2>1. s[1] \in Coroutines
    BY <1>1, ElementOfSeq
  <2>2. m[s[1]] \in Members
    BY <2>1
  <2> QED BY <2>2 DEF Members, APointer
<1>4. FramesOf(t, fn2, m2) = G
  BY <1>2, <1>3, FramesKept
<1> HIDE DEF t, fn2
<1>5. /\ F \in Seq(AFrame) /\ Len(F) = n /\ G \in Seq(AFrame) /\ Len(G) = n - 1
      /\ \A i \in 1 .. n :
           F[i] = [who |-> s[n + 1 - i],
                   fn |-> IF i = n THEN fn ELSE m[s[n - i]].returnFP.name]
      /\ \A i \in 1 .. n - 1 :
           G[i] = [who |-> t[n - 1 + 1 - i],
                   fn |-> IF i = n - 1 THEN fn2 ELSE m[t[n - 1 - i]].returnFP.name]
  <2>1. Lists(F, n, s, fn, m)
    BY FramesList
  <2>2. Lists(G, Len(t), t, fn2, m)
    BY <1>2, <1>3, FramesList
  <2>3. Len(t) = n - 1
    BY <1>2
  <2> HIDE DEF F, G, n, t
  <2>4. Lists(G, n - 1, t, fn2, m)
    BY <2>2, <2>3
  <2> QED BY <2>1, <2>4 DEF Lists
<1>6. \A i \in 1 .. n - 1 : G[i] = F[i]
  <2>1. ASSUME NEW i \in 1 .. n - 1 PROVE G[i] = F[i]
    <3>1. /\ i \in 1 .. n /\ i # n /\ n - 1 + 1 - i \in 1 .. n - 1
          /\ n + 1 - i = (n - 1 + 1 - i) + 1
          /\ i = n - 1 => n - i = 1
          /\ i # n - 1 => n - 1 - i \in 1 .. n - 1 /\ n - i = (n - 1 - i) + 1
      BY <1>1
    <3>2. t[n - 1 + 1 - i] = s[n + 1 - i]
      BY <1>2, <3>1
    <3>3. m[s[n - i]].returnFP.name = IF i = n - 1 THEN fn2 ELSE m[t[n - 1 - i]].returnFP.name
      BY <1>2, <3>1 DEF fn2
    <3> HIDE DEF n, F, G
    <3>4. F[i] = [who |-> s[n + 1 - i], fn |-> m[s[n - i]].returnFP.name]
      BY <1>5, <3>1
    <3>5. G[i] = [who |-> t[n - 1 + 1 - i],
                  fn |-> IF i = n - 1 THEN fn2 ELSE m[t[n - 1 - i]].returnFP.name]
      BY <1>5
    <3> QED BY <3>2, <3>3, <3>4, <3>5, Zenon
  <2> QED BY <2>1
<1>7. C = G
  <2> HIDE DEF F, G, n
  <2>1. C \in Seq(AFrame) /\ Len(C) = n - 1 /\ \A i \in 1 .. n - 1 : C[i] = F[i]
    BY <1>1, <1>5
  <2> HIDE DEF C
  <2>2. \A i \in 1 .. n - 1 : C[i] = G[i]
    BY <1>6, <2>1, Zenon
  <2>3. C \in Seq(AFrame) /\ G \in Seq(AFrame) /\ Len(C) = Len(G) /\ Len(C) = n - 1
    BY <1>5, <2>1, Zenon
  <2> QED BY <2>2, <2>3, SeqEqual, Zenon
<1> QED
  BY <1>4, <1>5, <1>7 DEF t, fn2

-----------------------------------------------------------------------------
(* What each operation does *)

\* A step of CallStack, or one that its frames do not see.
Moves == [Nesting!Next]_<<Frames, Failing>>

\* What the invariant says of the calls and their frames.
LEMMA Now ==
  ASSUME StackInv
  PROVE  \E s \in Seq(Coroutines) :
           /\ s = Stack /\ Sound(s, _CP, Of(action), coroutine, born, freed)
           /\ Frames = FramesOf(s, _FP.name, coroutine)
           /\ _FP.name \in Functions /\ _FP \in APointer /\ _CP \in Coroutines \cup {Null}
           /\ coroutine \in [Coroutines -> Members]
           /\ _CP = Null => s = <<>>
           /\ _CP # Null => s # <<>> /\ s[1] = _CP
<1>1. PICK s \in Seq(Coroutines) :
        s = Stack /\ Sound(s, _CP, Of(action), coroutine, born, freed)
  BY TheCalls
<1>2. Frames = FramesOf(s, _FP.name, coroutine)
  BY <1>1 DEF Frames, FramesOf
<1>3. /\ _FP \in APointer /\ _CP \in Coroutines \cup {Null}
      /\ coroutine \in [Coroutines -> Members]
  BY DEF StackInv, StackTypeOK
<1>4. _FP.name \in Functions
  BY <1>3 DEF APointer
<1>5. (_CP = Null => s = <<>>) /\ (_CP # Null => s # <<>> /\ s[1] = _CP)
  BY <1>1 DEF Sound, Called
<1> QED
  BY <1>1, <1>2, <1>3, <1>4, <1>5

\* A step that leaves the calls and where they continue.
LEMMA CallsKept ==
  ASSUME NEW s \in Seq(Coroutines), Stack = s, Stack' = s, _FP' = _FP,
         _FP.name \in Functions, coroutine \in [Coroutines -> Members],
         coroutine' \in [Coroutines -> Members],
         \A i \in 1 .. Len(s) : coroutine'[s[i]].returnFP = coroutine[s[i]].returnFP
  PROVE  Frames' = Frames
<1>1. Frames = FramesOf(s, _FP.name, coroutine)
  BY DEF Frames, FramesOf
<1>2. Frames' = FramesOf(s, _FP.name, coroutine')
  BY DEF Frames, FramesOf
<1> QED
  BY <1>1, <1>2, FramesKept

\* The running coroutine's frame.
LEMMA FramesThere ==
  ASSUME NEW s \in Seq(Coroutines), NEW fn \in Functions, NEW m \in [Coroutines -> Members]
  PROVE  FramesOf(s, fn, m) # <<>> <=> s # <<>>
<1>1. FramesOf(s, fn, m) \in Seq(AFrame) /\ Len(FramesOf(s, fn, m)) = Len(s)
  BY FramesAre
<1> QED
  BY <1>1

\* Before a function is called nothing is in hand.
LEMMA NothingInHand ==
  ASSUME StackInv, ~ taking
  PROVE  action = Action("none") /\ Of(action) = Null /\ action.type = "none"
BY DEF StackInv, HandInv, Action, Of

\* The function that is called returns an action that is no error.
LEMMA FunctionReturns ==
  ASSUME StackInv, ~ taking, taking', _CP # Null, UNCHANGED <<_CP, _FP, raised, freed, disposed>>,
         taking' \in BOOLEAN,
         Carries(action'), action'.type \notin {"error", "none"},
         NEW s \in Seq(Coroutines), s = Stack,
         Sound(s, _CP, Of(action'), coroutine', born', freed),
         \A i \in 1 .. Len(s) : coroutine'[s[i]].returnFP = coroutine[s[i]].returnFP
  PROVE  StackInv' /\ Moves
<1>1. /\ _FP.name \in Functions /\ _FP \in APointer /\ coroutine \in [Coroutines -> Members]
  BY Now
<1>2. /\ action.type = "none"
      /\ raised \in 0 .. MaxErrors /\ disposed \in [Errors -> Nat]
  BY NothingInHand DEF StackInv, StackTypeOK
<1>3. HandInv'
  BY <1>2 DEF HandInv, StackInv
<1>4. StackInv' /\ Stack' = s
  BY <1>1, <1>2, <1>3, Arrived
<1>5. Frames' = Frames
  BY <1>1, <1>4, CallsKept DEF Sound, Typed
<1>6. Failing' = Failing
  BY <1>2 DEF Failing
<1> QED
  BY <1>4, <1>5, <1>6 DEF Moves

\* iterate(): a function is called and returns an action, or fails.
LEMMA IterateSteps ==
  ASSUME StackInv, Iterate
  PROVE  StackInv' /\ Moves
<1>1. PICK s \in Seq(Coroutines) :
        /\ s = Stack /\ Sound(s, _CP, Of(action), coroutine, born, freed)
        /\ Frames = FramesOf(s, _FP.name, coroutine)
        /\ _FP.name \in Functions /\ _FP \in APointer /\ _CP \in Coroutines \cup {Null}
        /\ coroutine \in [Coroutines -> Members]
        /\ _CP # Null => s # <<>>
  BY Now
<1>2. /\ ~ taking /\ _CP # Null /\ _CP \in Coroutines /\ taking' /\ taking' \in BOOLEAN
      /\ UNCHANGED <<_CP, _FP, freed, disposed>>
  BY <1>1 DEF Iterate
<1>3. Sound(s, _CP, Null, coroutine, born, freed) /\ action.type = "none"
  BY <1>1, <1>2, NothingInHand
<1>4. ASSUME NEW a \in Plain(_CP), action' = a, UNCHANGED <<coroutine, born, raised>>
      PROVE  StackInv' /\ Moves
  <2>1. Carries(a) /\ Of(a) = Null /\ a.type \in {"yieldTo", "repeat", "finish"}
    BY <1>2, PlainIs
  <2>2. Sound(s, _CP, Of(action'), coroutine', born', freed)
    BY <1>3, <1>4, <2>1
  <2> QED BY <1>1, <1>2, <1>4, <2>1, <2>2, FunctionReturns
<1>5. ASSUME NEW a \in Plain(_CP), StartThen(_CP, a), UNCHANGED raised
      PROVE  StackInv' /\ Moves
  <2>1. Carries(a) /\ Of(a) = Null /\ a.type \in {"yieldTo", "repeat", "finish"}
    BY <1>2, PlainIs
  <2>2. /\ Sound(s, _CP, Of(action'), coroutine', born', freed)
        /\ Carries(action') /\ action'.type = "coroutine"
        /\ \A i \in 1 .. Len(s) : coroutine'[s[i]] = coroutine[s[i]]
    BY <1>3, <1>5, <2>1, ThenStarted
  <2> QED BY <1>1, <1>2, <1>5, <2>2, FunctionReturns
<1>6. ASSUME NEW f \in Functions, StartForResult(_CP, f), UNCHANGED raised
      PROVE  StackInv' /\ Moves
  <2>1. /\ Sound(s, _CP, Of(action'), coroutine', born', freed)
        /\ Carries(action') /\ action'.type = "coroutine"
        /\ \A i \in 1 .. Len(s) : coroutine'[s[i]] = coroutine[s[i]]
    BY <1>2, <1>3, <1>6, ForResultStarted
  <2> QED BY <1>1, <1>2, <1>6, <2>1, FunctionReturns
<1>7. ASSUME ReturnResult(_CP), UNCHANGED raised
      PROVE  StackInv' /\ Moves
  <2>1. /\ Sound(s, _CP, Of(action'), coroutine', born', freed)
        /\ Carries(action') /\ action'.type = "finish"
        /\ \A i \in 1 .. Len(s) : coroutine'[s[i]].returnFP = coroutine[s[i]].returnFP
    BY <1>2, <1>3, <1>7, ResultReturned
  <2> QED BY <1>1, <1>2, <1>7, <2>1, FunctionReturns
<1>8. ASSUME Raise, action' = Failure(raised'), UNCHANGED <<coroutine, born>>
      PROVE  StackInv' /\ Moves
  <2>1. /\ raised \in 0 .. MaxErrors /\ raised' = raised + 1 /\ raised < MaxErrors
        /\ MaxErrors \in Nat /\ disposed \in [Errors -> Nat]
    BY <1>8, StackConstants DEF Raise, StackInv, StackTypeOK
  <2>2. /\ action'.type = "error" /\ action'.of = raised' /\ Of(action') = Null
        /\ raised' \in 1 .. raised' /\ raised' \in 0 .. MaxErrors
    BY <1>8, <2>1 DEF Failure, Action, Of
  <2>3. Carries(action')
    BY <1>8, <2>1 DEF Failure, Action, Carries, AnAction, Functions, Null
  <2>4. \A e \in Errors :
          disposed'[e] = IF e <= raised' /\ ~ (action'.type = "error" /\ action'.of = e)
                         THEN 1 ELSE 0
    <3>1. \A e \in Errors : disposed[e] = IF e <= raised THEN 1 ELSE 0
      BY <1>3 DEF StackInv, HandInv
    <3>2. \A e \in Errors : e <= raised <=> e <= raised' /\ raised' # e
      BY <2>1 DEF Errors
    <3> QED BY <1>2, <2>2, <3>1, <3>2
  <2>5. HandInv'
    BY <1>2, <2>2, <2>3, <2>4 DEF HandInv
  <2>6. Sound(s, _CP', Of(action'), coroutine', born', freed')
    BY <1>2, <1>3, <1>8, <2>2
  <2>7. StackInv' /\ Stack' = s
    BY <1>1, <1>2, <2>1, <2>2, <2>5, <2>6, Arrived
  <2>8. Frames' = Frames
    BY <1>1, <1>2, <1>8, <2>7, CallsKept
  <2>9. Frames # <<>>
    BY <1>1, <1>2, FramesThere
  <2>10. ~ Failing /\ Failing' = TRUE
    BY <1>2, <2>2 DEF Failing
  <2>11. Nesting!Fail
    BY <2>8, <2>9, <2>10 DEF Nesting!Fail
  <2> QED BY <2>7, <2>11 DEF Moves, Nesting!Next
<1> QED
  BY <1>2, <1>4, <1>5, <1>6, <1>7, <1>8 DEF Iterate

\* A starter that nobody takes over goes with its coroutine.
LEMMA DropStarterSteps ==
  ASSUME StackInv, DropStarter
  PROVE  StackInv' /\ Moves
<1>1. PICK s \in Seq(Coroutines) :
        /\ s = Stack /\ Sound(s, _CP, Of(action), coroutine, born, freed)
        /\ _FP.name \in Functions /\ _FP \in APointer
        /\ coroutine \in [Coroutines -> Members]
  BY Now
<1>2. /\ CanStart(1) /\ born' = born + 1 /\ Delete({born'})
      /\ UNCHANGED <<_CP, _FP, action, taking, coroutine, raised, disposed>>
  BY DEF DropStarter
<1>3. /\ born \in Coroutines /\ freed \in [Coroutines -> Nat] /\ taking \in BOOLEAN
      /\ raised \in 0 .. MaxErrors /\ disposed \in [Errors -> Nat]
  BY DEF StackInv, StackTypeOK
<1>4. born + 1 \in Coroutines
  BY <1>2, <1>3, StackConstants DEF CanStart, Coroutines
<1>5. /\ freed' \in [Coroutines -> Nat]
      /\ \A c \in Coroutines : freed'[c] = freed[c] + (IF c = born + 1 THEN 1 ELSE 0)
  BY <1>2, <1>3 DEF Delete
<1>6. Sound(s, _CP', Of(action'), coroutine', born', freed')
  BY <1>1, <1>2, <1>4, <1>5, StarterDropped
<1>7. HandInv'
  BY <1>2 DEF StackInv, HandInv
<1>8. StackInv' /\ Stack' = s
  BY <1>1, <1>2, <1>3, <1>6, <1>7, Arrived
<1>9. Frames' = Frames
  BY <1>1, <1>2, <1>8, CallsKept
<1>10. Failing' = Failing
  BY <1>2 DEF Failing
<1> QED
  BY <1>8, <1>9, <1>10 DEF Moves

\* Whose frames they are.
LEMMA FrameWho ==
  ASSUME NEW s \in Seq(Coroutines), NEW fn \in Functions, NEW m \in [Coroutines -> Members]
  PROVE  /\ DOMAIN FramesOf(s, fn, m) = 1 .. Len(s)
         /\ \A i \in 1 .. Len(s) : FramesOf(s, fn, m)[i].who = s[Len(s) + 1 - i]
BY DEF FramesOf

\* takeAction() calls the coroutine in hand: a frame more.
LEMMA TakeCoroutineSteps ==
  ASSUME StackInv, TakeCoroutine
  PROVE  StackInv' /\ Moves
<1> DEFINE x == action.of
<1>1. PICK s \in Seq(Coroutines) :
        /\ s = Stack /\ Sound(s, _CP, Of(action), coroutine, born, freed)
        /\ Frames = FramesOf(s, _FP.name, coroutine)
        /\ _FP.name \in Functions /\ _FP \in APointer /\ _CP \in Coroutines \cup {Null}
        /\ coroutine \in [Coroutines -> Members]
        /\ _CP # Null => s # <<>>
  BY Now
<1>2. /\ taking /\ action.type = "coroutine" /\ taking' = FALSE
      /\ coroutine' = [coroutine EXCEPT ![x].parent = _CP, ![x].returnFP = _FP]
      /\ _CP' = x /\ _FP' = Pointer(x, "act") /\ action' = Action("none")
      /\ UNCHANGED <<born, raised, freed, disposed>>
  BY DEF TakeCoroutine
<1>3. /\ x \in Coroutines /\ Of(action) = x /\ _CP # Null /\ x # Null
      /\ raised \in 0 .. MaxErrors /\ disposed \in [Errors -> Nat]
  <2>1. x \in Coroutines /\ _CP # Null
    BY <1>2 DEF StackInv, HandInv, Carries
  <2>2. x # Null
    BY <2>1, StackConstants DEF Coroutines, Null
  <2> QED BY <1>2, <2>1, <2>2 DEF Of, StackInv, StackTypeOK
<1>4. /\ coroutine' \in [Coroutines -> Members]
      /\ \A c \in Coroutines : c # x => coroutine'[c] = coroutine[c]
      /\ coroutine'[x].parent = _CP /\ coroutine'[x].returnFP = _FP
      /\ coroutine'[x].callback = coroutine[x].callback
      /\ coroutine'[x].returnAction = coroutine[x].returnAction
  <2> HIDE DEF x
  <2> QED BY <1>1, <1>2, <1>3 DEF Members
<1>5. \A i \in 1 .. Len(s) : s[i] # x /\ s[i] \in Coroutines
  BY <1>1, <1>3, ElementOfSeq DEF Sound, Owned
<1> DEFINE t == <<x>> \o s
<1>6. Sound(t, x, Null, coroutine', born, freed)
  BY <1>1, <1>3, <1>4, CallTaken
<1>7. Of(action') = Null /\ action'.type = "none" /\ Carries(action')
  BY <1>2 DEF Of, Action, Carries, AnAction, Functions, Null
<1>8. HandInv'
  BY <1>2, <1>3, <1>7 DEF StackInv, HandInv
<1>9. _FP' \in APointer /\ _FP'.name = "act"
  BY <1>2, <1>3 DEF Pointer, APointer, Functions
<1>10. StackInv' /\ Stack' = t
  BY <1>2, <1>3, <1>6, <1>7, <1>8, <1>9, Arrived
<1>11. Frames' = Append(Frames, [who |-> x, fn |-> "act"])
  <2>1. Frames' = FramesOf(t, "act", coroutine')
    BY <1>9, <1>10 DEF Frames, FramesOf
  <2>2. FramesOf(t, "act", coroutine') =
          Append(FramesOf(s, coroutine'[x].returnFP.name, coroutine), [who |-> x, fn |-> "act"])
    BY <1>1, <1>3, <1>4, <1>5, FramePushed
  <2> QED BY <1>1, <1>4, <2>1, <2>2
<1>12. /\ Frames # <<>>
       /\ x \in Coroutines \ {Frames[i].who : i \in DOMAIN Frames}
  <2>1. Len(s) \in Nat
    BY LenProperties
  <2>2. /\ DOMAIN Frames = 1 .. Len(s)
        /\ \A i \in 1 .. Len(s) : Frames[i].who = s[Len(s) + 1 - i]
    BY <1>1, FrameWho
  <2>3. \A i \in 1 .. Len(s) : Len(s) + 1 - i \in 1 .. Len(s)
    BY <2>1
  <2>5. Frames # <<>>
    BY <1>1, <1>3, FramesThere
  <2> HIDE DEF x
  <2> QED BY <1>3, <1>5, <2>2, <2>3, <2>5
<1>13. ~ Failing /\ ~ Failing'
  BY <1>2 DEF Failing
<1>14. Nesting!Call
  BY <1>11, <1>12, <1>13 DEF Nesting!Call, Failing
<1> QED
  BY <1>10, <1>14 DEF Moves, Nesting!Next

\* takeAction() returns to the caller: a frame less.
LEMMA TakeFinishSteps ==
  ASSUME StackInv, TakeFinish
  PROVE  StackInv' /\ Moves
<1> DEFINE a == coroutine[_CP].returnAction
<1>1. PICK s \in Seq(Coroutines) :
        /\ s = Stack /\ Sound(s, _CP, Of(action), coroutine, born, freed)
        /\ Frames = FramesOf(s, _FP.name, coroutine)
        /\ _FP.name \in Functions /\ _FP \in APointer /\ _CP \in Coroutines \cup {Null}
        /\ coroutine \in [Coroutines -> Members]
        /\ _CP # Null => s # <<>> /\ s[1] = _CP
  BY Now
<1>2. /\ taking /\ action.type = "finish" /\ action' = a
      /\ _FP' = coroutine[_CP].returnFP /\ _CP' = coroutine[_CP].parent
      /\ Delete({_CP} \cup Chain(Moved(a)))
      /\ coroutine' = Cleared(coroutine, {_CP} \cup Chain(Moved(a)))
      /\ UNCHANGED <<taking, born, raised, disposed>>
  BY DEF TakeFinish
<1>3. /\ _CP # Null /\ _CP \in Coroutines /\ Of(action) = Null
      /\ raised \in 0 .. MaxErrors /\ disposed \in [Errors -> Nat]
      /\ freed \in [Coroutines -> Nat]
  <2>1. _CP # Null
    BY <1>2 DEF StackInv, HandInv
  <2> QED BY <1>1, <1>2, <2>1 DEF Of, StackInv, StackTypeOK
<1>4. Chain(Moved(a)) = {}
  <2>1. Of(Moved(a)) = Null
    <3>1. a \in AnAction
      BY <1>1, <1>3 DEF Members
    <3> QED BY <3>1 DEF Of, Moved, AnAction
  <2> QED BY <2>1, ChainIs
<1>5. /\ coroutine' \in [Coroutines -> Members]
      /\ \A c \in Coroutines : coroutine'[c] = IF c = _CP THEN Unborn ELSE coroutine[c]
      /\ freed' \in [Coroutines -> Nat]
      /\ \A c \in Coroutines : freed'[c] = freed[c] + (IF c = _CP THEN 1 ELSE 0)
  <2>1. Unborn \in Members
    BY DEF Unborn, Members, Action, AnAction, Pointer, APointer, Functions, Null
  <2> QED BY <1>1, <1>2, <1>3, <1>4, <2>1 DEF Cleared, Delete
<1>6. Sound(Tail(s), _CP', Of(action'), coroutine', born, freed')
  <2>1. Sound(s, _CP, Null, coroutine, born, freed)
    BY <1>1, <1>3
  <2>2. Sound(Tail(s), coroutine[_CP].parent, Behind(coroutine, _CP), coroutine', born, freed')
    BY <1>3, <1>5, <2>1, Returned
  <2> QED BY <1>2, <2>2 DEF Behind
<1>7. Carries(a) /\ a.type # "error"
  BY <1>1, <1>3 DEF Sound, Typed
<1>8. _CP' = Null => a.type = "none"
  <2>1. Len(s) \in Nat /\ Len(s) >= 1
    BY <1>1, <1>3, EmptySeq
  <2>2. CASE Len(s) = 1
    <3>1. a = Action("none")
      BY <1>1, <1>3, <2>2 DEF Sound, Answering
    <3> QED BY <3>1 DEF Action
  <2>3. CASE Len(s) # 1
    <3>1. 1 \in 1 .. Len(s) - 1 /\ 1 + 1 \in 1 .. Len(s)
      <4>1. \A n \in Nat : n >= 1 /\ n # 1 => 1 \in 1 .. n - 1 /\ 1 + 1 \in 1 .. n
        OBVIOUS
      <4> QED BY <2>1, <2>3, <4>1, Zenon
    <3>2. _CP' = s[1 + 1]
      BY <1>1, <1>2, <1>3, <3>1 DEF Sound, Called
    <3>3. s[1 + 1] \in Coroutines
      BY <3>1, ElementOfSeq
    <3> QED BY <3>2, <3>3, StackConstants DEF Coroutines, Null
  <2> QED BY <2>2, <2>3
<1>9. HandInv'
  <2> HIDE DEF a
  <2> QED BY <1>2, <1>7, <1>8 DEF StackInv, HandInv
<1>10. _FP' \in APointer
  BY <1>1, <1>2, <1>3 DEF Members
<1>11. StackInv' /\ Stack' = Tail(s)
  <2>1. taking' \in BOOLEAN
    BY <1>2 DEF StackInv, StackTypeOK
  <2> QED BY <1>2, <1>3, <1>6, <1>9, <1>10, <2>1, Arrived
<1>12. \A i \in 1 .. Len(Tail(s)) : coroutine'[Tail(s)[i]].returnFP = coroutine[Tail(s)[i]].returnFP
  <2>1. ASSUME NEW i \in 1 .. Len(Tail(s)) PROVE Tail(s)[i] \in Coroutines /\ Tail(s)[i] # _CP
    <3>1. /\ Tail(s) \in Seq(Coroutines) /\ Tail(s)[i] = s[i + 1]
          /\ i + 1 \in 1 .. Len(s) /\ 1 \in 1 .. Len(s) /\ i + 1 # 1
      BY <1>1, <1>3
    <3>2. s[i + 1] # s[1]
      BY <1>1, <3>1 DEF Sound, Called
    <3> QED BY <1>1, <1>3, <3>1, <3>2, ElementOfSeq
  <2> QED BY <1>5, <2>1
<1>13. Frames' = SubSeq(Frames, 1, Len(Frames) - 1)
  <2>1. Frames' = FramesOf(Tail(s), coroutine[s[1]].returnFP.name, coroutine')
    BY <1>1, <1>2, <1>3, <1>11 DEF Frames, FramesOf
  <2> QED BY <1>1, <1>3, <1>5, <1>12, <2>1, FramePopped
<1>14. Frames # <<>>
  BY <1>1, <1>3, FramesThere
<1>15. ~ Failing /\ ~ Failing'
  BY <1>2, <1>7 DEF Failing
<1>16. Nesting!Return
  BY <1>13, <1>14, <1>15 DEF Nesting!Return, Nesting!Callers, Nesting!Front, Failing
<1> QED
  BY <1>11, <1>16 DEF Moves, Nesting!Next

\* takeAction() goes on in another function of the coroutine.
LEMMA TakeYieldToSteps ==
  ASSUME StackInv, TakeYieldTo
  PROVE  StackInv' /\ Moves
<1>1. PICK s \in Seq(Coroutines) :
        /\ s = Stack /\ Sound(s, _CP, Of(action), coroutine, born, freed)
        /\ Frames = FramesOf(s, _FP.name, coroutine)
        /\ _FP.name \in Functions
        /\ coroutine \in [Coroutines -> Members]
        /\ _CP # Null => s # <<>>
  BY Now
<1>2. /\ taking /\ action.type = "yieldTo" /\ taking' = FALSE
      /\ _FP' = Pointer(action.of, action.name) /\ action' = Action("none")
      /\ UNCHANGED <<_CP, coroutine, born, raised, freed, disposed>>
  BY DEF TakeYieldTo
<1>3. /\ _CP # Null /\ Of(action) = Null
      /\ action.of \in Coroutines /\ action.name \in Functions
      /\ raised \in 0 .. MaxErrors /\ disposed \in [Errors -> Nat]
  BY <1>2 DEF StackInv, HandInv, Carries, AnAction, Of, StackTypeOK
<1>4. Of(action') = Null /\ action'.type = "none" /\ Carries(action')
  BY <1>2 DEF Of, Action, Carries, AnAction, Functions, Null
<1>5. HandInv'
  BY <1>2, <1>3, <1>4 DEF StackInv, HandInv
<1>6. _FP' \in APointer /\ _FP'.name = action.name
  BY <1>2, <1>3 DEF Pointer, APointer
<1>7. StackInv' /\ Stack' = s
  BY <1>1, <1>2, <1>3, <1>4, <1>5, <1>6, Arrived
<1>8. Frames' = Append(SubSeq(Frames, 1, Len(Frames) - 1),
                       [Frames[Len(Frames)] EXCEPT !.fn = action.name])
  <2>1. Frames' = FramesOf(s, action.name, coroutine)
    BY <1>2, <1>6, <1>7 DEF Frames, FramesOf
  <2> DEFINE F == FramesOf(s, _FP.name, coroutine)
  <2>2. FramesOf(s, action.name, coroutine) =
          Append(SubSeq(F, 1, Len(F) - 1), [F[Len(F)] EXCEPT !.fn = action.name])
    BY <1>1, <1>3, FrameGoes
  <2>3. F = Frames
    BY <1>1
  <2> HIDE DEF F
  <2> QED BY <2>1, <2>2, <2>3
<1>9. Frames # <<>>
  BY <1>1, <1>3, FramesThere
<1>10. ~ Failing /\ ~ Failing'
  BY <1>2 DEF Failing
<1>11. Nesting!Go
  BY <1>3, <1>8, <1>9, <1>10
     DEF Nesting!Go, Nesting!Callers, Nesting!Running, Nesting!Front, Nesting!Last, Failing
<1> QED
  BY <1>7, <1>11 DEF Moves, Nesting!Next

\* takeAction() leaves the loop for the processor.
LEMMA TakeOtherSteps ==
  ASSUME StackInv, TakeOther
  PROVE  StackInv' /\ Moves
<1>1. PICK s \in Seq(Coroutines) :
        /\ s = Stack /\ Sound(s, _CP, Of(action), coroutine, born, freed)
        /\ _FP.name \in Functions /\ _FP \in APointer
        /\ coroutine \in [Coroutines -> Members]
  BY Now
<1>2. /\ action.type \in {"repeat", "none"} /\ taking' = FALSE /\ action' = Action("none")
      /\ UNCHANGED <<_CP, _FP, coroutine, born, raised, freed, disposed>>
  BY DEF TakeOther
<1>3. /\ Of(action) = Null /\ raised \in 0 .. MaxErrors /\ disposed \in [Errors -> Nat]
  BY <1>2 DEF StackInv, StackTypeOK, Of
<1>4. Of(action') = Null /\ action'.type = "none" /\ Carries(action')
  BY <1>2 DEF Of, Action, Carries, AnAction, Functions, Null
<1>5. HandInv'
  BY <1>2, <1>3, <1>4 DEF StackInv, HandInv
<1>6. StackInv' /\ Stack' = s
  BY <1>1, <1>2, <1>3, <1>4, <1>5, Arrived
<1>7. Frames' = Frames
  BY <1>1, <1>2, <1>6, CallsKept
<1>8. Failing' = Failing
  BY <1>2 DEF Failing
<1> QED
  BY <1>6, <1>7, <1>8 DEF Moves

-----------------------------------------------------------------------------
(* Errors *)

\* What disposing of the error in hand leaves.
LEMMA ErrorDisposed ==
  ASSUME StackInv, action.type = "error"
  PROVE  /\ Overwritten(action) = {action.of} /\ action.of \in 1 .. raised
         /\ Of(action) = Null /\ raised \in 0 .. MaxErrors /\ _CP # Null
         /\ disposed \in [Errors -> Nat] /\ MaxErrors \in Nat
         /\ \A e \in Errors : disposed[e] = IF e <= raised /\ action.of # e THEN 1 ELSE 0
<1>1. action.of \in 1 .. raised /\ raised \in 0 .. MaxErrors /\ MaxErrors \in Nat
  BY StackConstants DEF StackInv, StackTypeOK, HandInv
<1>2. Overwritten(action) = {action.of} /\ Of(action) = Null
  BY <1>1 DEF Overwritten, Null, Of
<1>3. \A e \in Errors : disposed[e] = IF e <= raised /\ action.of # e THEN 1 ELSE 0
  BY DEF StackInv, HandInv
<1> QED
  BY <1>1, <1>2, <1>3 DEF StackInv, StackTypeOK, HandInv

\* The handler answers with an action that is no error.
LEMMA HandleErrorSteps ==
  ASSUME StackInv, HandleError
  PROVE  StackInv' /\ Moves
<1>1. PICK s \in Seq(Coroutines) :
        /\ s = Stack /\ Sound(s, _CP, Of(action), coroutine, born, freed)
        /\ _FP.name \in Functions /\ _FP \in APointer /\ _CP \in Coroutines \cup {Null}
        /\ coroutine \in [Coroutines -> Members]
  BY Now
<1>2. /\ taking /\ action.type = "error" /\ Dispose(Overwritten(action))
      /\ UNCHANGED <<_CP, _FP, taking, raised, freed>>
  BY DEF HandleError
<1>3. /\ Overwritten(action) = {action.of} /\ action.of \in 1 .. raised
      /\ Of(action) = Null /\ raised \in 0 .. MaxErrors /\ _CP # Null
      /\ disposed \in [Errors -> Nat] /\ MaxErrors \in Nat
      /\ \A e \in Errors : disposed[e] = IF e <= raised /\ action.of # e THEN 1 ELSE 0
  BY <1>2, ErrorDisposed
<1>4. disposed' \in [Errors -> Nat] /\ \A e \in Errors : disposed'[e] = IF e <= raised THEN 1 ELSE 0
  BY <1>2, <1>3 DEF Dispose, Errors
<1>5. /\ Sound(s, _CP, Of(action'), coroutine', born', freed)
      /\ Carries(action') /\ action'.type \notin {"error", "none"}
      /\ \A i \in 1 .. Len(s) : coroutine'[s[i]] = coroutine[s[i]]
  <2>1. \A a \in Plain(_CP) : /\ Carries(a) /\ Of(a) = Null
                             /\ a.type \in {"yieldTo", "repeat", "finish"}
    BY <1>1, <1>3, PlainIs
  <2>2. ASSUME NEW a \in Plain(_CP), StartThen(_CP, a)
        PROVE  /\ Sound(s, _CP, Of(action'), coroutine', born', freed)
               /\ Carries(action') /\ action'.type = "coroutine"
               /\ \A i \in 1 .. Len(s) : coroutine'[s[i]] = coroutine[s[i]]
    BY <1>1, <1>3, <2>1, <2>2, ThenStarted
  <2>3. CASE \E a \in Plain(_CP) : action' = a /\ UNCHANGED <<coroutine, born>>
    BY <1>1, <1>3, <2>1, <2>3
  <2> QED BY <2>2, <2>3 DEF HandleError
<1>6. HandInv'
  BY <1>2, <1>3, <1>4, <1>5 DEF HandInv, StackInv, StackTypeOK
<1>7. StackInv' /\ Stack' = s
  <2>1. taking' \in BOOLEAN
    BY <1>2 DEF StackInv, StackTypeOK
  <2> QED BY <1>1, <1>2, <1>3, <1>4, <1>5, <1>6, <2>1, Arrived
<1>8. Frames' = Frames
  BY <1>1, <1>2, <1>5, <1>7, CallsKept DEF Sound, Typed
<1>9. Failing /\ Failing' = FALSE
  BY <1>2, <1>5 DEF Failing
<1>10. Nesting!Handle
  BY <1>8, <1>9 DEF Nesting!Handle
<1> QED
  BY <1>7, <1>10 DEF Moves, Nesting!Next

\* What goes with the running coroutine: what its caller was to continue with.
LEMMA GoneIs ==
  ASSUME NEW s, Sound(s, _CP, Null, coroutine, born, freed), _CP # Null
  PROVE  LET h == Behind(coroutine, _CP)
         IN  /\ WithChain(_CP) = {_CP} \cup (IF h = Null THEN {} ELSE {h})
             /\ h # _CP /\ h \in Coroutines \cup {Null} /\ _CP \in Coroutines
             /\ h # Null => Behind(coroutine, h) = Null
<1> DEFINE h == Behind(coroutine, _CP)
           a == coroutine[_CP].returnAction
<1>1. /\ s \in Seq(Coroutines) /\ Len(s) \in Nat
      /\ \A c \in Coroutines : c # Null /\ Behind(coroutine, c) \in Coroutines \cup {Null}
      /\ Owned(s, Null, coroutine, born, freed) /\ Called(s, _CP, coroutine)
      /\ _CP \in Coroutines
  BY Known DEF Sound, Typed
<1>2. s # <<>> /\ s[1] = _CP /\ 1 \in 1 .. Len(s)
  <2>1. s # <<>> /\ s[1] = _CP
    BY <1>1 DEF Called
  <2> QED BY <1>1, <2>1, EmptySeq
<1>3. h \in Coroutines \cup {Null} /\ Of(a) = h
  BY <1>1 DEF Behind
<1>4. h # _CP
  BY <1>1, <1>2 DEF Owned
<1>5. h # Null => Behind(coroutine, h) = Null
  <2>1. ASSUME h # Null, Behind(coroutine, h) # Null PROVE FALSE
    <3>1. h \in Coroutines
      BY <1>3, <2>1
    <3>2. h = Null \/ \E i \in 1 .. Len(s) : s[i] = h
      BY <1>1, <2>1, <3>1 DEF Owned
    <3>3. \A i \in 1 .. Len(s) : s[i] # h
      BY <1>1 DEF Owned
    <3> QED BY <2>1, <3>2, <3>3
  <2> QED BY <2>1
<1>6. h # Null => Pointee(coroutine[h].returnAction) = {}
  BY <1>5, PointeeIs DEF Behind
<1>7. Chain(a) = IF h = Null THEN {} ELSE {h}
  <2> HIDE DEF h, a
  <2> QED BY <1>3, <1>6, ChainIs
<1> QED
  BY <1>1, <1>3, <1>4, <1>5, <1>7 DEF WithChain

\* An error removes the running coroutine.
LEMMA Removed ==
  ASSUME StackInv, NEW s \in Seq(Coroutines), Sound(s, _CP, Null, coroutine, born, freed),
         _CP # Null, Delete(WithChain(_CP)), coroutine' = Cleared(coroutine, WithChain(_CP))
  PROVE  /\ Sound(Tail(s), coroutine[_CP].parent, Null, coroutine', born, freed')
         /\ \A i \in 1 .. Len(Tail(s)) : Tail(s)[i] \in Coroutines
                                        /\ coroutine'[Tail(s)[i]] = coroutine[Tail(s)[i]]
<1> DEFINE h == Behind(coroutine, _CP)
           gone == WithChain(_CP)
           m2 == Cleared(coroutine, {_CP})
           f2 == [c \in Coroutines |-> freed[c] + (IF c = _CP THEN 1 ELSE 0)]
           up == coroutine[_CP].parent
<1>1. /\ gone = {_CP} \cup (IF h = Null THEN {} ELSE {h})
      /\ h # _CP /\ h \in Coroutines \cup {Null} /\ _CP \in Coroutines
      /\ h # Null => Behind(coroutine, h) = Null
  BY GoneIs
<1>2. coroutine \in [Coroutines -> Members] /\ freed \in [Coroutines -> Nat]
  BY DEF StackInv, StackTypeOK
<1>3. Unborn \in Members
  BY DEF Unborn, Members, Action, AnAction, Pointer, APointer, Functions, Null
<1>4. /\ m2 \in [Coroutines -> Members]
      /\ \A c \in Coroutines : m2[c] = IF c = _CP THEN Unborn ELSE coroutine[c]
  BY <1>2, <1>3 DEF Cleared
<1>5. /\ f2 \in [Coroutines -> Nat]
      /\ \A c \in Coroutines : f2[c] = freed[c] + (IF c = _CP THEN 1 ELSE 0)
  BY <1>2
<1>6. /\ coroutine' \in [Coroutines -> Members]
      /\ \A c \in Coroutines : coroutine'[c] = IF c \in gone THEN Unborn ELSE coroutine[c]
      /\ freed' \in [Coroutines -> Nat]
      /\ \A c \in Coroutines : freed'[c] = freed[c] + (IF c \in gone THEN 1 ELSE 0)
  <2> HIDE DEF gone
  <2>1. freed' = [c \in Coroutines |-> freed[c] + (IF c \in gone THEN 1 ELSE 0)]
    BY DEF Delete, gone
  <2>2. coroutine' = [c \in Coroutines |-> IF c \in gone THEN Unborn ELSE coroutine[c]]
    BY DEF Cleared, gone
  <2> QED BY <1>2, <1>3, <2>1, <2>2
<1> HIDE DEF m2, f2, gone, h
<1>7. Sound(Tail(s), up, h, m2, born, f2)
  BY <1>1, <1>4, <1>5, Returned DEF h
<1>8. ASSUME h = Null PROVE Sound(Tail(s), up, Null, coroutine', born, freed')
  <2>1. \A c \in Coroutines : coroutine'[c] = m2[c] /\ freed'[c] = f2[c]
    BY <1>1, <1>4, <1>5, <1>6, <1>8
  <2>2. coroutine' = m2 /\ freed' = f2
    BY <1>4, <1>5, <1>6, <2>1
  <2> QED BY <1>7, <1>8, <2>2
<1>9. ASSUME h # Null PROVE Sound(Tail(s), up, Null, coroutine', born, freed')
  <2>0. gone = {_CP, h}
    BY <1>1, <1>9
  <2>1. /\ \A c \in Coroutines : coroutine'[c] = IF c = h THEN Unborn ELSE m2[c]
        /\ \A c \in Coroutines : freed'[c] = f2[c] + (IF c = h THEN 1 ELSE 0)
    <3>1. ASSUME NEW c \in Coroutines
          PROVE  /\ coroutine'[c] = IF c = h THEN Unborn ELSE m2[c]
                 /\ freed'[c] = f2[c] + (IF c = h THEN 1 ELSE 0)
      <4>1. freed[c] \in Nat
        BY <1>2
      <4>2. c \in gone <=> c = _CP \/ c = h
        BY <2>0
      <4>3. /\ m2[c] = IF c = _CP THEN Unborn ELSE coroutine[c]
            /\ coroutine'[c] = IF c \in gone THEN Unborn ELSE coroutine[c]
        BY <1>4, <1>6
      <4>4. /\ f2[c] = freed[c] + (IF c = _CP THEN 1 ELSE 0)
            /\ freed'[c] = freed[c] + (IF c \in gone THEN 1 ELSE 0)
        BY <1>5, <1>6
      <4>5. h # _CP
        BY <1>1
      <4>6. coroutine'[c] = IF c = h THEN Unborn ELSE m2[c]
        BY <4>2, <4>3
      <4>7. freed'[c] = f2[c] + (IF c = h THEN 1 ELSE 0)
        BY <4>1, <4>2, <4>4, <4>5
      <4> QED BY <4>6, <4>7
    <3> QED BY <3>1
  <2>2. Behind(m2, h) = Null
    BY <1>1, <1>4, <1>9 DEF Behind
  <2>3. coroutine' \in [Coroutines -> Members] /\ freed' \in [Coroutines -> Nat]
    BY <1>6
  <2> QED BY <1>7, <1>9, <2>1, <2>2, <2>3, HandFreed, SMTT(30)
<1>10. ASSUME NEW i \in 1 .. Len(Tail(s))
       PROVE  Tail(s)[i] \in Coroutines /\ coroutine'[Tail(s)[i]] = coroutine[Tail(s)[i]]
  <2>1. s # <<>> /\ s[1] = _CP /\ Called(s, _CP, coroutine)
    BY DEF Sound, Called
  <2>2. /\ Tail(s)[i] = s[i + 1] /\ i + 1 \in 1 .. Len(s) /\ 1 \in 1 .. Len(s) /\ i + 1 # 1
    BY <2>1
  <2>3. s[i + 1] # _CP /\ s[i + 1] \in Coroutines
    <3>1. s[i + 1] # s[1]
      BY <2>1, <2>2 DEF Called
    <3> QED BY <2>1, <2>2, <3>1, ElementOfSeq
  <2>4. s[i + 1] # h
    <3>1. Owned(s, Null, coroutine, born, freed)
      BY DEF Sound
    <3> QED BY <1>1, <2>2, <3>1 DEF Owned, h
  <2> QED BY <1>1, <1>6, <2>2, <2>3, <2>4
<1> QED
  BY <1>8, <1>9, <1>10

\* The frames after the running coroutine went with an error.
LEMMA Unwound ==
  ASSUME StackInv, StackInv', NEW s \in Seq(Coroutines), s = Stack, s # <<>>,
         Stack' = Tail(s), _FP' = _FP, taking, taking', action.type = "error",
         action'.type = "error" <=> _CP' # Null,
         \A i \in 1 .. Len(Tail(s)) : coroutine'[Tail(s)[i]] = coroutine[Tail(s)[i]]
  PROVE  Moves
<1> DEFINE F == Frames
           C == SubSeq(F, 1, Len(F) - 1)
           t == Tail(s)
           fn == coroutine[s[1]].returnFP.name
<1>1. /\ F = FramesOf(s, _FP.name, coroutine)
      /\ _FP.name \in Functions
      /\ coroutine \in [Coroutines -> Members] /\ coroutine' \in [Coroutines -> Members]
  BY Now DEF StackInv, StackTypeOK
<1>2. F # <<>>
  BY <1>1, FramesThere
<1>3. t \in Seq(Coroutines) /\ s[1] \in Coroutines
  <2>1. 1 \in 1 .. Len(s)
    BY EmptySeq
  <2> QED BY <2>1, HeadTailProperties, ElementOfSeq
<1>4. fn \in Functions
  <2>1. coroutine[s[1]] \in Members
    BY <1>1, <1>3
  <2> QED BY <2>1 DEF Members, APointer
<1>5. FramesOf(t, fn, coroutine') = C
  BY <1>1, FramePopped
<1>6. Frames' = FramesOf(t, _FP.name, coroutine')
  BY DEF Frames, FramesOf
<1>7. t # <<>> <=> _CP' # Null
  BY DEF StackInv, Sound, Called
<1>8. C # <<>> <=> t # <<>>
  <2> HIDE DEF C, fn, t
  <2> QED BY <1>1, <1>3, <1>4, <1>5, FramesThere
<1>9. Failing /\ Failing' = (C # <<>>)
  BY <1>7, <1>8 DEF Failing
<1>10. C = <<>> => Frames' = <<>>
  <2> HIDE DEF C, fn, t
  <2> QED BY <1>1, <1>3, <1>6, <1>8, FramesThere
<1>11. C # <<>> =>
         Frames' = Append(SubSeq(C, 1, Len(C) - 1), [C[Len(C)] EXCEPT !.fn = _FP.name])
  <2> HIDE DEF C, fn, t
  <2> DEFINE G == FramesOf(t, fn, coroutine')
  <2>1. t # <<>> => FramesOf(t, _FP.name, coroutine') =
                      Append(SubSeq(G, 1, Len(G) - 1), [G[Len(G)] EXCEPT !.fn = _FP.name])
    BY <1>1, <1>3, <1>4, FrameGoes
  <2>2. G = C
    BY <1>5
  <2> HIDE DEF G
  <2> QED BY <1>6, <1>8, <2>1, <2>2
<1>12. Nesting!Callers = C
  BY DEF Nesting!Callers, Nesting!Front
<1>13. Nesting!Unwind
  <2> HIDE DEF C, fn, t
  <2>1. /\ Nesting!Last(C) = C[Len(C)]
        /\ Nesting!Front(C) = SubSeq(C, 1, Len(C) - 1)
    BY DEF Nesting!Last, Nesting!Front
  <2> QED BY <1>1, <1>2, <1>9, <1>10, <1>11, <1>12, <2>1 DEF Nesting!Unwind
<1> QED
  BY <1>13 DEF Moves, Nesting!Next

\* The running coroutine goes with an error; its caller has the error in hand, if any.
LEMMA ErrorPassed ==
  ASSUME StackInv, action.type = "error", taking, UNCHANGED <<_FP, taking, born>>,
         Delete(WithChain(_CP)), coroutine' = Cleared(coroutine, WithChain(_CP)),
         _CP' = coroutine[_CP].parent, Carries(action'), Of(action') = Null,
         raised' \in 0 .. MaxErrors,
         _CP' = Null => action'.type = "none",
         _CP' # Null => action'.type = "error" /\ action'.of \in 1 .. raised',
         disposed' \in [Errors -> Nat],
         \A e \in Errors :
           disposed'[e] = IF e <= raised' /\ ~ (action'.type = "error" /\ action'.of = e)
                          THEN 1 ELSE 0
  PROVE  StackInv' /\ Moves
<1>1. PICK s \in Seq(Coroutines) :
        /\ s = Stack /\ Sound(s, _CP, Of(action), coroutine, born, freed)
        /\ _FP.name \in Functions /\ _FP \in APointer
        /\ coroutine \in [Coroutines -> Members]
        /\ _CP # Null => s # <<>> /\ s[1] = _CP
  BY Now
<1>2. Of(action) = Null /\ _CP # Null
  BY ErrorDisposed
<1>3. /\ Sound(Tail(s), coroutine[_CP].parent, Null, coroutine', born, freed')
      /\ \A i \in 1 .. Len(Tail(s)) : coroutine'[Tail(s)[i]] = coroutine[Tail(s)[i]]
  BY <1>1, <1>2, Removed
<1>4. HandInv'
  BY DEF HandInv
<1>5. Sound(Tail(s), _CP', Of(action'), coroutine', born', freed')
  BY <1>3
<1>6. StackInv' /\ Stack' = Tail(s)
  <2>1. taking' \in BOOLEAN
    BY DEF StackInv, StackTypeOK
  <2> QED BY <1>1, <1>4, <1>5, <2>1, Arrived
<1>7. action'.type = "error" <=> _CP' # Null
  OBVIOUS
<1> QED
  BY <1>1, <1>2, <1>3, <1>6, <1>7, Unwound

\* The handler returns the error it was given.
LEMMA PassErrorSteps ==
  ASSUME StackInv, PassError
  PROVE  StackInv' /\ Moves
<1>1. /\ taking /\ action.type = "error" /\ UNCHANGED <<_FP, taking, born, raised>>
      /\ Delete(WithChain(_CP)) /\ coroutine' = Cleared(coroutine, WithChain(_CP))
      /\ _CP' = coroutine[_CP].parent
      /\ IF _CP' = Null THEN Dispose({action.of}) /\ action' = Action("none")
                        ELSE UNCHANGED <<action, disposed>>
  BY DEF PassError
<1>2. /\ action.of \in 1 .. raised /\ Of(action) = Null /\ raised \in 0 .. MaxErrors
      /\ disposed \in [Errors -> Nat] /\ MaxErrors \in Nat
      /\ \A e \in Errors : disposed[e] = IF e <= raised /\ action.of # e THEN 1 ELSE 0
  BY <1>1, ErrorDisposed
<1>3. Carries(action)
  BY DEF StackInv, HandInv
<1>4. CASE _CP' = Null
  <2>1. Of(action') = Null /\ action'.type = "none" /\ Carries(action')
    BY <1>1, <1>4 DEF Of, Action, Carries, AnAction, Functions, Null
  <2>2. /\ disposed' \in [Errors -> Nat]
        /\ \A e \in Errors : disposed'[e] = IF e <= raised THEN 1 ELSE 0
    BY <1>1, <1>2, <1>4, SMTT(30) DEF Dispose, Errors
  <2> QED BY <1>1, <1>2, <1>4, <2>1, <2>2, ErrorPassed
<1>5. CASE _CP' # Null
  <2>1. UNCHANGED <<action, disposed>>
    BY <1>1, <1>5
  <2> QED BY <1>1, <1>2, <1>3, <1>5, <2>1, ErrorPassed
<1> QED
  BY <1>4, <1>5

\* The handler comes with an error of its own.
LEMMA ReplaceErrorSteps ==
  ASSUME StackInv, ReplaceError
  PROVE  StackInv' /\ Moves
<1>1. /\ taking /\ action.type = "error" /\ Raise /\ UNCHANGED <<_FP, taking, born>>
      /\ Delete(WithChain(_CP)) /\ coroutine' = Cleared(coroutine, WithChain(_CP))
      /\ _CP' = coroutine[_CP].parent
      /\ IF _CP' = Null
         THEN Dispose(Overwritten(action) \cup {raised'}) /\ action' = Action("none")
         ELSE Dispose(Overwritten(action)) /\ action' = Failure(raised')
  BY DEF ReplaceError
<1>2. /\ Overwritten(action) = {action.of} /\ action.of \in 1 .. raised
      /\ raised \in 0 .. MaxErrors
      /\ disposed \in [Errors -> Nat] /\ MaxErrors \in Nat
      /\ \A e \in Errors : disposed[e] = IF e <= raised /\ action.of # e THEN 1 ELSE 0
  BY <1>1, ErrorDisposed
<1>3. raised' = raised + 1 /\ raised' \in 0 .. MaxErrors /\ raised' \in 1 .. raised'
  BY <1>1, <1>2 DEF Raise
<1>4. CASE _CP' = Null
  <2>1. Of(action') = Null /\ action'.type = "none" /\ Carries(action')
    BY <1>1, <1>4 DEF Of, Action, Carries, AnAction, Functions, Null
  <2>2. disposed' = [e \in Errors |-> disposed[e] + (IF e \in {action.of, raised'} THEN 1 ELSE 0)]
    BY <1>1, <1>2, <1>4 DEF Dispose
  <2>3. disposed' \in [Errors -> Nat]
    BY <1>2, <2>2
  <2>4. ASSUME NEW e \in Errors PROVE disposed'[e] = IF e <= raised' THEN 1 ELSE 0
    <3>1. /\ disposed'[e] = disposed[e] + (IF e \in {action.of, raised'} THEN 1 ELSE 0)
          /\ disposed[e] = IF e <= raised /\ action.of # e THEN 1 ELSE 0
      BY <1>2, <2>2
    <3>2. /\ e <= raised' <=> e <= raised \/ e = raised'
          /\ action.of # raised' /\ action.of <= raised /\ ~ (raised' <= raised)
      BY <1>2, <1>3 DEF Errors
    <3> QED BY <3>1, <3>2
  <2> QED BY <1>1, <1>3, <1>4, <2>1, <2>3, <2>4, ErrorPassed
<1>5. CASE _CP' # Null
  <2>1. /\ action'.type = "error" /\ action'.of = raised' /\ Of(action') = Null
        /\ Carries(action')
    BY <1>1, <1>3, <1>5 DEF Failure, Action, Of, Carries, AnAction, Functions, Null
  <2>2. disposed' = [e \in Errors |-> disposed[e] + (IF e \in {action.of} THEN 1 ELSE 0)]
    BY <1>1, <1>2, <1>5 DEF Dispose
  <2>3. disposed' \in [Errors -> Nat]
    BY <1>2, <2>2
  <2>4. ASSUME NEW e \in Errors
        PROVE  disposed'[e] = IF e <= raised' /\ raised' # e THEN 1 ELSE 0
    <3>1. /\ disposed'[e] = disposed[e] + (IF e = action.of THEN 1 ELSE 0)
          /\ disposed[e] = IF e <= raised /\ action.of # e THEN 1 ELSE 0
      BY <1>2, <2>2
    <3>2. (e <= raised' /\ raised' # e <=> e <= raised) /\ action.of <= raised
      BY <1>2, <1>3 DEF Errors
    <3> QED BY <3>1, <3>2
  <2> QED BY <1>1, <1>3, <1>5, <2>1, <2>3, <2>4, ErrorPassed
<1> QED
  BY <1>4, <1>5

-----------------------------------------------------------------------------
\* A new handle satisfies the invariant, and has one frame.
LEMMA StackStarts ==
  ASSUME StackInit
  PROVE  StackInv /\ Nesting!Init
<1> DEFINE s == <<1>>
<1>1. /\ _CP = 1 /\ _FP = Pointer(1, "act") /\ action = Action("none") /\ taking = FALSE
      /\ coroutine = [c \in Coroutines |-> Unborn] /\ born = 1 /\ raised = 0
      /\ freed = [c \in Coroutines |-> 0] /\ disposed = [e \in Errors |-> 0]
  BY DEF StackInit
<1>2. /\ 1 \in Coroutines /\ MaxErrors \in Nat /\ \A c \in Coroutines : c \in Nat /\ c # Null
      /\ \A e \in Errors : e \in Nat /\ e > 0
  BY StackConstants DEF Coroutines, Errors, Null
<1>3. s \in Seq(Coroutines) /\ Len(s) = 1 /\ s # <<>> /\ s[1] = 1 /\ \A i \in 1 .. Len(s) : i = 1
  BY <1>2
<1> HIDE DEF s
<1>4. /\ Unborn \in Members /\ Of(Unborn.returnAction) = Null /\ Unborn.callback.of = Null
      /\ Carries(Unborn.returnAction) /\ Unborn.returnAction.type # "error"
      /\ Unborn.parent = Null /\ Unborn.returnAction = Action("none")
  BY DEF Unborn, Members, Action, AnAction, Pointer, APointer, Functions, Null, Of, Carries
<1>5. /\ \A c \in Coroutines : Behind(coroutine, c) = Null /\ coroutine[c] = Unborn
      /\ Of(action) = Null /\ Carries(action) /\ action.type = "none"
  BY <1>1, <1>4 DEF Behind, Of, Action, Carries, AnAction, Functions, Null
<1>6. Typed(s, 1, Null, coroutine, born, freed)
  BY <1>1, <1>2, <1>3, <1>4, <1>5 DEF Typed
<1>7. Called(s, 1, coroutine)
  BY <1>2, <1>3, <1>4, <1>5, StackConstants DEF Called, Null
<1>8. \A c \in Coroutines : Owner(s, Null, coroutine, c) <=> c = 1
  BY <1>2, <1>3, <1>5 DEF Owner
<1>9. Owned(s, Null, coroutine, born, freed)
  <2>1. \A c \in Coroutines : freed[c] = 0
    BY <1>1
  <2>2. \A c \in 1 .. born : c = 1
    BY <1>1
  <2>3. \A c \in Coroutines : c > born => c # 1
    BY <1>1, <1>2
  <2> QED BY <1>1, <1>2, <1>3, <1>5, <1>8, <2>1, <2>2, <2>3 DEF Owned
<1>10. Answering(s, 1, Null, coroutine)
  BY <1>2, <1>3, <1>4, <1>5 DEF Answering
<1>11. Sound(s, 1, Null, coroutine, born, freed)
  BY <1>6, <1>7, <1>9, <1>10 DEF Sound
<1>12. Stack = s
  BY <1>1, <1>3, <1>7, CallsAre DEF Stack
<1>13. HandInv
  BY <1>1, <1>2, <1>5 DEF HandInv, Null
<1>14. StackTypeOK
  <2>1. _FP \in APointer
    BY <1>1, <1>2 DEF Pointer, APointer, Functions
  <2>2. coroutine \in [Coroutines -> Members] /\ action \in AnAction
    BY <1>1, <1>4, <1>5 DEF Carries
  <2>3. freed \in [Coroutines -> Nat] /\ disposed \in [Errors -> Nat]
    BY <1>1
  <2>4. _CP \in Coroutines \cup {Null} /\ taking \in BOOLEAN /\ born \in Coroutines
    BY <1>1, <1>2
  <2>5. raised \in 0 .. MaxErrors
    BY <1>1, <1>2
  <2> QED BY <2>1, <2>2, <2>3, <2>4, <2>5 DEF StackTypeOK
<1>15. StackInv
  BY <1>1, <1>5, <1>11, <1>12, <1>13, <1>14 DEF StackInv
<1>16. Frames = <<[who |-> 1, fn |-> "act"]>>
  <2>1. \A i \in 1 .. 1 : i = 1 /\ 1 + 1 - i = 1
    OBVIOUS
  <2>2. Frames = [i \in 1 .. 1 |-> [who |-> 1, fn |-> "act"]]
    BY <1>1, <1>3, <1>12, <2>1 DEF Frames, Pointer
  <2> QED BY <2>2
<1>17. ~ Failing
  BY <1>1 DEF Failing
<1> QED
  BY <1>2, <1>15, <1>16, <1>17 DEF Nesting!Init, Failing

\* Every step keeps the invariant, and is one of CallStack or none.
LEMMA StackMoves ==
  ASSUME StackInv, [StackNext]_stackVars
  PROVE  StackInv' /\ Moves
<1>1. CASE Iterate
  BY <1>1, IterateSteps
<1>2. CASE DropStarter
  BY <1>2, DropStarterSteps
<1>3. CASE TakeCoroutine
  BY <1>3, TakeCoroutineSteps
<1>4. CASE TakeFinish
  BY <1>4, TakeFinishSteps
<1>5. CASE TakeYieldTo
  BY <1>5, TakeYieldToSteps
<1>6. CASE HandleError
  BY <1>6, HandleErrorSteps
<1>7. CASE PassError
  BY <1>7, PassErrorSteps
<1>8. CASE ReplaceError
  BY <1>8, ReplaceErrorSteps
<1>9. CASE TakeOther
  BY <1>9, TakeOtherSteps
<1>10. CASE UNCHANGED stackVars
  <2>1. PICK s \in Seq(Coroutines) :
          s = Stack /\ Sound(s, _CP, Of(action), coroutine, born, freed)
    BY TheCalls
  <2>2. UNCHANGED <<_CP, _FP, action, taking, coroutine, born, raised, freed, disposed>>
    BY <1>10 DEF stackVars
  <2>3. StackInv'
    BY <2>2 DEF StackInv, StackTypeOK, HandInv, Stack
  <2>4. UNCHANGED <<Frames, Failing>>
    BY <2>2 DEF Frames, Failing, Stack
  <2> QED BY <2>3, <2>4 DEF Moves
<1> QED
  BY <1>1, <1>2, <1>3, <1>4, <1>5, <1>6, <1>7, <1>8, <1>9, <1>10 DEF StackNext

\* The inductive invariant of a handle's coroutines: the chain of callers, the owner that
\* each coroutine has exactly once, and the results asked for, in every state.
THEOREM StackIsSound == StackSpec => []StackInv
<1>1. StackInit => StackInv
  BY StackStarts
<1>2. StackInv /\ [StackNext]_stackVars => StackInv'
  BY StackMoves
<1> QED
  BY <1>1, <1>2, PTL DEF StackSpec

\* Whatever the coroutines of a handle return, throw, chain or drop: coroutines and errors
\* are freed once, when nothing reaches them any more, and a result goes to the coroutine
\* that asked for it (async/Coroutine.cpp, takeAction, Action::free).
THEOREM OwnedAlways == StackSpec => []CoroutinesOwned
<1>1. StackInv => CoroutinesOwned
  BY EachFreedOnce
<1> QED
  BY <1>1, StackIsSound, PTL

\* Calls nest: a coroutine that finishes gives control back to the one that called it, in
\* the function it was to continue in, and an error removes one caller at a time
\* (CoroutineHandle::takeAction and iterate implement CallStack).
THEOREM CallsNestAlways == StackSpec => CallsNest
<1>1. StackInit => Nesting!Init
  BY StackStarts
<1>2. StackInv /\ [StackNext]_stackVars
        => (stackVars' # stackVars => [Nesting!Next]_<<Frames, Failing>>)
  BY StackMoves DEF Moves
<1>3. StackInv /\ [StackNext]_stackVars
        => [stackVars' # stackVars => [Nesting!Next]_<<Frames, Failing>>]_stackVars
  BY <1>2
<1> QED
  BY <1>1, <1>3, StackIsSound, PTL DEF StackSpec, CallsNest

\* The same, as the refinement that it is: a handle implements a call stack.
THEOREM HandleIsCallStack == StackSpec => Nesting!Spec
<1>1. StackInit => Nesting!Init
  BY StackStarts
<1>2. StackInv /\ [StackNext]_stackVars => [Nesting!Next]_<<Frames, Failing>>
  BY StackMoves DEF Moves
<1> QED
  BY <1>1, <1>2, StackIsSound, PTL DEF StackSpec, Nesting!Spec

-----------------------------------------------------------------------------
(* Sums over finite sets.                                                    *)

\* A set of finite sets that is not empty has a smallest member.
LEMMA SmallestSet ==
  ASSUME NEW S, IsFiniteSet(S), NEW T, T \subseteq SUBSET S, T # {}
  PROVE  \E x \in T : \A y \in T : ~ (y \subseteq x /\ y # x)
<1>1. T \subseteq FiniteSubsetsOf(S)
  <2>1. FiniteSubsetsOf(S) = SUBSET S
    BY FS_FiniteSubsetsOfFinite
  <2> QED BY <2>1
<1>2. PICK x \in T : \A y \in T : ~(<<y, x>> \in StrictSubsetOrdering(S))
  BY <1>1, FS_StrictSubsetOrderingWellFounded, WFMin
<1>3. ASSUME NEW y \in T, y \subseteq x, y # x PROVE FALSE
  <2>1. <<y, x>> \in StrictSubsetOrdering(S)
    BY <1>3 DEF StrictSubsetOrdering
  <2> QED BY <1>2, <2>1
<1> QED BY <1>2, <1>3

\* The walk over a set that a sum takes, element by element.
OneOf(s) == CHOOSE x \in s : TRUE
Summed(f, T, g) ==
  /\ g = [U \in SUBSET T |-> g[U]]
  /\ g[{}] = 0
  /\ \A U \in SUBSET T : U # {} => g[U] = f[OneOf(U)] + g[U \ {OneOf(U)}]

\* An element is one of the set's.
LEMMA OneOfIn == \A s : s # {} => OneOf(s) \in s /\ s \ {OneOf(s)} \subseteq s
                                 /\ s \ {OneOf(s)} # s
BY DEF OneOf

\* Two walks agree where both have been.
LEMMA SummedUnique ==
  ASSUME NEW S, IsFiniteSet(S), NEW f, NEW T \in SUBSET S, NEW V \in SUBSET S, NEW g, NEW h,
         Summed(f, T, g), Summed(f, V, h), NEW W \in SUBSET (T \cap V)
  PROVE  g[W] = h[W]
<1> DEFINE Bad == {U \in SUBSET (T \cap V) : g[U] # h[U]}
<1>1. ASSUME Bad # {} PROVE FALSE
  <2>1. Bad \subseteq SUBSET S
    OBVIOUS
  <2>2. PICK U \in Bad : \A y \in Bad : ~(y \subseteq U /\ y # U)
    <3> HIDE DEF Bad
    <3> QED BY <1>1, <2>1, SmallestSet
  <2>3. U # {}
    BY DEF Summed
  <2> DEFINE R == U \ {OneOf(U)}
  <2>4. R \subseteq U /\ R # U
    BY <2>3, OneOfIn
  <2>5. R \in SUBSET (T \cap V) /\ g[R] = h[R]
    BY <2>2, <2>4
  <2>6. g[U] = f[OneOf(U)] + g[R] /\ h[U] = f[OneOf(U)] + h[R]
    BY <2>3 DEF Summed
  <2> QED BY <2>5, <2>6
<1> QED BY <1>1

\* There is a walk over every finite set.
LEMMA SummedExists ==
  ASSUME NEW S, IsFiniteSet(S), NEW f
  PROVE  \E g : Summed(f, S, g)
<1> DEFINE Bad == {T \in SUBSET S : ~ \E g : Summed(f, T, g)}
<1>1. ASSUME Bad # {} PROVE FALSE
  <2>1. PICK T \in Bad : \A y \in Bad : ~(y \subseteq T /\ y # T)
    <3>1. Bad \subseteq SUBSET S
      OBVIOUS
    <3> HIDE DEF Bad
    <3> QED BY <1>1, <3>1, SmallestSet
  <2> DEFINE G == [U \in SUBSET S |-> CHOOSE g : Summed(f, U, g)]
             Whole(U) == IF U = {} THEN 0 ELSE f[OneOf(U)] + G[U \ {OneOf(U)}][U \ {OneOf(U)}]
             g == [U \in SUBSET T |-> Whole(U)]
  <2>2. ASSUME NEW U \in SUBSET T, U # T PROVE Summed(f, U, G[U])
    <3>1. U \notin Bad
      BY <2>1, <2>2
    <3>2. \E k : Summed(f, U, k)
      BY <3>1
    <3> QED BY <3>2
  <2>3. ASSUME NEW U \in SUBSET T, U # T PROVE G[U][U] = g[U]
    <3>1. Summed(f, U, G[U])
      BY <2>2, <2>3
    <3>2. CASE U = {}
      <4>1. G[U][{}] = 0
        BY <3>1 DEF Summed
      <4> QED BY <3>2, <4>1
    <3>3. CASE U # {}
      <4> DEFINE R == U \ {OneOf(U)}
      <4>1. R \subseteq U /\ R # U /\ R \in SUBSET T /\ R # T
        BY <3>3, OneOfIn, <2>3
      <4>2. Summed(f, R, G[R])
        BY <2>2, <4>1
      <4>3. G[U][R] = G[R][R]
        <5>1. U \in SUBSET S /\ R \in SUBSET S /\ R \in SUBSET (U \cap R)
          BY <4>1
        <5> HIDE DEF G, R, g
        <5> QED BY <3>1, <4>2, <5>1, SummedUnique
      <4>4. G[U][U] = f[OneOf(U)] + G[U][R]
        <5> HIDE DEF G
        <5> QED BY <3>1, <3>3 DEF Summed
      <4>5. g[U] = f[OneOf(U)] + G[R][R]
        <5> HIDE DEF G
        <5> QED BY <3>3
      <4> HIDE DEF G, g
      <4> QED BY <4>3, <4>4, <4>5
    <3> QED BY <3>2, <3>3
  <2>4. Summed(f, T, g)
    <3>1. g = [U \in SUBSET T |-> g[U]]
      OBVIOUS
    <3>2. g[{}] = 0
      OBVIOUS
    <3>3. ASSUME NEW U \in SUBSET T, U # {}
          PROVE  g[U] = f[OneOf(U)] + g[U \ {OneOf(U)}]
      <4> DEFINE R == U \ {OneOf(U)}
      <4>1. R \in SUBSET T /\ R # T
        BY <3>3, OneOfIn
      <4>2. G[R][R] = g[R]
        BY <2>3, <4>1
      <4>3. g[U] = f[OneOf(U)] + G[R][R]
        <5> HIDE DEF G
        <5> QED BY <3>3
      <4> HIDE DEF G, g
      <4> QED BY <4>2, <4>3
    <3> HIDE DEF g
    <3> QED BY <3>1, <3>2, <3>3 DEF Summed
  <2> HIDE DEF g
  <2> QED BY <2>1, <2>4
<1> QED BY <1>1

\* A sum over the threads is the end of the walk.
LEMMA TotalIsWalked ==
  ASSUME NEW f
  PROVE  \E g : Summed(f, Threads, g) /\ Total(f) = g[Threads]
<1> DEFINE body(g, s) == IF s = {} THEN 0 ELSE f[OneOf(s)] + g[s \ {OneOf(s)}]
           iter == CHOOSE g : g = [s \in SUBSET Threads |-> body(g, s)]
<1>1. PICK g : Summed(f, Threads, g)
  BY SummedExists, EnvironmentConstants
<1>2. g = [s \in SUBSET Threads |-> body(g, s)]
  BY <1>1 DEF Summed
<1>3. iter = [s \in SUBSET Threads |-> body(iter, s)]
  <2> HIDE DEF body
  <2> QED BY <1>2, Zenon
<1>4. Total(f) = iter[Threads]
  BY DEF Total, MapThenSumSet, MapThenFoldSet, OneOf
<1>5. Summed(f, Threads, iter)
  <2> HIDE DEF iter
  <2> QED BY <1>3 DEF Summed
<1> HIDE DEF iter
<1> QED BY <1>4, <1>5

\* A sum of integers is an integer, and changes by as much as one of them.
LEMMA TotalMoves ==
  ASSUME NEW f \in [Threads -> Int], NEW t \in Threads, NEW d \in Int,
         NEW h, h[t] = f[t] + d, \A u \in Threads \ {t} : h[u] = f[u]
  PROVE  Total(f) \in Int /\ Total(h) = Total(f) + d
<1>1. PICK g : Summed(f, Threads, g) /\ Total(f) = g[Threads]
  BY TotalIsWalked
<1>2. PICK k : Summed(h, Threads, k) /\ Total(h) = k[Threads]
  BY TotalIsWalked
<1> DEFINE As(U) == g[U] \in Int /\ k[U] = g[U] + (IF t \in U THEN d ELSE 0)
           Bad == {U \in SUBSET Threads : ~As(U)}
<1>3. ASSUME Bad # {} PROVE FALSE
  <2>1. Bad \subseteq SUBSET Threads
    OBVIOUS
  <2>2. PICK U \in Bad : \A y \in Bad : ~(y \subseteq U /\ y # U)
    <3> HIDE DEF Bad
    <3> QED BY <1>3, <2>1, SmallestSet, EnvironmentConstants
  <2>3. U # {}
    <3>1. g[{}] = 0 /\ k[{}] = 0
      BY <1>1, <1>2 DEF Summed
    <3>2. As({})
      BY <3>1
    <3> QED BY <2>2, <3>2
  <2> DEFINE x == OneOf(U)
             R == U \ {x}
  <2>4. R \subseteq U /\ R # U /\ x \in U /\ x \in Threads
    BY <2>3, <2>2, OneOfIn
  <2>5. As(R)
    BY <2>2, <2>4
  <2>6. g[U] = f[x] + g[R] /\ k[U] = h[x] + k[R]
    BY <1>1, <1>2, <2>2, <2>3 DEF Summed
  <2>7. h[x] = f[x] + (IF x = t THEN d ELSE 0) /\ f[x] \in Int
    BY <2>4
  <2>8. As(U)
    <3> HIDE DEF x
    <3>1. CASE x = t
      <4>1. t \in U /\ t \notin R
        BY <2>4, <3>1
      <4> QED BY <2>5, <2>6, <2>7, <3>1, <4>1
    <3>2. CASE x # t
      <4>1. t \in U <=> t \in R
        BY <3>2
      <4> HIDE DEF R
      <4> QED BY <2>5, <2>6, <2>7, <3>2, <4>1
    <3> QED BY <3>1, <3>2
  <2> QED BY <2>2, <2>8
<1>4. As(Threads)
  BY <1>3
<1> QED BY <1>1, <1>2, <1>4

LEMMA TotalIsInteger == ASSUME NEW f \in [Threads -> Int] PROVE Total(f) \in Int
<1>1. CASE Threads = {}
  <2>1. PICK g : Summed(f, Threads, g) /\ Total(f) = g[Threads]
    BY TotalIsWalked
  <2> QED BY <1>1, <2>1 DEF Summed
<1>2. CASE Threads # {}
  <2>1. PICK t \in Threads : TRUE
    BY <1>2
  <2>2. \A u \in Threads \ {t} : f[u] = f[u]
    OBVIOUS
  <2>3. f[t] = f[t] + 0 /\ 0 \in Int
    BY <2>1
  <2> QED BY <2>1, <2>2, <2>3, TotalMoves
<1> QED BY <1>1, <1>2

LEMMA TotalMovesBy ==
  ASSUME NEW f \in [Threads -> Int], NEW t \in Threads, NEW d \in Int,
         NEW h, h[t] = f[t] + d, \A u \in Threads \ {t} : h[u] = f[u]
  PROVE  Total(h) = Total(f) + d
BY TotalMoves

\* A sum of zeros is zero.
LEMMA TotalOfZeros ==
  ASSUME NEW f, \A t \in Threads : f[t] = 0
  PROVE  Total(f) = 0
<1>1. PICK g : Summed(f, Threads, g) /\ Total(f) = g[Threads]
  BY TotalIsWalked
<1> DEFINE Bad == {U \in SUBSET Threads : g[U] # 0}
<1>2. ASSUME Bad # {} PROVE FALSE
  <2>1. Bad \subseteq SUBSET Threads
    OBVIOUS
  <2>2. PICK U \in Bad : \A y \in Bad : ~(y \subseteq U /\ y # U)
    <3> HIDE DEF Bad
    <3> QED BY <1>2, <2>1, SmallestSet, EnvironmentConstants
  <2>3. U # {}
    BY <1>1, <2>2 DEF Summed
  <2>4. OneOf(U) \in Threads /\ U \ {OneOf(U)} \in SUBSET Threads
        /\ U \ {OneOf(U)} \subseteq U /\ U \ {OneOf(U)} # U
    BY <2>3, <2>2, OneOfIn
  <2>5. g[U \ {OneOf(U)}] = 0
    BY <2>2, <2>4
  <2>6. g[U] = f[OneOf(U)] + g[U \ {OneOf(U)}]
    BY <1>1, <2>2, <2>3 DEF Summed
  <2> QED BY <2>2, <2>4, <2>5, <2>6
<1> QED BY <1>1, <1>2

-----------------------------------------------------------------------------
(* The registry and the counters.                                            *)

Points == {"idle", "registering", "destroying", "counted", "uncounted"}

EnvironmentTypes ==
  /\ stage \in {"new", "running", "destroyed"}
  /\ DOMAIN components \subseteq Labels
  /\ components \in [DOMAIN components -> Components]
  /\ object \in [Components ->
       [life : {"unborn", "built", "registered", "unregistered"},
        label : Labels \cup {"none"}, owner : Threads \cup {"none"}]]
  /\ pc \in [Threads -> Points]
  /\ objects \in Int /\ created \in Int /\ alive \in Int
  /\ threadObjects \in [Threads -> Int] /\ threadCreated \in [Threads -> Int]

\* Until init() nobody has made anything.
NewIsFresh ==
  stage = "new" =>
    /\ \A c \in Components : object[c].life = "unborn"
    /\ pc = [t \in Threads |-> "idle"]
    /\ objects = 0 /\ created = 0 /\ alive = 0
    /\ threadObjects = [t \in Threads |-> 0] /\ threadCreated = [t \in Threads |-> 0]

\* A label in the registry is that of a registered component and the other way round.
RegistryKept ==
  /\ \A l \in DOMAIN components :
       object[components[l]].life = "registered" /\ object[components[l]].label = l
  /\ \A c \in Components : object[c].life = "registered" =>
       object[c].label \in DOMAIN components /\ components[object[c].label] = c
  /\ \A c \in Components : object[c].life = "built" => object[c].label \in Labels

EnvironmentInv == EnvironmentTypes /\ NewIsFresh /\ RegistryKept /\ CountersAgree

\* How many threads are at a point.
CountAt(p, at) == Cardinality({u \in Threads : p[u] = at})

\* A thread that goes from one point to another is counted at the one no more, and at the
\* other.
LEMMA PointsMove ==
  ASSUME NEW p, NEW q, NEW t \in Threads, \A u \in Threads \ {t} : q[u] = p[u],
         p[t] # q[t], NEW at
  PROVE  /\ CountAt(p, at) \in Nat
         /\ at = q[t] => CountAt(q, at) = CountAt(p, at) + 1
         /\ at = p[t] => CountAt(q, at) = CountAt(p, at) - 1
         /\ at # p[t] /\ at # q[t] => CountAt(q, at) = CountAt(p, at)
<1> DEFINE Before == {u \in Threads : p[u] = at}
           After == {u \in Threads : q[u] = at}
<1>1. CountAt(p, at) = Cardinality(Before) /\ CountAt(q, at) = Cardinality(After)
  BY DEF CountAt
<1>2. IsFiniteSet(Before) /\ Cardinality(Before) \in Nat
  BY FS_Subset, FS_CardinalityType, EnvironmentConstants
<1>3. ASSUME at = q[t] PROVE Cardinality(After) = Cardinality(Before) + 1
  <2>1. After = Before \cup {t} /\ t \notin Before
    BY <1>3
  <2> QED BY <1>2, <2>1, FS_AddElement
<1>4. ASSUME at = p[t] PROVE Cardinality(After) = Cardinality(Before) - 1
  <2>1. After = Before \ {t} /\ t \in Before
    BY <1>4
  <2> QED BY <1>2, <2>1, FS_RemoveElement
<1>5. ASSUME at # p[t], at # q[t] PROVE After = Before
  BY <1>5
<1> HIDE DEF Before, After
<1> QED BY <1>1, <1>2, <1>3, <1>4, <1>5

LEMMA Arrives ==
  ASSUME NEW p, NEW q, NEW t \in Threads, \A u \in Threads \ {t} : q[u] = p[u],
         p[t] # q[t], NEW at, at = q[t]
  PROVE  CountAt(q, at) = CountAt(p, at) + 1
BY PointsMove

LEMMA Departs ==
  ASSUME NEW p, NEW q, NEW t \in Threads, \A u \in Threads \ {t} : q[u] = p[u],
         p[t] # q[t], NEW at, at = p[t]
  PROVE  CountAt(q, at) = CountAt(p, at) - 1
BY PointsMove

LEMMA StaysAway ==
  ASSUME NEW p, NEW q, NEW t \in Threads, \A u \in Threads \ {t} : q[u] = p[u],
         p[t] # q[t], NEW at, at # p[t], at # q[t]
  PROVE  CountAt(q, at) = CountAt(p, at)
BY PointsMove

\* Nobody is at a point where nobody is.
LEMMA NobodyAt ==
  ASSUME NEW p, NEW at, \A u \in Threads : p[u] # at
  PROVE  CountAt(p, at) = 0
<1>1. {u \in Threads : p[u] = at} = {}
  OBVIOUS
<1> QED BY <1>1, FS_EmptySet DEF CountAt

\* The environment before init().
LEMMA EnvironmentBegins == EnvironmentInit => EnvironmentInv
<1> SUFFICES ASSUME EnvironmentInit PROVE EnvironmentInv
  OBVIOUS
<1> USE DEF EnvironmentInit
<1>1. EnvironmentTypes
  BY DEF EnvironmentTypes, NotBuilt, Points
<1>2. NewIsFresh
  BY DEF NewIsFresh, NotBuilt
<1>3. RegistryKept
  BY DEF RegistryKept, NotBuilt
<1>4. CountersAgree
  <2>1. \A u \in Threads : pc[u] = "idle"
    OBVIOUS
  <2>2. CountAt(pc, "counted") = 0 /\ CountAt(pc, "uncounted") = 0
    <3>1. \A u \in Threads : pc[u] # "counted" /\ pc[u] # "uncounted"
      BY <2>1
    <3> QED BY <3>1, NobodyAt
  <2>3. Total(threadObjects) = 0 /\ Total(threadCreated) = 0
    <3>1. \A u \in Threads : threadObjects[u] = 0 /\ threadCreated[u] = 0
      OBVIOUS
    <3> QED BY <3>1, TotalOfZeros
  <2> QED BY <2>2, <2>3 DEF CountersAgree, CountAt
<1> QED BY <1>1, <1>2, <1>3, <1>4 DEF EnvironmentInv

\* Environment::init and destroy.
LEMMA InitKeeps == EnvironmentInv /\ init => EnvironmentInv'
<1> SUFFICES ASSUME EnvironmentInv, init PROVE EnvironmentInv'
  OBVIOUS
<1> USE DEF EnvironmentInv, init
<1>1. /\ UNCHANGED <<components, object, pc, alive, objects, created>>
      /\ threadObjects' = threadObjects /\ threadCreated' = threadCreated
      /\ stage' = "running"
  BY DEF NewIsFresh, registry, EnvironmentTypes
<1>2. EnvironmentTypes'
  BY <1>1 DEF EnvironmentTypes
<1>3. NewIsFresh'
  BY <1>1 DEF NewIsFresh
<1>4. RegistryKept'
  BY <1>1 DEF RegistryKept
<1>5. CountersAgree'
  BY <1>1 DEF CountersAgree
<1> QED BY <1>2, <1>3, <1>4, <1>5

LEMMA DestroyKeeps == EnvironmentInv /\ destroy => EnvironmentInv'
<1> SUFFICES ASSUME EnvironmentInv, destroy PROVE EnvironmentInv'
  OBVIOUS
<1>1. UNCHANGED <<components, object, pc, objects, created, threadObjects, threadCreated, alive>>
      /\ stage' = "destroyed"
  BY DEF destroy, registry, counters
<1>2. EnvironmentTypes'
  BY <1>1 DEF EnvironmentTypes, EnvironmentInv
<1>3. NewIsFresh'
  BY <1>1 DEF NewIsFresh
<1>4. RegistryKept'
  BY <1>1 DEF RegistryKept, EnvironmentInv
<1>5. CountersAgree'
  BY <1>1 DEF CountersAgree, EnvironmentInv
<1> QED BY <1>2, <1>3, <1>4, <1>5 DEF EnvironmentInv

\* A component's thread is between two points at which nothing is counted.
LEMMA ComponentsLeaveCounters ==
  ASSUME EnvironmentInv, NEW t \in Threads, NEW to \in {"idle", "registering", "destroying"},
         pc[t] \in {"idle", "registering", "destroying"}, pc[t] # to,
         pc' = [pc EXCEPT ![t] = to], UNCHANGED counters
  PROVE  CountersAgree'
<1>1. pc \in [Threads -> Points] /\ to \in Points
  BY DEF EnvironmentInv, EnvironmentTypes, Points
<1>2. /\ CountAt(pc', "counted") = CountAt(pc, "counted")
      /\ CountAt(pc', "uncounted") = CountAt(pc, "uncounted")
  <2>1. \A u \in Threads : /\ pc'[u] = "counted" <=> pc[u] = "counted"
                           /\ pc'[u] = "uncounted" <=> pc[u] = "uncounted"
    BY <1>1
  <2>2. {u \in Threads : pc'[u] = "counted"} = {u \in Threads : pc[u] = "counted"}
    BY <2>1
  <2>3. {u \in Threads : pc'[u] = "uncounted"} = {u \in Threads : pc[u] = "uncounted"}
    BY <2>1
  <2> QED BY <2>2, <2>3 DEF CountAt
<1> QED BY <1>2 DEF CountersAgree, counters, EnvironmentInv, CountAt

LEMMA ConstructKeeps ==
  ASSUME EnvironmentInv, NEW t \in Threads, NEW c \in Components, NEW l \in Labels,
         Construct(t, c, l)
  PROVE  EnvironmentInv'
<1> USE DEF Construct
<1>1. CountersAgree'
  BY ComponentsLeaveCounters
<1>2. EnvironmentTypes'
  BY DEF EnvironmentTypes, EnvironmentInv, counters, Points
<1>3. NewIsFresh'
  BY DEF NewIsFresh
<1>4. RegistryKept'
  <2>1. object \in [Components -> [life : {"unborn", "built", "registered", "unregistered"},
          label : Labels \cup {"none"}, owner : Threads \cup {"none"}]]
    BY DEF EnvironmentInv, EnvironmentTypes
  <2>2. \A k \in DOMAIN components : components[k] \in Components /\ components[k] # c
    BY DEF EnvironmentInv, EnvironmentTypes, RegistryKept
  <2>3. \A d \in Components : d # c => object'[d] = object[d]
    BY <2>1
  <2>4. object'[c].life = "built" /\ object'[c].label = l
    BY <2>1
  <2> QED BY <2>2, <2>3, <2>4 DEF EnvironmentInv, RegistryKept
<1> QED BY <1>1, <1>2, <1>3, <1>4 DEF EnvironmentInv

LEMMA RegisterKeeps ==
  ASSUME EnvironmentInv, NEW t \in Threads, NEW c \in Components, registerComponent(t, c)
  PROVE  EnvironmentInv'
<1> DEFINE l == object[c].label
<1> USE DEF registerComponent
<1>1. CountersAgree'
  BY ComponentsLeaveCounters
<1>2. /\ object \in [Components -> [life : {"unborn", "built", "registered", "unregistered"},
           label : Labels \cup {"none"}, owner : Threads \cup {"none"}]]
      /\ object[c].life = "built" /\ l \in Labels
  BY DEF EnvironmentInv, EnvironmentTypes, RegistryKept
<1>3. \A k \in DOMAIN components : components[k] \in Components /\ components[k] # c
  BY DEF EnvironmentInv, EnvironmentTypes, RegistryKept
<1>4. \A d \in Components : d # c => object'[d] = object[d]
  BY <1>2
<1>5. NewIsFresh'
  <2>1. stage # "new"
    BY DEF NewIsFresh, EnvironmentInv
  <2> QED BY <2>1 DEF NewIsFresh
<1>6. pc' \in [Threads -> Points]
  BY DEF EnvironmentTypes, EnvironmentInv, Points
<1>7. CASE l \in DOMAIN components
  <2>1. components' = components /\ object' = [object EXCEPT ![c] = NotBuilt]
    BY <1>7
  <2>2. EnvironmentTypes'
    BY <1>6, <2>1 DEF EnvironmentTypes, EnvironmentInv, counters, NotBuilt, Points
  <2>3. RegistryKept'
    BY <1>2, <1>3, <1>4, <2>1 DEF RegistryKept, EnvironmentInv, NotBuilt
  <2> QED BY <1>1, <1>5, <2>2, <2>3 DEF EnvironmentInv
<1>8. CASE l \notin DOMAIN components
  <2>1. /\ components' = [k \in DOMAIN components \cup {l} |-> IF k = l THEN c ELSE components[k]]
        /\ object' = [object EXCEPT ![c] = [@ EXCEPT !.life = "registered"]]
    BY <1>8
  <2>2. object'[c].life = "registered" /\ object'[c].label = l
    BY <1>2, <2>1
  <2>3. EnvironmentTypes'
    <3>1. /\ DOMAIN components' = DOMAIN components \cup {l}
          /\ components' \in [DOMAIN components' -> Components]
      BY <1>2, <1>3, <2>1
    <3> QED BY <1>2, <1>6, <2>1, <3>1 DEF EnvironmentTypes, EnvironmentInv, counters, Points
  <2>4. RegistryKept'
    <3>1. /\ DOMAIN components' = DOMAIN components \cup {l} /\ components'[l] = c
          /\ \A k \in DOMAIN components : k # l /\ components'[k] = components[k]
      BY <1>8, <2>1
    <3> QED BY <1>2, <1>3, <1>4, <2>2, <3>1 DEF RegistryKept, EnvironmentInv
  <2> QED BY <1>1, <1>5, <2>3, <2>4 DEF EnvironmentInv
<1> QED BY <1>7, <1>8

LEMMA UnregisterKeeps ==
  ASSUME EnvironmentInv, NEW t \in Threads, NEW c \in Components, unregisterComponent(t, c)
  PROVE  EnvironmentInv'
<1> DEFINE l == object[c].label
<1> USE DEF unregisterComponent
<1>1. CountersAgree'
  BY ComponentsLeaveCounters
<1>2. /\ object \in [Components -> [life : {"unborn", "built", "registered", "unregistered"},
           label : Labels \cup {"none"}, owner : Threads \cup {"none"}]]
      /\ object[c].life = "registered" /\ l \in DOMAIN components /\ components[l] = c
  BY DEF EnvironmentInv, EnvironmentTypes, RegistryKept
<1>3. \A d \in Components : d # c => object'[d] = object[d]
  BY <1>2
<1>4. object'[c].life = "unregistered" /\ object'[c] = [object[c] EXCEPT !.life = "unregistered"]
  BY <1>2
<1>5. /\ DOMAIN components' = DOMAIN components \ {l}
      /\ \A k \in DOMAIN components' : components'[k] = components[k] /\ components[k] # c
  BY <1>2 DEF EnvironmentInv, RegistryKept
<1>6. NewIsFresh'
  <2>1. stage # "new"
    BY <1>2 DEF NewIsFresh, EnvironmentInv
  <2> QED BY <2>1 DEF NewIsFresh
<1>7. EnvironmentTypes'
  BY <1>2, <1>5 DEF EnvironmentTypes, EnvironmentInv, counters, Points
<1>8. RegistryKept'
  <2>1. \A k \in DOMAIN components : components[k] \in Components
    BY DEF EnvironmentInv, EnvironmentTypes
  <2>2. \A d \in Components : d # c /\ object[d].life = "registered" => object[d].label # l
    BY <1>2 DEF EnvironmentInv, RegistryKept
  <2> QED BY <1>2, <1>3, <1>4, <1>5, <2>1, <2>2 DEF RegistryKept, EnvironmentInv
<1> QED BY <1>1, <1>6, <1>7, <1>8 DEF EnvironmentInv

LEMMA DestructedKeeps ==
  ASSUME EnvironmentInv, NEW t \in Threads, NEW c \in Components, Destructed(t, c)
  PROVE  EnvironmentInv'
<1> USE DEF Destructed
<1>1. CountersAgree'
  BY ComponentsLeaveCounters
<1>2. object \in [Components -> [life : {"unborn", "built", "registered", "unregistered"},
        label : Labels \cup {"none"}, owner : Threads \cup {"none"}]]
  BY DEF EnvironmentInv, EnvironmentTypes
<1>3. \A d \in Components : d # c => object'[d] = object[d]
  BY <1>2
<1>4. object'[c].life = "unborn"
  BY <1>2 DEF NotBuilt
<1>5. \A k \in DOMAIN components : components[k] \in Components /\ components[k] # c
  BY DEF EnvironmentInv, EnvironmentTypes, RegistryKept
<1>6. NewIsFresh'
  <2>1. stage # "new"
    BY DEF NewIsFresh, EnvironmentInv
  <2> QED BY <2>1 DEF NewIsFresh
<1>7. EnvironmentTypes'
  BY <1>2 DEF EnvironmentTypes, EnvironmentInv, counters, NotBuilt, Points
<1>8. RegistryKept'
  BY <1>3, <1>4, <1>5 DEF RegistryKept, EnvironmentInv
<1> QED BY <1>1, <1>6, <1>7, <1>8 DEF EnvironmentInv

\* A counted object: the counters of the process and of the thread, one by one.
LEMMA CountersKeep ==
  ASSUME EnvironmentInv, NEW t \in Threads,
         \/ incObjectsCount(t) \/ incObjectsCreated(t)
         \/ decObjectsCount(t) \/ decThreadObjects(t)
  PROVE  EnvironmentInv'
<1>1. /\ pc \in [Threads -> Points] /\ UNCHANGED registry
      /\ objects \in Int /\ created \in Int /\ alive \in Int
      /\ threadObjects \in [Threads -> Int] /\ threadCreated \in [Threads -> Int]
  BY DEF EnvironmentInv, EnvironmentTypes, incObjectsCount, incObjectsCreated,
     decObjectsCount, decThreadObjects
<1>2. RegistryKept'
  BY <1>1 DEF EnvironmentInv, RegistryKept, registry
<1>3. EnvironmentTypes'
  BY <1>1 DEF EnvironmentInv, EnvironmentTypes, incObjectsCount, incObjectsCreated,
     decObjectsCount, decThreadObjects, registry, Points
<1>4. NewIsFresh'
  <2>1. ASSUME stage = "new" PROVE FALSE
    <3>1. pc[t] = "idle" /\ alive = 0
      BY <2>1 DEF NewIsFresh, EnvironmentInv
    <3> QED BY <2>1, <3>1 DEF incObjectsCount, incObjectsCreated, decObjectsCount,
         decThreadObjects
  <2> QED BY <2>1 DEF NewIsFresh, incObjectsCount, incObjectsCreated,
       decObjectsCount, decThreadObjects
<1>5. /\ objects = alive + CountAt(pc, "counted")
      /\ Total(threadObjects) = alive + CountAt(pc, "uncounted")
      /\ Total(threadCreated) = created
      /\ CountAt(pc, "counted") \in Nat /\ CountAt(pc, "uncounted") \in Nat
  <2>1. /\ CountAt(pc, "counted") \in Nat /\ CountAt(pc, "uncounted") \in Nat
    BY FS_Subset, FS_CardinalityType, EnvironmentConstants DEF CountAt
  <2> QED BY <2>1 DEF EnvironmentInv, CountersAgree, CountAt
<1>6. CountersAgree' <=>
        /\ objects' = alive' + CountAt(pc', "counted")
        /\ Total(threadObjects') = alive' + CountAt(pc', "uncounted")
        /\ Total(threadCreated') = created'
  BY DEF CountersAgree, CountAt
<1>7. CASE incObjectsCount(t)
  <2>1. /\ CountAt(pc', "counted") = CountAt(pc, "counted") + 1
        /\ CountAt(pc', "uncounted") = CountAt(pc, "uncounted")
    <3>1. /\ pc[t] = "idle" /\ pc'[t] = "counted"
          /\ \A u \in Threads \ {t} : pc'[u] = pc[u]
      BY <1>1, <1>7 DEF incObjectsCount
    <3>2. CountAt(pc', "counted") = CountAt(pc, "counted") + 1
      BY <3>1, Arrives
    <3>3. CountAt(pc', "uncounted") = CountAt(pc, "uncounted")
      BY <3>1, StaysAway
    <3> QED BY <3>2, <3>3
  <2>2. objects' = objects + 1
        /\ UNCHANGED <<alive, created, threadObjects, threadCreated>>
    BY <1>7 DEF incObjectsCount
  <2>3. CountersAgree'
    BY <1>1, <1>5, <1>6, <2>1, <2>2
  <2> QED BY <1>2, <1>3, <1>4, <2>3 DEF EnvironmentInv
<1>8. CASE incObjectsCreated(t)
  <2>1. /\ CountAt(pc', "counted") = CountAt(pc, "counted") - 1
        /\ CountAt(pc', "uncounted") = CountAt(pc, "uncounted")
    <3>1. /\ pc[t] = "counted" /\ pc'[t] = "idle"
          /\ \A u \in Threads \ {t} : pc'[u] = pc[u]
      BY <1>1, <1>8 DEF incObjectsCreated
    <3>2. CountAt(pc', "counted") = CountAt(pc, "counted") - 1
      BY <3>1, Departs
    <3>3. CountAt(pc', "uncounted") = CountAt(pc, "uncounted")
      BY <3>1, StaysAway
    <3> QED BY <3>2, <3>3
  <2>2. /\ objects' = objects /\ alive' = alive + 1 /\ created' = created + 1
        /\ threadObjects' = [threadObjects EXCEPT ![t] = @ + 1]
        /\ threadCreated' = [threadCreated EXCEPT ![t] = @ + 1]
    BY <1>8 DEF incObjectsCreated
  <2>3. /\ Total(threadObjects') = Total(threadObjects) + 1
        /\ Total(threadCreated') = Total(threadCreated) + 1
    <3>1. /\ threadObjects'[t] = threadObjects[t] + 1
          /\ threadCreated'[t] = threadCreated[t] + 1
          /\ \A u \in Threads \ {t} : threadObjects'[u] = threadObjects[u]
          /\ \A u \in Threads \ {t} : threadCreated'[u] = threadCreated[u]
      BY <1>1, <2>2
    <3>2. Total(threadObjects') = Total(threadObjects) + 1
      BY <1>1, <3>1, TotalMovesBy
    <3>3. Total(threadCreated') = Total(threadCreated) + 1
      BY <1>1, <3>1, TotalMovesBy
    <3> QED BY <3>2, <3>3
  <2>4. CountersAgree'
    BY <1>1, <1>5, <1>6, <2>1, <2>2, <2>3
  <2> QED BY <1>2, <1>3, <1>4, <2>4 DEF EnvironmentInv
<1>9. CASE decObjectsCount(t)
  <2>1. /\ CountAt(pc', "counted") = CountAt(pc, "counted")
        /\ CountAt(pc', "uncounted") = CountAt(pc, "uncounted") + 1
    <3>1. /\ pc[t] = "idle" /\ pc'[t] = "uncounted"
          /\ \A u \in Threads \ {t} : pc'[u] = pc[u]
      BY <1>1, <1>9 DEF decObjectsCount
    <3>2. CountAt(pc', "counted") = CountAt(pc, "counted")
      BY <3>1, StaysAway
    <3>3. CountAt(pc', "uncounted") = CountAt(pc, "uncounted") + 1
      BY <3>1, Arrives
    <3> QED BY <3>2, <3>3
  <2>2. objects' = objects - 1 /\ alive' = alive - 1
        /\ UNCHANGED <<created, threadObjects, threadCreated>>
    BY <1>9 DEF decObjectsCount
  <2>3. CountersAgree'
    BY <1>1, <1>5, <1>6, <2>1, <2>2
  <2> QED BY <1>2, <1>3, <1>4, <2>3 DEF EnvironmentInv
<1>10. CASE decThreadObjects(t)
  <2>1. /\ CountAt(pc', "counted") = CountAt(pc, "counted")
        /\ CountAt(pc', "uncounted") = CountAt(pc, "uncounted") - 1
    <3>1. /\ pc[t] = "uncounted" /\ pc'[t] = "idle"
          /\ \A u \in Threads \ {t} : pc'[u] = pc[u]
      BY <1>1, <1>10 DEF decThreadObjects
    <3>2. CountAt(pc', "counted") = CountAt(pc, "counted")
      BY <3>1, StaysAway
    <3>3. CountAt(pc', "uncounted") = CountAt(pc, "uncounted") - 1
      BY <3>1, Departs
    <3> QED BY <3>2, <3>3
  <2>2. /\ UNCHANGED <<alive, objects, created, threadCreated>>
        /\ threadObjects' = [threadObjects EXCEPT ![t] = @ - 1]
    BY <1>10 DEF decThreadObjects
  <2>3. Total(threadObjects') = Total(threadObjects) - 1
    <3>1. /\ threadObjects'[t] = threadObjects[t] + (-1)
          /\ \A u \in Threads \ {t} : threadObjects'[u] = threadObjects[u]
      BY <1>1, <2>2
    <3>2. -1 \in Int
      OBVIOUS
    <3>3. Total(threadObjects') = Total(threadObjects) + (-1)
      BY <1>1, <3>1, <3>2, TotalMovesBy
    <3>4. Total(threadObjects) \in Int
      BY <1>1, TotalIsInteger
    <3> QED BY <3>3, <3>4
  <2>4. CountersAgree'
    BY <1>1, <1>5, <1>6, <2>1, <2>2, <2>3
  <2> QED BY <1>2, <1>3, <1>4, <2>4 DEF EnvironmentInv
<1> QED BY <1>7, <1>8, <1>9, <1>10

\* The invariant of the environment is inductive.
LEMMA EnvironmentKeeps == EnvironmentInv /\ [EnvironmentNext]_environmentVars => EnvironmentInv'
<1> SUFFICES ASSUME EnvironmentInv, [EnvironmentNext]_environmentVars PROVE EnvironmentInv'
  OBVIOUS
<1>1. CASE init
  BY <1>1, InitKeeps
<1>2. CASE destroy
  BY <1>2, DestroyKeeps
<1>3. ASSUME NEW t \in Threads, NEW c \in Components,
             \/ \E l \in Labels : Construct(t, c, l)
             \/ registerComponent(t, c) \/ unregisterComponent(t, c) \/ Destructed(t, c)
      PROVE  EnvironmentInv'
  BY <1>3, ConstructKeeps, RegisterKeeps, UnregisterKeeps, DestructedKeeps
<1>4. ASSUME NEW t \in Threads,
             \/ incObjectsCount(t) \/ incObjectsCreated(t)
             \/ decObjectsCount(t) \/ decThreadObjects(t)
      PROVE  EnvironmentInv'
  BY <1>4, CountersKeep
<1>5. CASE UNCHANGED environmentVars
  <2>1. UNCHANGED <<stage, components, object, pc, objects, created, threadObjects,
                    threadCreated, alive>>
    BY <1>5 DEF environmentVars, registry, counters
  <2>2. EnvironmentTypes' /\ NewIsFresh' /\ RegistryKept'
    BY <2>1 DEF EnvironmentInv, EnvironmentTypes, NewIsFresh, RegistryKept
  <2>3. CountersAgree'
    BY <2>1 DEF EnvironmentInv, CountersAgree
  <2> QED BY <2>2, <2>3 DEF EnvironmentInv
<1> QED BY <1>1, <1>2, <1>3, <1>4, <1>5 DEF EnvironmentNext

\* What the registry keeps is what the lookups give out.
LEMMA LookupsFollow == EnvironmentInv => LookupsFindTheLiving
<1> SUFFICES ASSUME EnvironmentInv PROVE LookupsFindTheLiving
  OBVIOUS
<1>1. ASSUME NEW type \in Types, getComponent(type) # "throws"
      PROVE  /\ object[getComponent(type)].life = "registered"
             /\ object[getComponent(type)].label.type = type
  <2>1. Cardinality(BucketOf(type)) = 1
    BY <1>1 DEF getComponent
  <2>2. BucketOf(type) # {}
    BY <2>1, FS_EmptySet
  <2> DEFINE l == CHOOSE l \in BucketOf(type) : TRUE
  <2>3. l \in DOMAIN components /\ l.type = type
    BY <2>2 DEF BucketOf
  <2>4. getComponent(type) = components[l]
    BY <2>1 DEF getComponent
  <2> HIDE DEF l
  <2> QED BY <2>3, <2>4 DEF EnvironmentInv, RegistryKept
<1>2. ASSUME NEW l \in Labels, getNamedComponent(l) # "throws"
      PROVE  object[getNamedComponent(l)].life = "registered"
             /\ object[getNamedComponent(l)].label = l
  BY <1>2 DEF getNamedComponent, EnvironmentInv, RegistryKept
<1>3. ASSUME NEW c \in Components, object[c].life = "registered"
      PROVE  getNamedComponent(object[c].label) = c
  BY <1>3 DEF getNamedComponent, EnvironmentInv, RegistryKept
<1> QED BY <1>1, <1>2, <1>3 DEF LookupsFindTheLiving

\* Whoever looks a component up finds one that lives, under its label, however many
\* threads build and destroy components at once, and the counters of the process agree
\* with those of its threads but for the objects being counted
\* (Environment::registerComponent, getComponent, incObjects, decObjects).
THEOREM EnvironmentIsSound == EnvironmentSpec => []ComponentsFound
<1>1. EnvironmentInv => ComponentsFound
  BY LookupsFollow DEF EnvironmentInv, ComponentsFound
<1> QED BY EnvironmentBegins, EnvironmentKeeps, <1>1, PTL DEF EnvironmentSpec

-----------------------------------------------------------------------------
(* Trees of owners.  V is a set of containers, and o gives, for every place   *)
(* that owns a container, that container; the place x is one of x[1].         *)

Shut(S, o) == \A x \in DOMAIN o : x[1] \in S => o[x] \in S
Under(r, V, o) == {i \in V : \A S \in SUBSET V : r \in S /\ Shut(S, o) => i \in S}

\* Every container but 0 is owned, once, and 0 owns in the end them all.
Shaped(V, o) ==
  /\ 0 \in V
  /\ \A x \in DOMAIN o : x[1] \in V /\ o[x] \in V /\ o[x] # 0
  /\ \A x, y \in DOMAIN o : o[x] = o[y] => x = y
  /\ \A S \in SUBSET V : 0 \in S /\ Shut(S, o) => S = V

\* The same for the containers D that r owns in the end.
Rooted(r, D, w) ==
  /\ r \in D
  /\ \A x \in DOMAIN w : x[1] \in D /\ w[x] \in D /\ w[x] # r
  /\ \A x, y \in DOMAIN w : w[x] = w[y] => x = y
  /\ \A S \in SUBSET D : r \in S /\ Shut(S, w) => S = D

\* What is under a container is a set that is shut, and the least one.
LEMMA UnderShut ==
  ASSUME NEW V, NEW o, NEW r \in V, \A x \in DOMAIN o : o[x] \in V
  PROVE  r \in Under(r, V, o) /\ Shut(Under(r, V, o), o) /\ Under(r, V, o) \subseteq V
  BY DEF Under, Shut

LEMMA UnderLeast ==
  ASSUME NEW V, NEW o, NEW r, NEW S \in SUBSET V, r \in S, Shut(S, o)
  PROVE  Under(r, V, o) \subseteq S
  BY DEF Under

\* Who is under r and is not r has an owner there.
LEMMA InnerOwned ==
  ASSUME NEW V, NEW o, NEW r \in V, \A x \in DOMAIN o : o[x] \in V,
         NEW j \in Under(r, V, o), j # r
  PROVE  \E x \in DOMAIN o : x[1] \in Under(r, V, o) /\ o[x] = j
<1> DEFINE U == Under(r, V, o)
<1>1. r \in U /\ Shut(U, o) /\ U \subseteq V
  BY UnderShut
<1>2. SUFFICES ASSUME \A x \in DOMAIN o : x[1] \in U => o[x] # j PROVE FALSE
  OBVIOUS
<1>3. Shut(U \ {j}, o)
  BY <1>1, <1>2 DEF Shut
<1>4. r \in U \ {j} /\ U \ {j} \in SUBSET V
  BY <1>1
<1> HIDE DEF U
<1>5. Under(r, V, o) \subseteq U \ {j}
  BY <1>3, <1>4, UnderLeast
<1> QED BY <1>5 DEF U

\* No other place leads to what a place owns in the end.
LEMMA OneWayIn ==
  ASSUME NEW V, NEW o, Shaped(V, o), NEW p \in DOMAIN o, NEW x \in DOMAIN o,
         o[x] \in Under(o[p], V, o), x # p
  PROVE  x[1] \in Under(o[p], V, o)
<1>1. o[x] # o[p] /\ o[p] \in V /\ \A y \in DOMAIN o : o[y] \in V
  BY DEF Shaped
<1>2. PICK y \in DOMAIN o : y[1] \in Under(o[p], V, o) /\ o[y] = o[x]
  BY <1>1, InnerOwned
<1> QED BY <1>2 DEF Shaped

\* 0 is under nobody, and no container under what it owns.
LEMMA NotUnder ==
  ASSUME NEW V, NEW o, Shaped(V, o), NEW p \in DOMAIN o
  PROVE  0 \notin Under(o[p], V, o) /\ p[1] \notin Under(o[p], V, o)
<1> DEFINE U == Under(o[p], V, o)
<1>1. o[p] \in V \ {0} /\ o[p] \in V /\ \A y \in DOMAIN o : o[y] \in V
  BY DEF Shaped
<1>2. Shut(V \ {0}, o)
  BY DEF Shut, Shaped
<1>3. U \subseteq V \ {0}
  <2>1. V \ {0} \in SUBSET V
    OBVIOUS
  <2> QED BY <1>1, <1>2, <2>1, UnderLeast
<1>4. ASSUME p[1] \in U PROVE FALSE
  <2>1. Shut(V \ U, o)
    <3>1. \A x \in DOMAIN o : x # p /\ o[x] \in U => x[1] \in U
      BY OneWayIn
    <3>2. \A x \in DOMAIN o : o[x] \in V
      BY <1>1
    <3> HIDE DEF U
    <3> QED BY <3>1, <3>2, <1>4 DEF Shut
  <2>2. 0 \in V \ U /\ V \ U \in SUBSET V
    BY <1>3 DEF Shaped
  <2>3. V \ U = V
    <3> HIDE DEF U
    <3> QED BY <2>1, <2>2 DEF Shaped
  <2>4. o[p] \in U
    BY <1>1, UnderShut
  <2> QED BY <1>1, <2>3, <2>4
<1> QED BY <1>3, <1>4

\* Two places of which neither is under the other own nothing in common.
LEMMA NothingInCommon ==
  ASSUME NEW V, NEW o, Shaped(V, o), NEW p \in DOMAIN o, NEW q \in DOMAIN o, p # q,
         p[1] \notin Under(o[q], V, o), q[1] \notin Under(o[p], V, o)
  PROVE  Under(o[p], V, o) \cap Under(o[q], V, o) = {}
<1> DEFINE B == Under(o[p], V, o)
           C == Under(o[q], V, o)
<1>1. /\ o[p] \in B /\ Shut(B, o) /\ B \subseteq V
      /\ \A x \in DOMAIN o : o[x] \in C /\ x # q => x[1] \in C
  BY UnderShut, OneWayIn DEF Shaped
<1>2. o[p] \notin C
  BY <1>1
<1>3. Shut(B \ C, o)
  <2> HIDE DEF B, C
  <2>1. q[1] \notin B
    BY DEF B
  <2> QED BY <1>1, <2>1 DEF Shut
<1>4. B \subseteq B \ C
  <2>1. B \ C \in SUBSET V /\ o[p] \in B \ C
    BY <1>1, <1>2
  <2> HIDE DEF C
  <2> QED BY <1>3, <2>1, UnderLeast
<1> QED BY <1>4

\* Without what a place owns in the end the rest keeps its shape.
LEMMA CutOff ==
  ASSUME NEW V, NEW o, Shaped(V, o), NEW p \in DOMAIN o, NEW o1,
         DOMAIN o1 = {x \in DOMAIN o : x[1] \notin Under(o[p], V, o) /\ x # p},
         \A x \in DOMAIN o1 : o1[x] = o[x]
  PROVE  Shaped(V \ Under(o[p], V, o), o1)
<1> DEFINE B == Under(o[p], V, o)
<1>1. /\ o[p] \in B /\ Shut(B, o) /\ B \subseteq V /\ 0 \notin B
      /\ \A x \in DOMAIN o : o[x] \in B /\ x # p => x[1] \in B
  BY UnderShut, OneWayIn, NotUnder DEF Shaped
<1>2. DOMAIN o1 = {x \in DOMAIN o : x[1] \notin B /\ x # p}
  OBVIOUS
<1> HIDE DEF B
<1>3. ASSUME NEW S \in SUBSET (V \ B), 0 \in S, Shut(S, o1) PROVE S = V \ B
  <2>1. Shut(S \cup B, o)
    BY <1>1, <1>2, <1>3 DEF Shut
  <2>2. S \cup B \in SUBSET V /\ 0 \in S \cup B
    BY <1>1, <1>3
  <2>3. S \cup B = V
    BY <2>1, <2>2 DEF Shaped
  <2> QED BY <2>3
<1>4. \A x \in DOMAIN o1 : x[1] \in V \ B /\ o1[x] \in V \ B /\ o1[x] # 0
  BY <1>1, <1>2 DEF Shaped
<1>5. \A x, y \in DOMAIN o1 : o1[x] = o1[y] => x = y
  BY <1>2 DEF Shaped
<1>6. 0 \in V \ B
  BY <1>1 DEF Shaped
<1>7. Shaped(V \ B, o1)
  BY <1>3, <1>4, <1>5, <1>6 DEF Shaped
<1> QED BY <1>7 DEF B

\* Containers that are owned by one of them take their place in the whole under a place
\* that owned nothing.
PutsOn(p, r, o, w, o2) ==
  /\ p \notin DOMAIN o /\ o2[p] = r
  /\ DOMAIN o2 = (DOMAIN o \cup {p}) \cup DOMAIN w
  /\ \A x \in DOMAIN o : o2[x] = o[x]
  /\ \A x \in DOMAIN w : o2[x] = w[x]

LEMMA PutOn ==
  ASSUME NEW V, NEW o, Shaped(V, o), NEW r, NEW D, NEW w, Rooted(r, D, w), D \cap V = {},
         NEW p, p[1] \in V, NEW o2, PutsOn(p, r, o, w, o2)
  PROVE  Shaped(V \cup D, o2)
<1> USE DEF PutsOn
<1>1. \A x \in DOMAIN o : x[1] \in V /\ o2[x] \in V /\ o2[x] # 0
  BY DEF Shaped
<1>2. \A x \in DOMAIN w : x[1] \in D /\ o2[x] \in D /\ o2[x] # r
  BY DEF Rooted
<1>3. r \in D /\ 0 \in V /\ 0 \notin D
  BY DEF Rooted, Shaped
<1>4. \A x, y \in DOMAIN o2 : o2[x] = o2[y] => x = y
  <2>1. \A x, y \in DOMAIN o : o2[x] = o2[y] => x = y
    BY DEF Shaped
  <2>2. \A x, y \in DOMAIN w : o2[x] = o2[y] => x = y
    BY DEF Rooted
  <2> QED BY <1>1, <1>2, <1>3, <2>1, <2>2
<1>5. ASSUME NEW S \in SUBSET (V \cup D), 0 \in S, Shut(S, o2) PROVE S = V \cup D
  <2>1. Shut(S \cap V, o)
    BY <1>1, <1>5 DEF Shut
  <2>2. S \cap V = V
    <3>1. S \cap V \in SUBSET V /\ 0 \in S \cap V
      BY <1>3, <1>5
    <3> QED BY <2>1, <3>1 DEF Shaped
  <2>3. r \in S
    BY <2>2, <1>5 DEF Shut
  <2>4. Shut(S \cap D, w)
    BY <1>2, <1>5 DEF Shut
  <2>5. S \cap D = D
    <3>1. S \cap D \in SUBSET D /\ r \in S \cap D
      BY <1>3, <2>3
    <3> QED BY <2>4, <3>1 DEF Rooted
  <2> QED BY <2>2, <2>5
<1>6. \A x \in DOMAIN o2 : x[1] \in V \cup D /\ o2[x] \in V \cup D /\ o2[x] # 0
  BY <1>1, <1>2, <1>3
<1> QED BY <1>3, <1>4, <1>5, <1>6 DEF Shaped

\* What a place owns in the end is owned by what it owns.
LEMMA UnderRooted ==
  ASSUME NEW V, NEW o, Shaped(V, o), NEW p \in DOMAIN o, NEW w,
         DOMAIN w = {x \in DOMAIN o : x[1] \in Under(o[p], V, o)},
         \A x \in DOMAIN w : w[x] = o[x]
  PROVE  Rooted(o[p], Under(o[p], V, o), w)
<1> DEFINE B == Under(o[p], V, o)
<1>1. o[p] \in B /\ Shut(B, o) /\ B \subseteq V /\ p[1] \notin B
  BY UnderShut, NotUnder DEF Shaped
<1>2. ASSUME NEW S \in SUBSET B, o[p] \in S, Shut(S, w) PROVE S = B
  <2>1. Shut(S, o)
    BY <1>2 DEF Shut
  <2>2. S \in SUBSET V
    BY <1>1
  <2>3. B \subseteq S
    BY <1>2, <2>1, <2>2, UnderLeast
  <2> QED BY <2>3
<1>3. \A x \in DOMAIN w : x[1] \in B /\ w[x] \in B /\ w[x] # o[p]
  <2>1. \A x \in DOMAIN w : x \in DOMAIN o /\ x[1] \in B /\ w[x] = o[x]
    OBVIOUS
  <2> HIDE DEF B
  <2> QED BY <1>1, <2>1 DEF Shut, Shaped
<1>4. \A x, y \in DOMAIN w : w[x] = w[y] => x = y
  BY DEF Shaped
<1> HIDE DEF B
<1>5. Rooted(o[p], B, w)
  BY <1>1, <1>2, <1>3, <1>4 DEF Rooted
<1> QED BY <1>5 DEF B

\* The same containers at other addresses.
Elsewhere(at, w, w2) ==
  /\ \A i, j \in DOMAIN at : at[i] = at[j] => i = j
  /\ \A x \in DOMAIN w : <<at[x[1]], x[2]>> \in DOMAIN w2
                         /\ w2[<<at[x[1]], x[2]>>] = at[w[x]]
  /\ \A y \in DOMAIN w2 : \E x \in DOMAIN w : y = <<at[x[1]], x[2]>>

LEMMA ElsewhereRooted ==
  ASSUME NEW r, NEW at, NEW w, Rooted(r, DOMAIN at, w), NEW w2, Elsewhere(at, w, w2)
  PROVE  Rooted(at[r], {at[i] : i \in DOMAIN at}, w2)
<1> USE DEF Elsewhere
<1> DEFINE D == DOMAIN at
<1> DEFINE E == {at[i] : i \in D}
<1>1. \A x \in DOMAIN w : x[1] \in D /\ w[x] \in D /\ w[x] # r
  BY DEF Rooted
<1>2. \A y \in DOMAIN w2 : y[1] \in E /\ w2[y] \in E /\ w2[y] # at[r]
  BY <1>1 DEF Rooted
<1>3. ASSUME NEW y \in DOMAIN w2, NEW z \in DOMAIN w2, w2[y] = w2[z] PROVE y = z
  <2>1. PICK x \in DOMAIN w : y = <<at[x[1]], x[2]>>
    OBVIOUS
  <2>2. PICK u \in DOMAIN w : z = <<at[u[1]], u[2]>>
    OBVIOUS
  <2>3. at[w[x]] = at[w[u]]
    BY <1>3, <2>1, <2>2
  <2>4. w[x] = w[u]
    BY <1>1, <2>3
  <2> QED BY <2>1, <2>2, <2>4 DEF Rooted
<1>4. ASSUME NEW S \in SUBSET E, at[r] \in S, Shut(S, w2) PROVE S = E
  <2> DEFINE T == {i \in D : at[i] \in S}
  <2>1. Shut(T, w)
    <3> SUFFICES ASSUME NEW x \in DOMAIN w, x[1] \in T PROVE w[x] \in T
      BY DEF Shut
    <3>1. at[x[1]] \in S /\ w[x] \in D
      BY <1>1
    <3>2. <<at[x[1]], x[2]>> \in DOMAIN w2 /\ w2[<<at[x[1]], x[2]>>] = at[w[x]]
      OBVIOUS
    <3>3. w2[<<at[x[1]], x[2]>>] \in S
      BY <1>4, <3>1, <3>2 DEF Shut
    <3> QED BY <3>1, <3>2, <3>3
  <2>2. T \in SUBSET D /\ r \in T
    BY <1>4 DEF Rooted
  <2>3. T = D
    <3> HIDE DEF T
    <3> QED BY <2>1, <2>2 DEF Rooted
  <2> QED BY <2>3
<1>5. at[r] \in E
  BY DEF Rooted
<1> HIDE DEF E
<1>6. Rooted(at[r], E, w2)
  BY <1>2, <1>3, <1>4, <1>5 DEF Rooted
<1> QED BY <1>6 DEF E

\* Where the owners are these, what is under the root are the containers it owns.
LEMMA RootedUnder ==
  ASSUME NEW r, NEW D, NEW w, Rooted(r, D, w), NEW V, D \subseteq V, NEW o,
         \A x \in DOMAIN o : x[1] \in D => x \in DOMAIN w,
         \A x \in DOMAIN w : x \in DOMAIN o /\ o[x] = w[x]
  PROVE  Under(r, V, o) = D
<1>1. Shut(D, o) /\ r \in D /\ D \in SUBSET V
  BY DEF Shut, Rooted
<1>2. Under(r, V, o) \subseteq D
  BY <1>1, UnderLeast
<1>3. ASSUME NEW S \in SUBSET V, r \in S, Shut(S, o) PROVE D \subseteq S
  <2>1. Shut(S \cap D, w)
    <3>1. \A x \in DOMAIN w : w[x] \in D
      BY DEF Rooted
    <3> QED BY <1>3, <3>1 DEF Shut
  <2>2. S \cap D \in SUBSET D /\ r \in S \cap D
    BY <1>1, <1>3
  <2>3. S \cap D = D
    BY <2>1, <2>2 DEF Rooted
  <2> QED BY <2>3
<1>4. D \subseteq Under(r, V, o)
  BY <1>3 DEF Under
<1> QED BY <1>2, <1>4

-----------------------------------------------------------------------------
(* The memory as such a tree.                                                 *)

Holders(m) == {x \in Places(m) : Owns(NodeAt(x, m))}
Held(m) == [x \in Holders(m) |-> NodeAt(x, m).data]

Nodes == [type : Leaves \cup Containers \cup {"UNDEFINED", "NULL_VALUE"},
          data : Nat, attributes : Seq(AttributeNames)]
Entries == [key : Keys \cup {""}, tree : Nodes]
Ordered == [key : Keys \cup {""}, at : Nat \X (Keys \cup {""})]
Cells == [kind : Containers \cup {"STACK"}, slots : Seq(Entries), order : Seq(Ordered)]

\* The order of a container at an address.
OrderOf(cell, id) ==
  IF cell.kind = "MAP"
  THEN /\ Len(cell.order) = Len(cell.slots)
       /\ \A i, j \in DOMAIN cell.slots : cell.slots[i].key = cell.slots[j].key => i = j
       /\ \A i \in DOMAIN cell.slots :
            cell.order[i] = [key |-> cell.slots[i].key, at |-> <<id, cell.slots[i].key>>]
  ELSE cell.order = <<>>

KindsAgree(m) == \A x \in Holders(m) : m[NodeAt(x, m).data].kind = NodeAt(x, m).type
CellsTyped(m) == DOMAIN m \subseteq 0 .. MaxContainers /\ \A id \in DOMAIN m : m[id] \in Cells
OrdersOwn(m) == \A id \in DOMAIN m : OrderOf(m[id], id)

TreesSound(m) ==
  /\ CellsTyped(m) /\ DOMAIN m[0].slots = 1 .. Variables /\ m[0].kind = "STACK"
  /\ KindsAgree(m) /\ OrdersOwn(m)
  /\ Shaped(DOMAIN m, Held(m))

\* A place is a container and an index.
LEMMA PlaceIs ==
  ASSUME NEW m, NEW x
  PROVE  x \in Places(m) <=> /\ x[1] \in DOMAIN m /\ x[2] \in DOMAIN m[x[1]].slots
                             /\ x = <<x[1], x[2]>>
<1>1. x \in Places(m) <=> \E id \in DOMAIN m : \E k \in DOMAIN m[id].slots : x = <<id, k>>
  BY DEF Places
<1> QED BY <1>1

LEMMA HeldIs ==
  ASSUME NEW m
  PROVE  /\ DOMAIN Held(m) = Holders(m)
         /\ \A x \in Holders(m) : Held(m)[x] = NodeAt(x, m).data
  BY DEF Held

LEMMA BelowIsUnder ==
  ASSUME NEW m, NEW tree
  PROVE  Below(tree, m) = IF Owns(tree) THEN Under(tree.data, DOMAIN m, Held(m)) ELSE {}
<1>1. ASSUME NEW S \in SUBSET DOMAIN m PROVE Closed(S, m) <=> Shut(S, Held(m))
  <2>1. ASSUME Closed(S, m), NEW x \in DOMAIN Held(m), x[1] \in S PROVE Held(m)[x] \in S
    <3>1. x \in Holders(m)
      BY <2>1, HeldIs
    <3>2. x \in Places(m) /\ Owns(NodeAt(x, m))
      BY <3>1 DEF Holders
    <3>3. x[2] \in DOMAIN m[x[1]].slots /\ x = <<x[1], x[2]>>
      BY <3>2, PlaceIs
    <3>4. Owns(NodeAt(<<x[1], x[2]>>, m)) => NodeAt(<<x[1], x[2]>>, m).data \in S
      BY <2>1, <3>3 DEF Closed
    <3>5. NodeAt(x, m).data \in S
      BY <3>2, <3>3, <3>4
    <3> QED BY <3>1, <3>5, HeldIs
  <2>2. ASSUME Shut(S, Held(m)), NEW id \in S, NEW k \in DOMAIN m[id].slots,
               Owns(NodeAt(<<id, k>>, m))
        PROVE  NodeAt(<<id, k>>, m).data \in S
    <3> DEFINE x == <<id, k>>
    <3>1. x[1] = id /\ x[2] = k
      OBVIOUS
    <3> HIDE DEF x
    <3>2. x \in Places(m)
      BY <3>1, PlaceIs DEF x
    <3>3. x \in DOMAIN Held(m) /\ Held(m)[x] = NodeAt(x, m).data
      BY <2>2, <3>2, HeldIs DEF Holders, x
    <3>4. NodeAt(x, m).data \in S
      BY <2>2, <3>1, <3>3 DEF Shut
    <3> QED BY <3>4 DEF x
  <2> QED BY <2>1, <2>2 DEF Closed, Shut
<1>2. \A S \in SUBSET DOMAIN m : Closed(S, m) <=> Shut(S, Held(m))
  BY <1>1
<1> QED BY <1>2 DEF Below, Under

\* Two memories that differ, in the containers V, in the node at p alone.
SameCell(c, d) ==
  /\ d.kind = c.kind /\ d.order = c.order
  /\ Len(d.slots) = Len(c.slots) /\ DOMAIN d.slots = DOMAIN c.slots
  /\ \A k \in DOMAIN c.slots : d.slots[k].key = c.slots[k].key
ButFor(p, tree, V, m, m2) ==
  /\ \A id \in V : SameCell(m[id], m2[id])
  /\ \A x \in Places(m) : x[1] \in V /\ x # p => NodeAt(x, m2) = NodeAt(x, m)
  /\ NodeAt(p, m2) = tree

LEMMA StoredIs ==
  ASSUME NEW m, NEW p \in Places(m), NEW tree \in Nodes, \A id \in DOMAIN m : m[id] \in Cells
  PROVE  /\ DOMAIN Stored(p, tree, m) = DOMAIN m
         /\ \A id \in DOMAIN m : Stored(p, tree, m)[id] \in Cells
         /\ ButFor(p, tree, DOMAIN m, m, Stored(p, tree, m))
         /\ \A id \in DOMAIN m : id # p[1] => Stored(p, tree, m)[id] = m[id]
<1> DEFINE i == p[1]
           k == p[2]
           m2 == Stored(p, tree, m)
<1>1. i \in DOMAIN m /\ k \in DOMAIN m[i].slots /\ p = <<i, k>> /\ m[i] \in Cells
  BY PlaceIs
<1> DEFINE slots == [m[i].slots EXCEPT ![k] = [@ EXCEPT !.tree = tree]]
           cell == [m[i] EXCEPT !.slots = slots]
<1>2. m2 = [m EXCEPT ![i] = cell]
  BY DEF Stored
<1>3. /\ slots \in Seq(Entries)
      /\ Len(slots) = Len(m[i].slots) /\ DOMAIN slots = DOMAIN m[i].slots
      /\ \A j \in DOMAIN m[i].slots : j # k => slots[j] = m[i].slots[j]
      /\ slots[k].tree = tree /\ slots[k].key = m[i].slots[k].key
  <2> DEFINE old == m[i].slots
             e == [old[k] EXCEPT !.tree = tree]
  <2>1. old \in Seq(Entries) /\ k \in DOMAIN old /\ old[k] \in Entries
    <3>1. m[i].slots \in Seq(Entries)
      BY <1>1 DEF Cells
    <3> QED BY <1>1, <3>1
  <2>2. e \in Entries /\ e.tree = tree /\ e.key = old[k].key
    BY <2>1 DEF Entries
  <2>3. slots = [old EXCEPT ![k] = e]
    OBVIOUS
  <2> HIDE DEF e, old, slots
  <2>4. /\ slots \in Seq(Entries) /\ Len(slots) = Len(old) /\ DOMAIN slots = DOMAIN old
        /\ slots[k] = e /\ \A j \in DOMAIN old : j # k => slots[j] = old[j]
    BY <2>1, <2>2, <2>3
  <2> QED BY <2>2, <2>4 DEF old
<1> HIDE DEF slots
<1>4. /\ cell \in Cells /\ cell.kind = m[i].kind /\ cell.order = m[i].order
      /\ cell.slots = slots
  BY <1>1, <1>3 DEF Cells
<1> HIDE DEF cell
<1>5. DOMAIN m2 = DOMAIN m /\ m2[i] = cell /\ \A id \in DOMAIN m : id # i => m2[id] = m[id]
  BY <1>1, <1>2
<1> HIDE DEF m2
<1>6. \A id \in DOMAIN m : m2[id] \in Cells
  BY <1>4, <1>5
<1>7. \A id \in DOMAIN m : SameCell(m[id], m2[id])
  <2> TAKE id \in DOMAIN m
  <2>1. CASE id = i
    <3>1. \A j \in DOMAIN m[i].slots : slots[j].key = m[i].slots[j].key
      BY <1>3
    <3> QED BY <1>3, <1>4, <1>5, <2>1, <3>1 DEF SameCell
  <2>2. CASE id # i
    BY <1>5, <2>2 DEF SameCell
  <2> QED BY <2>1, <2>2
<1>8. \A x \in Places(m) : x # p => NodeAt(x, m2) = NodeAt(x, m)
  <2> TAKE x \in Places(m)
  <2>1. x[1] \in DOMAIN m /\ x[2] \in DOMAIN m[x[1]].slots /\ x = <<x[1], x[2]>>
    BY PlaceIs
  <2>2. x # p => x[1] # i \/ x[2] # k
    BY <1>1, <2>1
  <2>3. CASE x[1] = i
    BY <1>3, <1>4, <1>5, <2>1, <2>2, <2>3 DEF NodeAt
  <2>4. CASE x[1] # i
    BY <1>5, <2>1, <2>4 DEF NodeAt
  <2> QED BY <2>3, <2>4
<1>9. NodeAt(p, m2) = tree
  BY <1>3, <1>4, <1>5 DEF NodeAt
<1> QED BY <1>5, <1>6, <1>7, <1>8, <1>9 DEF ButFor, m2

\* Orders look at keys alone.
LEMMA OrderKept ==
  ASSUME NEW c, NEW d, SameCell(c, d), NEW id, OrderOf(c, id)
  PROVE  OrderOf(d, id)
  BY DEF OrderOf, SameCell

\* The places of those containers are the same.
LEMMA SamePlaces ==
  ASSUME NEW p, NEW tree, NEW V, NEW m, NEW m2, ButFor(p, tree, V, m, m2),
         V \subseteq DOMAIN m, V \subseteq DOMAIN m2, NEW x, x[1] \in V
  PROVE  x \in Places(m) <=> x \in Places(m2)
  BY PlaceIs DEF ButFor, SameCell

\* Who holds a container in a sound memory.
LEMMA HoldersShape ==
  ASSUME NEW m, TreesSound(m)
  PROVE  /\ \A x \in Holders(m) : x \in DOMAIN Held(m) /\ Held(m)[x] = NodeAt(x, m).data
         /\ \A x \in Holders(m) : /\ x[1] \in DOMAIN m /\ NodeAt(x, m).data \in DOMAIN m
                                  /\ NodeAt(x, m).data # 0
  BY HeldIs DEF TreesSound, Shaped

\* What a place owns in the end does not contain it, nor the variables, and no other place
\* leads there.
LEMMA BelowPlace ==
  ASSUME NEW m, TreesSound(m), NEW p \in Places(m)
  PROVE  /\ p[1] \notin Below(NodeAt(p, m), m) /\ 0 \notin Below(NodeAt(p, m), m)
         /\ Below(NodeAt(p, m), m) \subseteq DOMAIN m
         /\ \A x \in Holders(m) : x # p /\ NodeAt(x, m).data \in Below(NodeAt(p, m), m)
              => x[1] \in Below(NodeAt(p, m), m)
         /\ \A x \in Holders(m) : x[1] \in Below(NodeAt(p, m), m)
              => NodeAt(x, m).data \in Below(NodeAt(p, m), m)
<1> DEFINE V == DOMAIN m
           o == Held(m)
<1>1. CASE ~ Owns(NodeAt(p, m))
  BY <1>1, BelowIsUnder
<1>2. CASE Owns(NodeAt(p, m))
  <2>1. p \in Holders(m) /\ p \in DOMAIN o /\ o[p] = NodeAt(p, m).data
    BY <1>2, HeldIs DEF Holders
  <2>2. Below(NodeAt(p, m), m) = Under(o[p], V, o)
    BY <1>2, <2>1, BelowIsUnder
  <2>3. Shaped(V, o)
    BY DEF TreesSound
  <2>4. \A x \in Holders(m) : x \in DOMAIN o /\ o[x] = NodeAt(x, m).data
    BY HoldersShape
  <2> HIDE DEF V, o
  <2>5. p[1] \notin Under(o[p], V, o) /\ 0 \notin Under(o[p], V, o)
    BY <2>1, <2>3, NotUnder
  <2>6. \A x \in DOMAIN o : x # p /\ o[x] \in Under(o[p], V, o) => x[1] \in Under(o[p], V, o)
    BY <2>1, <2>3, OneWayIn
  <2>7. Under(o[p], V, o) \subseteq V
    BY DEF Under
  <2>8. Shut(Under(o[p], V, o), o)
    BY <2>1, <2>3, UnderShut DEF Shaped
  <2> QED BY <2>2, <2>4, <2>5, <2>6, <2>7, <2>8 DEF V, Shut
<1> QED BY <1>1, <1>2

\* A node is cleared: what it owned in the end goes, and the rest is sound.
LEMMA StoredNothing ==
  ASSUME NEW m, TreesSound(m), NEW p \in Places(m), NEW tree, ~ Owns(tree), NEW m1,
         DOMAIN m1 = DOMAIN m \ Below(NodeAt(p, m), m),
         \A id \in DOMAIN m1 : m1[id] \in Cells,
         ButFor(p, tree, DOMAIN m1, m, m1)
  PROVE  TreesSound(m1)
<1> DEFINE B == Below(NodeAt(p, m), m)
           V == DOMAIN m
           o == Held(m)
           V1 == DOMAIN m1
           o1 == Held(m1)
<1>1. /\ p[1] \in V1 /\ 0 \in V1 /\ V1 \subseteq V
      /\ \A x \in Holders(m) : x # p /\ NodeAt(x, m).data \in B => x[1] \in B
  BY BelowPlace, PlaceIs DEF TreesSound, Shaped
<1>2. \A x : x[1] \in V1 => (x \in Places(m) <=> x \in Places(m1))
  BY <1>1, SamePlaces
<1>3. \A x \in Places(m1) : x[1] \in V1
  BY PlaceIs
<1>4. \A x \in Places(m1) : x # p => NodeAt(x, m1) = NodeAt(x, m)
  BY <1>2, <1>3 DEF ButFor
<1>5. Holders(m1) = {x \in Holders(m) : x[1] \notin B /\ x # p}
  <2>1. \A x \in Holders(m1) : x \in Holders(m) /\ x[1] \notin B /\ x # p
    BY <1>2, <1>3, <1>4 DEF Holders, ButFor
  <2>2. \A x \in Holders(m) : x[1] \notin B /\ x # p => x \in Holders(m1)
    <3>1. \A x \in Holders(m) : x[1] \in V
      BY PlaceIs DEF Holders
    <3> QED BY <3>1, <1>2, <1>4 DEF Holders
  <2> QED BY <2>1, <2>2
<1>6. \A x \in Holders(m1) : NodeAt(x, m1) = NodeAt(x, m) /\ NodeAt(x, m).data \in V1
  <2>1. \A x \in Holders(m1) : x \in Places(m1) /\ x \in Holders(m) /\ x # p /\ x[1] \notin B
    BY <1>5 DEF Holders
  <2>2. \A x \in Holders(m) : NodeAt(x, m).data \in V
    BY HoldersShape
  <2> QED BY <1>1, <1>4, <2>1, <2>2
<1>7. Shaped(V1, o1)
  <2>1. DOMAIN o1 = Holders(m1) /\ \A x \in Holders(m1) : o1[x] = NodeAt(x, m1).data
    BY HeldIs
  <2>2. DOMAIN o = Holders(m) /\ \A x \in Holders(m) : o[x] = NodeAt(x, m).data
    BY HeldIs
  <2>3. \A x \in DOMAIN o1 : o1[x] = o[x]
    BY <1>5, <1>6, <2>1, <2>2
  <2>4. Shaped(V, o)
    BY DEF TreesSound
  <2>5. CASE Owns(NodeAt(p, m))
    <3>1. p \in DOMAIN o /\ B = Under(o[p], V, o)
      BY <2>2, <2>5, BelowIsUnder DEF Holders
    <3>2. DOMAIN o1 = {x \in DOMAIN o : x[1] \notin Under(o[p], V, o) /\ x # p}
      BY <1>5, <2>1, <2>2, <3>1
    <3>3. V1 = V \ Under(o[p], V, o)
      BY <3>1
    <3> HIDE DEF V, o, V1, o1, B
    <3> QED BY <2>3, <2>4, <3>1, <3>2, <3>3, CutOff
  <2>6. CASE ~ Owns(NodeAt(p, m))
    <3>1. B = {} /\ p \notin Holders(m)
      BY <2>6, BelowIsUnder DEF Holders
    <3>2. DOMAIN o1 = DOMAIN o /\ V1 = V
      BY <1>5, <2>1, <2>2, <3>1
    <3> HIDE DEF V, o, V1, o1, B
    <3>3. \A S : Shut(S, o1) <=> Shut(S, o)
      BY <2>3, <3>2 DEF Shut
    <3> QED BY <2>3, <2>4, <3>2, <3>3 DEF Shaped
  <2> QED BY <2>5, <2>6
<1>8. KindsAgree(m1)
  <2>1. \A x \in Holders(m1) : x \in Holders(m)
    BY <1>5
  <2>2. \A id \in V1 : m1[id].kind = m[id].kind
    BY DEF ButFor, SameCell
  <2> QED BY <1>6, <2>1, <2>2 DEF KindsAgree, TreesSound
<1>9. OrdersOwn(m1)
  <2>1. \A id \in V1 : SameCell(m[id], m1[id]) /\ OrderOf(m[id], id)
    BY <1>1 DEF ButFor, TreesSound, OrdersOwn
  <2> QED BY <2>1, OrderKept DEF OrdersOwn
<1>10. CellsTyped(m1) /\ DOMAIN m1[0].slots = 1 .. Variables /\ m1[0].kind = "STACK"
  BY <1>1 DEF TreesSound, CellsTyped, ButFor, SameCell
<1> QED BY <1>7, <1>8, <1>9, <1>10 DEF TreesSound

\* The containers that are held from within D.
Within(D, m) == [x \in {x \in Holders(m) : x[1] \in D} |-> NodeAt(x, m).data]

\* Other containers are owned by a node that had none: the whole is sound.
LEMMA Planted ==
  ASSUME NEW m, TreesSound(m), NEW p \in Places(m), ~ Owns(NodeAt(p, m)), NEW tree, Owns(tree),
         NEW D, D \subseteq 1 .. MaxContainers, D \cap DOMAIN m = {}, NEW m2,
         DOMAIN m2 = DOMAIN m \cup D,
         \A id \in DOMAIN m2 : m2[id] \in Cells,
         ButFor(p, tree, DOMAIN m, m, m2),
         Rooted(tree.data, D, Within(D, m2)),
         m2[tree.data].kind = tree.type,
         \A x \in Holders(m2) : x[1] \in D => m2[NodeAt(x, m2).data].kind = NodeAt(x, m2).type,
         \A id \in D : OrderOf(m2[id], id)
  PROVE  TreesSound(m2)
<1> DEFINE V == DOMAIN m
           o == Held(m)
           w == Within(D, m2)
           o2 == Held(m2)
<1>1. p[1] \in V /\ 0 \in V /\ p \notin Holders(m)
  BY PlaceIs DEF TreesSound, Shaped, Holders
<1>2. \A x : x[1] \in V => (x \in Places(m) <=> x \in Places(m2))
  BY SamePlaces
<1>3. \A x \in Places(m2) : x[1] \in V \/ x[1] \in D
  BY PlaceIs
<1>4. \A x \in Holders(m) : x[1] \in V /\ x # p /\ x \in Holders(m2) /\ NodeAt(x, m2) = NodeAt(x, m)
  <2> TAKE x \in Holders(m)
  <2>1. x \in Places(m) /\ x[1] \in V /\ x # p
    BY <1>1, PlaceIs DEF Holders
  <2>2. NodeAt(x, m2) = NodeAt(x, m)
    BY <2>1 DEF ButFor
  <2> QED BY <1>2, <2>1, <2>2 DEF Holders
<1>5. p \in Holders(m2) /\ NodeAt(p, m2) = tree
  BY <1>1, <1>2 DEF Holders, ButFor
<1>6. \A x \in Holders(m2) : x \in Holders(m) \/ x = p \/ x[1] \in D
  <2> TAKE x \in Holders(m2)
  <2>1. CASE x[1] \in V /\ x # p
    <3>1. x \in Places(m) /\ NodeAt(x, m2) = NodeAt(x, m)
      BY <1>2, <2>1 DEF Holders, ButFor
    <3> QED BY <3>1 DEF Holders
  <2> QED BY <1>3, <2>1 DEF Holders
<1>7. DOMAIN w = {x \in Holders(m2) : x[1] \in D} /\ \A x \in DOMAIN w : w[x] = NodeAt(x, m2).data
  BY DEF Within
<1>8. Shaped(V \cup D, o2)
  <2>1. DOMAIN o2 = Holders(m2) /\ \A x \in Holders(m2) : o2[x] = NodeAt(x, m2).data
    BY HeldIs
  <2>2. DOMAIN o = Holders(m) /\ \A x \in Holders(m) : o[x] = NodeAt(x, m).data
    BY HeldIs
  <2>3. Shaped(V, o)
    BY DEF TreesSound
  <2> DEFINE r == tree.data
  <2>4. Rooted(r, D, w)
    OBVIOUS
  <2> HIDE DEF V, o, w, o2, r
  <2>5. DOMAIN o2 = (DOMAIN o \cup {p}) \cup DOMAIN w
    BY <1>4, <1>5, <1>6, <1>7, <2>1, <2>2
  <2>6. o2[p] = r
    BY <1>5, <2>1 DEF r
  <2>7. \A x \in DOMAIN o : o2[x] = o[x]
    BY <1>4, <2>1, <2>2
  <2>8. \A x \in DOMAIN w : o2[x] = w[x]
    BY <1>7, <2>1
  <2>9. p \notin DOMAIN o /\ p[1] \in V /\ D \cap V = {}
    BY <1>1, <2>2 DEF V
  <2>10. PutsOn(p, r, o, w, o2)
    BY <2>5, <2>6, <2>7, <2>8, <2>9 DEF PutsOn
  <2> QED BY <2>3, <2>4, <2>9, <2>10, PutOn
<1>9. KindsAgree(m2)
  <2>1. \A x \in Holders(m) : m2[NodeAt(x, m2).data].kind = NodeAt(x, m2).type
    <3> TAKE x \in Holders(m)
    <3>1. NodeAt(x, m).data \in V /\ m[NodeAt(x, m).data].kind = NodeAt(x, m).type
      BY HoldersShape DEF TreesSound, KindsAgree
    <3> QED BY <1>4, <3>1 DEF ButFor, SameCell
  <2> QED BY <1>5, <1>6, <2>1 DEF KindsAgree
<1>10. OrdersOwn(m2)
  <2>1. \A id \in V : SameCell(m[id], m2[id]) /\ OrderOf(m[id], id)
    BY DEF ButFor, TreesSound, OrdersOwn
  <2> QED BY <2>1, OrderKept DEF OrdersOwn
<1>11. CellsTyped(m2) /\ DOMAIN m2[0].slots = 1 .. Variables /\ m2[0].kind = "STACK"
  <2>1. DOMAIN m2 \subseteq 0 .. MaxContainers
    <3>1. DOMAIN m \subseteq 0 .. MaxContainers
      BY DEF TreesSound, CellsTyped
    <3>2. 1 .. MaxContainers \subseteq 0 .. MaxContainers
      BY TreeConstants
    <3> QED BY <3>1, <3>2, Zenon
  <2>2. SameCell(m[0], m2[0]) /\ DOMAIN m[0].slots = 1 .. Variables /\ m[0].kind = "STACK"
    BY <1>1 DEF TreesSound, ButFor
  <2> QED BY <2>1, <2>2 DEF CellsTyped, SameCell
<1> QED BY <1>8, <1>9, <1>10, <1>11 DEF TreesSound

-----------------------------------------------------------------------------
(* The steps.                                                                 *)

LEMMA CellOf ==
  ASSUME NEW cell \in Cells
  PROVE  /\ cell.kind \in Containers \cup {"STACK"}
         /\ cell.slots \in Seq(Entries) /\ cell.order \in Seq(Ordered)
         /\ DOMAIN cell.slots = 1 .. Len(cell.slots) /\ Len(cell.slots) \in Nat
         /\ \A k \in DOMAIN cell.slots : /\ cell.slots[k] \in Entries
                                         /\ cell.slots[k].tree \in Nodes
                                         /\ cell.slots[k].key \in Keys \cup {""}
<1>1. /\ cell.kind \in Containers \cup {"STACK"}
      /\ cell.slots \in Seq(Entries) /\ cell.order \in Seq(Ordered)
  BY DEF Cells
<1>2. \A e \in Entries : e.tree \in Nodes /\ e.key \in Keys \cup {""}
  BY DEF Entries
<1> DEFINE slots == cell.slots
<1>3. slots \in Seq(Entries)
  BY <1>1
<1> HIDE DEF slots
<1>4. /\ DOMAIN slots = 1 .. Len(slots) /\ Len(slots) \in Nat
      /\ \A k \in DOMAIN slots : slots[k] \in Entries
  BY <1>3
<1>5. \A k \in DOMAIN slots : slots[k].tree \in Nodes /\ slots[k].key \in Keys \cup {""}
  BY <1>2, <1>4
<1> QED BY <1>1, <1>4, <1>5 DEF slots

LEMMA NodeOf ==
  ASSUME NEW m, CellsTyped(m), NEW p \in Places(m)
  PROVE  /\ NodeAt(p, m) \in Nodes
         /\ NodeAt(p, m).attributes \in Seq(AttributeNames) /\ NodeAt(p, m).data \in Nat
<1>1. p[1] \in DOMAIN m /\ p[2] \in DOMAIN m[p[1]].slots /\ m[p[1]] \in Cells
  BY PlaceIs DEF CellsTyped
<1>2. NodeAt(p, m) \in Nodes
  BY <1>1, CellOf DEF NodeAt
<1> QED BY <1>2 DEF Nodes

LEMMA LeafNode ==
  ASSUME NEW attributes \in Seq(AttributeNames),
         NEW type \in Leaves \cup {"UNDEFINED", "NULL_VALUE"}
  PROVE  Tree(type, 0, attributes) \in Nodes /\ ~ Owns(Tree(type, 0, attributes))
  BY TreeConstants DEF Tree, Nodes, Owns, Containers

LEMMA UndefinedNode == UndefinedTree \in Nodes /\ ~ Owns(UndefinedTree)
<1>1. <<>> \in Seq(AttributeNames)
  OBVIOUS
<1>2. "UNDEFINED" \in Leaves \cup {"UNDEFINED", "NULL_VALUE"}
  OBVIOUS
<1> QED BY <1>1, <1>2, LeafNode DEF UndefinedTree

LEMMA AppendTyped ==
  ASSUME NEW S, NEW s \in Seq(S), NEW e \in S
  PROVE  Append(s, e) \in Seq(S)
  OBVIOUS

LEMMA SequenceIs ==
  ASSUME NEW S, NEW s \in Seq(S)
  PROVE  /\ Len(s) \in Nat /\ DOMAIN s = 1 .. Len(s) /\ \A i \in DOMAIN s : s[i] \in S
         /\ DOMAIN s = {} => s = <<>>
  OBVIOUS

LEMMA SequenceMade ==
  ASSUME NEW S, NEW n \in Nat, NEW s, s = [i \in 1 .. n |-> s[i]], \A i \in 1 .. n : s[i] \in S
  PROVE  s \in Seq(S) /\ Len(s) = n
  OBVIOUS

LEMMA ButForBoth ==
  ASSUME NEW p, NEW t1, NEW t2, NEW V, NEW m, NEW m1, NEW m2,
         ButFor(p, t1, V, m, m1), ButFor(p, t2, V, m, m2),
         V \subseteq DOMAIN m, V \subseteq DOMAIN m1
  PROVE  ButFor(p, t2, V, m1, m2)
<1>1. \A id \in V : SameCell(m1[id], m2[id])
  BY DEF ButFor, SameCell
<1>2. \A x \in Places(m1) : x[1] \in V => x \in Places(m)
  BY SamePlaces
<1>3. \A x \in Places(m1) : x[1] \in V /\ x # p => NodeAt(x, m2) = NodeAt(x, m1)
  BY <1>2 DEF ButFor
<1> QED BY <1>1, <1>3 DEF ButFor

\* What is stored at a place whose old value was deleted.
Keeps(V, m, m3) == V \subseteq DOMAIN m3 /\ \A id \in V : m3[id] = m[id]

LEMMA StoredOver ==
  ASSUME NEW m, TreesSound(m), NEW p \in Places(m), NEW tree \in Nodes,
         NEW V, V = DOMAIN m \ Below(NodeAt(p, m), m), NEW m3, Keeps(V, m, m3),
         \A id \in DOMAIN m3 : m3[id] \in Cells
  PROVE  /\ DOMAIN Stored(p, tree, m3) = DOMAIN m3
         /\ \A id \in DOMAIN m3 : Stored(p, tree, m3)[id] \in Cells
         /\ ButFor(p, tree, V, m, Stored(p, tree, m3))
         /\ \A id \in DOMAIN m3 : id # p[1] => Stored(p, tree, m3)[id] = m3[id]
<1> DEFINE m2 == Stored(p, tree, m3)
<1>1. p[1] \in V
  BY BelowPlace, PlaceIs
<1>2. p \in Places(m3)
  BY <1>1, PlaceIs DEF Keeps
<1>3. /\ DOMAIN m2 = DOMAIN m3 /\ \A id \in DOMAIN m3 : m2[id] \in Cells
      /\ ButFor(p, tree, DOMAIN m3, m3, m2)
      /\ \A id \in DOMAIN m3 : id # p[1] => m2[id] = m3[id]
  BY <1>2, StoredIs
<1>4. ButFor(p, tree, V, m, m2)
  <2>1. \A id \in V : id \in DOMAIN m3 /\ m3[id] = m[id]
    BY DEF Keeps
  <2>2. \A x \in Places(m) : x[1] \in V => x \in Places(m3) /\ NodeAt(x, m3) = NodeAt(x, m)
    BY <2>1, PlaceIs DEF NodeAt
  <2> HIDE DEF m2
  <2>3. \A x \in Places(m3) : x # p => NodeAt(x, m2) = NodeAt(x, m3)
    <3>1. \A x \in Places(m3) : x[1] \in DOMAIN m3
      BY PlaceIs
    <3> QED BY <1>3, <3>1 DEF ButFor
  <2> QED BY <1>3, <2>1, <2>2, <2>3 DEF ButFor
<1> QED BY <1>3, <1>4

LEMMA DeletedKeeps ==
  ASSUME NEW m, NEW tree
  PROVE  /\ DOMAIN deleteValueObject(tree, m) = DOMAIN m \ Below(tree, m)
         /\ Keeps(DOMAIN m \ Below(tree, m), m, deleteValueObject(tree, m))
  BY DEF deleteValueObject, Keeps

\* A node is set to a value that owns nothing.
LEMMA SetNode ==
  ASSUME NEW m, TreesSound(m), NEW p \in Places(m), NEW tree \in Nodes, ~ Owns(tree)
  PROVE  /\ TreesSound(Stored(p, tree, deleteValueObject(NodeAt(p, m), m)))
         /\ DOMAIN Stored(p, tree, deleteValueObject(NodeAt(p, m), m))
              = DOMAIN m \ Below(NodeAt(p, m), m)
         /\ ButFor(p, tree, DOMAIN m \ Below(NodeAt(p, m), m), m,
                   Stored(p, tree, deleteValueObject(NodeAt(p, m), m)))
<1> DEFINE V == DOMAIN m \ Below(NodeAt(p, m), m)
           kept == deleteValueObject(NodeAt(p, m), m)
           m1 == Stored(p, tree, kept)
<1>1. DOMAIN kept = V /\ Keeps(V, m, kept)
  BY DeletedKeeps
<1>2. \A id \in DOMAIN kept : kept[id] \in Cells
  BY <1>1 DEF Keeps, TreesSound, CellsTyped
<1>3. V = DOMAIN m \ Below(NodeAt(p, m), m)
  OBVIOUS
<1> HIDE DEF kept, V
<1>4. /\ DOMAIN m1 = DOMAIN kept /\ \A id \in DOMAIN kept : m1[id] \in Cells
      /\ ButFor(p, tree, V, m, m1)
  BY <1>1, <1>2, <1>3, StoredOver
<1> HIDE DEF m1
<1>5. TreesSound(m1)
  BY <1>1, <1>3, <1>4, StoredNothing
<1> QED BY <1>1, <1>4, <1>5 DEF m1, kept, V

\* The node at a place is replaced by one that owns D.
LEMMA Replaced ==
  ASSUME NEW m, TreesSound(m), NEW p \in Places(m), NEW tree, Owns(tree), NEW D, NEW m2,
         D \subseteq 1 .. MaxContainers, D \cap (DOMAIN m \ Below(NodeAt(p, m), m)) = {},
         DOMAIN m2 = (DOMAIN m \ Below(NodeAt(p, m), m)) \cup D,
         \A id \in DOMAIN m2 : m2[id] \in Cells,
         ButFor(p, tree, DOMAIN m \ Below(NodeAt(p, m), m), m, m2),
         Rooted(tree.data, D, Within(D, m2)),
         m2[tree.data].kind = tree.type,
         \A x \in Holders(m2) : x[1] \in D => m2[NodeAt(x, m2).data].kind = NodeAt(x, m2).type,
         \A id \in D : OrderOf(m2[id], id)
  PROVE  TreesSound(m2)
<1> DEFINE V == DOMAIN m \ Below(NodeAt(p, m), m)
           m1 == Stored(p, UndefinedTree, deleteValueObject(NodeAt(p, m), m))
<1>1. UndefinedTree \in Nodes /\ ~ Owns(UndefinedTree)
  BY UndefinedNode
<1>2. TreesSound(m1) /\ DOMAIN m1 = V /\ ButFor(p, UndefinedTree, V, m, m1)
  BY <1>1, SetNode
<1> HIDE DEF m1
<1>3. p[1] \in V /\ p \in Places(m1)
  <2>1. p[1] \in V
    BY BelowPlace, PlaceIs
  <2> QED BY <1>2, <2>1, SamePlaces
<1>4. ~ Owns(NodeAt(p, m1))
  BY <1>1, <1>2 DEF ButFor
<1> HIDE DEF V
<1>5. ButFor(p, tree, V, m1, m2)
  BY <1>2, ButForBoth DEF V
<1>6. DOMAIN m2 = DOMAIN m1 \cup D /\ D \cap DOMAIN m1 = {} /\ ButFor(p, tree, DOMAIN m1, m1, m2)
  BY <1>2, <1>5 DEF V
<1> QED BY <1>2, <1>3, <1>4, <1>6, Planted

\* A step that changes no owner.
LEMMA OwnersStay ==
  ASSUME NEW m, TreesSound(m), NEW m2, DOMAIN m2 = DOMAIN m,
         \A id \in DOMAIN m : m2[id] \in Cells /\ m2[id].kind = m[id].kind,
         DOMAIN m2[0].slots = DOMAIN m[0].slots, OrdersOwn(m2),
         \A x : x \in Holders(m2) <=> x \in Holders(m),
         \A x \in Holders(m) : /\ NodeAt(x, m2).type = NodeAt(x, m).type
                               /\ NodeAt(x, m2).data = NodeAt(x, m).data
  PROVE  TreesSound(m2)
<1> DEFINE o == Held(m)
           o2 == Held(m2)
<1>1. DOMAIN o2 = DOMAIN o /\ \A x \in DOMAIN o : o2[x] = o[x]
  BY HeldIs
<1>2. Shaped(DOMAIN m, o) /\ 0 \in DOMAIN m
  BY DEF TreesSound, Shaped
<1>3. Shaped(DOMAIN m, o2)
  <2> HIDE DEF o, o2
  <2>1. \A S : Shut(S, o2) <=> Shut(S, o)
    BY <1>1 DEF Shut
  <2> QED BY <1>1, <1>2, <2>1 DEF Shaped
<1>4. KindsAgree(m2)
  BY HoldersShape DEF TreesSound, KindsAgree
<1>5. CellsTyped(m2) /\ DOMAIN m2[0].slots = 1 .. Variables /\ m2[0].kind = "STACK"
  BY <1>2 DEF TreesSound, CellsTyped
<1> QED BY <1>3, <1>4, <1>5 DEF TreesSound

\* A container gets another node, which owns nothing.
LEMMA Grown ==
  ASSUME NEW m, TreesSound(m), NEW id \in DOMAIN m, id # 0, NEW cell \in Cells,
         cell.kind = m[id].kind, OrderOf(cell, id),
         NEW entry \in Entries, ~ Owns(entry.tree), cell.slots = Append(m[id].slots, entry),
         NEW m2, DOMAIN m2 = DOMAIN m, m2[id] = cell,
         \A i \in DOMAIN m : i # id => m2[i] = m[i]
  PROVE  TreesSound(m2)
<1> DEFINE n == Len(m[id].slots)
<1>1. /\ m[id].slots \in Seq(Entries) /\ n \in Nat /\ DOMAIN m[id].slots = 1 .. n
      /\ \A i \in DOMAIN m : m[i] \in Cells
  BY CellOf DEF TreesSound, CellsTyped
<1>2. /\ DOMAIN cell.slots = 1 .. n + 1
      /\ \A k \in 1 .. n : cell.slots[k] = m[id].slots[k]
      /\ cell.slots[n + 1] = entry
  BY <1>1
<1> HIDE DEF n
<1>3. \A x \in Places(m) : x \in Places(m2) /\ NodeAt(x, m2) = NodeAt(x, m)
  <2> TAKE x \in Places(m)
  <2>1. x[1] \in DOMAIN m /\ x[2] \in DOMAIN m[x[1]].slots /\ x = <<x[1], x[2]>>
    BY PlaceIs
  <2>2. CASE x[1] = id
    <3>1. x[2] \in 1 .. n /\ x[2] \in 1 .. n + 1
      BY <1>1, <2>1, <2>2
    <3> QED BY <1>2, <2>1, <2>2, <3>1, PlaceIs DEF NodeAt
  <2>3. CASE x[1] # id
    BY <2>1, <2>3, PlaceIs DEF NodeAt
  <2> QED BY <2>2, <2>3
<1>4. \A x \in Places(m2) : x \in Places(m) \/ NodeAt(x, m2) = entry.tree
  <2> TAKE x \in Places(m2)
  <2>1. x[1] \in DOMAIN m /\ x[2] \in DOMAIN m2[x[1]].slots /\ x = <<x[1], x[2]>>
    BY PlaceIs
  <2>2. CASE x[1] = id
    <3>1. x[2] \in 1 .. n \/ x[2] = n + 1
      BY <1>1, <1>2, <2>1, <2>2
    <3> QED BY <1>1, <1>2, <2>1, <2>2, <3>1, PlaceIs DEF NodeAt
  <2>3. CASE x[1] # id
    BY <2>1, <2>3, PlaceIs
  <2> QED BY <2>2, <2>3
<1>5. \A x : x \in Holders(m2) <=> x \in Holders(m)
  BY <1>3, <1>4 DEF Holders
<1>6. \A x \in Holders(m) : NodeAt(x, m2) = NodeAt(x, m)
  BY <1>3 DEF Holders
<1>7. OrdersOwn(m2)
  BY DEF TreesSound, OrdersOwn
<1>8. \A i \in DOMAIN m : m2[i] \in Cells /\ m2[i].kind = m[i].kind
  BY <1>1
<1>9. DOMAIN m2[0].slots = DOMAIN m[0].slots
  BY DEF TreesSound, Shaped
<1> QED BY <1>5, <1>6, <1>7, <1>8, <1>9, OwnersStay

LEMMA TreeBegins == TreeInit => TreesSound(heap)
<1> SUFFICES ASSUME TreeInit PROVE TreesSound(heap)
  OBVIOUS
<1> DEFINE entry == Slot("", UndefinedTree)
           slots == [v \in 1 .. Variables |-> entry]
<1>1. UndefinedTree \in Nodes /\ ~ Owns(UndefinedTree)
  BY UndefinedNode
<1>2. entry \in Entries /\ entry.tree = UndefinedTree
  BY <1>1 DEF Entries, Slot
<1>3. slots \in Seq(Entries) /\ DOMAIN slots = 1 .. Variables
  <2> HIDE DEF entry
  <2> QED BY <1>2, TreeConstants
<1>4. DOMAIN heap = {0} /\ heap[0] = [kind |-> "STACK", slots |-> slots, order |-> <<>>]
  BY DEF TreeInit, Container
<1>5. \A v \in 1 .. Variables : slots[v].tree = UndefinedTree
  BY <1>2
<1> HIDE DEF slots, entry
<1>6. heap[0] \in Cells /\ heap[0].kind = "STACK" /\ heap[0].slots = slots
  BY <1>3, <1>4 DEF Cells
<1>7. Holders(heap) = {}
  <2>1. ASSUME NEW x \in Places(heap) PROVE NodeAt(x, heap) = UndefinedTree
    <3>1. x[1] \in DOMAIN heap /\ x[2] \in DOMAIN heap[x[1]].slots
      BY PlaceIs
    <3>2. x[1] = 0 /\ x[2] \in 1 .. Variables
      BY <1>3, <1>4, <1>6, <3>1
    <3> QED BY <1>5, <1>6, <3>2 DEF NodeAt
  <2> QED BY <1>1, <2>1 DEF Holders
<1>8. Shaped(DOMAIN heap, Held(heap))
  <2>1. DOMAIN Held(heap) = {}
    BY <1>7, HeldIs
  <2> QED BY <1>4, <2>1 DEF Shaped
<1>9. OrdersOwn(heap)
  BY <1>4 DEF OrdersOwn, OrderOf
<1>10. KindsAgree(heap)
  BY <1>7 DEF KindsAgree
<1>11. CellsTyped(heap)
  BY <1>4, <1>6, TreeConstants DEF CellsTyped
<1> QED BY <1>3, <1>4, <1>6, <1>8, <1>9, <1>10, <1>11 DEF TreesSound

LEMMA SetLeafKeeps ==
  ASSUME TreesSound(heap), NEW p \in Places(heap), SetLeaf(p)
  PROVE  TreesSound(heap')
<1>1. PICK leaf \in Leaves :
        heap' = Stored(p, Tree(leaf, 0, At(p).attributes), deleteValueObject(At(p), heap))
  BY DEF SetLeaf
<1>2. At(p).attributes \in Seq(AttributeNames)
  BY NodeOf DEF At, TreesSound
<1>3. Tree(leaf, 0, At(p).attributes) \in Nodes /\ ~ Owns(Tree(leaf, 0, At(p).attributes))
  BY <1>2, LeafNode
<1> QED BY <1>1, <1>3, SetNode DEF At

LEMMA SetContainerKeeps ==
  ASSUME TreesSound(heap), NEW p \in Places(heap), NEW kind \in Kinds, SetContainer(p, kind)
  PROVE  TreesSound(heap')
<1> DEFINE kept == deleteValueObject(At(p), heap)
           V == DOMAIN heap \ Below(NodeAt(p, heap), heap)
<1>1. PICK new \in FreeIds(kept) :
        heap' = Stored(p, Tree(kind, new, At(p).attributes),
                       [id \in DOMAIN kept \cup {new} |->
                          IF id = new THEN Container(kind) ELSE kept[id]])
  BY DEF SetContainer
<1> DEFINE tree == Tree(kind, new, At(p).attributes)
           m3 == [id \in DOMAIN kept \cup {new} |->
                    IF id = new THEN Container(kind) ELSE kept[id]]
<1>2. DOMAIN kept = V /\ Keeps(V, heap, kept) /\ V = DOMAIN heap \ Below(NodeAt(p, heap), heap)
  BY DeletedKeeps DEF At
<1>3. new \in 1 .. MaxContainers /\ new \notin V /\ new \in Nat
  BY <1>2, TreeConstants DEF FreeIds
<1>4. kind \in Containers /\ Owns(tree) /\ tree \in Nodes /\ tree.data = new /\ tree.type = kind
  <2>1. At(p).attributes \in Seq(AttributeNames) /\ kind \in Containers
    BY NodeOf, TreeConstants DEF At, TreesSound
  <2> QED BY <1>3, <2>1 DEF Tree, Nodes, Owns
<1>5. Container(kind) \in Cells /\ Container(kind).kind = kind /\ Container(kind).slots = <<>>
  BY <1>4 DEF Container, Cells
<1>6. OrderOf(Container(kind), new)
  BY DEF OrderOf, Container
<1> HIDE DEF tree, kept, V
<1>7. /\ DOMAIN m3 = V \cup {new} /\ m3[new] = Container(kind)
      /\ \A id \in DOMAIN m3 : m3[id] \in Cells
      /\ Keeps(V, heap, m3)
  <2>1. \A id \in V : kept[id] = heap[id] /\ id \in DOMAIN heap /\ id # new
    BY <1>2, <1>3 DEF Keeps
  <2>2. \A id \in V : heap[id] \in Cells
    BY <1>2 DEF TreesSound, CellsTyped
  <2> QED BY <1>2, <1>5, <2>1, <2>2 DEF Keeps
<1> HIDE DEF m3
<1>8. /\ DOMAIN heap' = DOMAIN m3
      /\ \A id \in DOMAIN m3 : heap'[id] \in Cells
      /\ ButFor(p, tree, V, heap, heap')
      /\ \A id \in DOMAIN m3 : id # p[1] => heap'[id] = m3[id]
  <2>1. heap' = Stored(p, tree, m3)
    BY <1>1 DEF tree, m3
  <2> QED BY <1>2, <1>4, <1>7, <2>1, StoredOver
<1>9. heap'[new] = Container(kind)
  <2>1. p[1] \in V
    BY BelowPlace, PlaceIs DEF V
  <2> QED BY <1>3, <1>7, <1>8, <2>1
<1>10. \A x \in Holders(heap') : x[1] \notin {new}
  BY <1>5, <1>9, PlaceIs DEF Holders
<1>11. Rooted(tree.data, {new}, Within({new}, heap'))
  <2>1. DOMAIN Within({new}, heap') = {}
    BY <1>10 DEF Within
  <2> QED BY <1>4, <2>1 DEF Rooted
<1>12. {new} \subseteq 1 .. MaxContainers /\ {new} \cap V = {} /\ DOMAIN heap' = V \cup {new}
  BY <1>3, <1>7, <1>8
<1>13. heap'[tree.data].kind = tree.type /\ \A id \in {new} : OrderOf(heap'[id], id)
  BY <1>4, <1>5, <1>6, <1>9
<1>14. \A x \in Holders(heap') : x[1] \in {new}
         => heap'[NodeAt(x, heap').data].kind = NodeAt(x, heap').type
  BY <1>10
<1>15. \A id \in DOMAIN heap' : heap'[id] \in Cells
  BY <1>8
<1> QED BY <1>2, <1>4, <1>8, <1>11, <1>12, <1>13, <1>14, <1>15, Replaced

LEMMA SetAttributeKeeps ==
  ASSUME TreesSound(heap), NEW p \in Places(heap), NEW key \in AttributeNames,
         SetAttribute(p, key)
  PROVE  TreesSound(heap')
<1> DEFINE old == NodeAt(p, heap)
           tree == [old EXCEPT !.attributes = Append(@, key)]
<1>1. heap' = Stored(p, tree, heap)
  BY DEF SetAttribute, At
<1>2. old \in Nodes
  BY NodeOf DEF TreesSound
<1> HIDE DEF old
<1>3. tree \in Nodes /\ tree.type = old.type /\ tree.data = old.data
  BY <1>2, SMTT(30) DEF Nodes
<1> HIDE DEF tree
<1>4. /\ DOMAIN heap' = DOMAIN heap
      /\ \A id \in DOMAIN heap : heap'[id] \in Cells
      /\ ButFor(p, tree, DOMAIN heap, heap, heap')
  <2>1. /\ DOMAIN Stored(p, tree, heap) = DOMAIN heap
        /\ \A id \in DOMAIN heap : Stored(p, tree, heap)[id] \in Cells
        /\ ButFor(p, tree, DOMAIN heap, heap, Stored(p, tree, heap))
    BY <1>3, StoredIs DEF TreesSound, CellsTyped
  <2> QED BY <1>1, <2>1
<1>5. \A x : x \in Places(heap') <=> x \in Places(heap)
  <2>1. \A x : x \in Places(heap) \/ x \in Places(heap') => x[1] \in DOMAIN heap
    BY <1>4, PlaceIs
  <2> QED BY <1>4, <2>1, SamePlaces
<1>6. \A x \in Places(heap) : /\ NodeAt(x, heap').type = NodeAt(x, heap).type
                              /\ NodeAt(x, heap').data = NodeAt(x, heap).data
  <2>1. \A x \in Places(heap) : x[1] \in DOMAIN heap
    BY PlaceIs
  <2> QED BY <1>3, <1>4, <2>1 DEF ButFor, old
<1>7. \A x : x \in Holders(heap') <=> x \in Holders(heap)
  BY <1>5, <1>6 DEF Holders, Owns
<1>8. \A x \in Holders(heap) : /\ NodeAt(x, heap').type = NodeAt(x, heap).type
                               /\ NodeAt(x, heap').data = NodeAt(x, heap).data
  BY <1>6 DEF Holders
<1>9. OrdersOwn(heap')
  <2>1. \A id \in DOMAIN heap : SameCell(heap[id], heap'[id]) /\ OrderOf(heap[id], id)
    BY <1>4 DEF ButFor, TreesSound, OrdersOwn
  <2> QED BY <1>4, <2>1, OrderKept DEF OrdersOwn
<1>10. \A id \in DOMAIN heap : heap'[id] \in Cells /\ heap'[id].kind = heap[id].kind
  BY <1>4 DEF ButFor, SameCell
<1>11. DOMAIN heap'[0].slots = DOMAIN heap[0].slots
  BY <1>4 DEF ButFor, SameCell, TreesSound, Shaped
<1> QED BY <1>4, <1>7, <1>8, <1>9, <1>10, <1>11, OwnersStay

\* The container of a node that owns one.
LEMMA ContainerOf ==
  ASSUME TreesSound(heap), NEW p \in Places(heap), Owns(At(p))
  PROVE  /\ At(p).data \in DOMAIN heap /\ At(p).data # 0 /\ At(p).data \in Nat
         /\ heap[At(p).data] \in Cells
         /\ heap[At(p).data].kind = At(p).type /\ OrderOf(heap[At(p).data], At(p).data)
<1>1. p \in Holders(heap)
  BY DEF Holders, At
<1>2. At(p).data \in DOMAIN heap /\ At(p).data # 0
  BY <1>1, HoldersShape DEF At
<1>3. At(p).data \in Nat
  BY NodeOf DEF At, TreesSound
<1>4. heap[At(p).data].kind = At(p).type
  BY <1>1 DEF TreesSound, KindsAgree, At
<1> QED BY <1>2, <1>3, <1>4 DEF TreesSound, CellsTyped, OrdersOwn

LEMMA NewKeyKeeps ==
  ASSUME TreesSound(heap), NEW p \in Places(heap), NEW key \in Keys, NewKey(p, key)
  PROVE  TreesSound(heap')
<1> DEFINE id == At(p).data
           old == heap[id]
           entry == Slot(key, UndefinedTree)
           slots == Append(old.slots, entry)
           order == Append(old.order, [key |-> key, at |-> <<id, key>>])
           cell == [old EXCEPT !.slots = slots, !.order = order]
<1>1. Owns(At(p)) /\ At(p).type = "MAP"
  BY DEF NewKey, Owns, Containers
<1>2. id \in DOMAIN heap /\ id # 0 /\ id \in Nat /\ old \in Cells /\ old.kind = "MAP" /\ OrderOf(old, id)
  BY <1>1, ContainerOf
<1>3. /\ \A i \in DOMAIN old.slots : old.slots[i].key # key
      /\ heap' = [heap EXCEPT ![id].slots = slots, ![id].order = order]
  BY DEF NewKey
<1>4. entry \in Entries /\ entry.key = key /\ entry.tree = UndefinedTree /\ ~ Owns(UndefinedTree)
  BY UndefinedNode DEF Entries, Slot
<1>5. old.slots \in Seq(Entries) /\ old.order \in Seq(Ordered)
  BY <1>2 DEF Cells
<1>6. [key |-> key, at |-> <<id, key>>] \in Ordered
  BY <1>2 DEF Ordered
<1>7. DOMAIN heap' = DOMAIN heap /\ heap'[id] = cell /\ \A i \in DOMAIN heap : i # id => heap'[i] = heap[i]
  BY <1>2, <1>3
<1> HIDE DEF entry, id
<1>8. slots \in Seq(Entries) /\ order \in Seq(Ordered)
  BY <1>4, <1>5, <1>6
<1>9. cell \in Cells /\ cell.kind = old.kind /\ cell.slots = slots /\ cell.order = order
  <2> HIDE DEF slots, order
  <2> QED BY <1>2, <1>8 DEF Cells
<1>10. OrderOf(cell, id)
  <2> DEFINE n == Len(old.slots)
  <2>1. /\ n \in Nat /\ DOMAIN old.slots = 1 .. n /\ Len(old.order) = n
        /\ Len(slots) = n + 1 /\ Len(order) = n + 1 /\ DOMAIN slots = 1 .. n + 1
        /\ slots[n + 1] = entry /\ order[n + 1] = [key |-> key, at |-> <<id, key>>]
        /\ \A i \in 1 .. n : slots[i] = old.slots[i] /\ order[i] = old.order[i]
    BY <1>2, <1>5 DEF OrderOf
  <2>2. \A i \in 1 .. n : old.order[i] = [key |-> old.slots[i].key, at |-> <<id, old.slots[i].key>>]
    BY <1>2, <2>1 DEF OrderOf
  <2>3. \A i, j \in 1 .. n : old.slots[i].key = old.slots[j].key => i = j
    BY <1>2, <2>1 DEF OrderOf
  <2> HIDE DEF n, slots, order, cell
  <2>4. \A i \in 1 .. n + 1 : i \in 1 .. n \/ i = n + 1
    BY <2>1
  <2>5. \A i \in 1 .. n + 1 : order[i] = [key |-> slots[i].key, at |-> <<id, slots[i].key>>]
    BY <1>4, <2>1, <2>2, <2>4
  <2>6. \A i \in 1 .. n : slots[i].key # key
    BY <1>3, <2>1 DEF id
  <2>7. \A i, j \in 1 .. n + 1 : slots[i].key = slots[j].key => i = j
    BY <1>4, <2>1, <2>3, <2>4, <2>6, SMTT(30)
  <2> QED BY <1>2, <1>9, <2>1, <2>5, <2>7 DEF OrderOf
<1>11. ~ Owns(entry.tree)
  BY <1>4
<1> HIDE DEF cell
<1> QED BY <1>2, <1>4, <1>7, <1>9, <1>10, <1>11, Grown

LEMMA PushBackKeeps ==
  ASSUME TreesSound(heap), NEW p \in Places(heap), NEW key \in Keys \cup {""}, PushBack(p, key)
  PROVE  TreesSound(heap')
<1> DEFINE id == At(p).data
           old == heap[id]
           entry == Slot(key, UndefinedTree)
           slots == Append(old.slots, entry)
           cell == [old EXCEPT !.slots = slots]
<1>1. Owns(At(p)) /\ At(p).type # "MAP"
  BY DEF PushBack, Owns, Containers
<1>2. id \in DOMAIN heap /\ id # 0 /\ old \in Cells /\ old.kind # "MAP" /\ OrderOf(old, id)
  BY <1>1, ContainerOf
<1>3. heap' = [heap EXCEPT ![id].slots = slots]
  BY DEF PushBack
<1>4. entry \in Entries /\ entry.tree = UndefinedTree /\ ~ Owns(UndefinedTree)
  BY UndefinedNode DEF Entries, Slot
<1>5. old.slots \in Seq(Entries)
  BY <1>2 DEF Cells
<1>6. DOMAIN heap' = DOMAIN heap /\ heap'[id] = cell /\ \A i \in DOMAIN heap : i # id => heap'[i] = heap[i]
  BY <1>2, <1>3
<1> HIDE DEF entry, id
<1>7. slots \in Seq(Entries)
  BY <1>4, <1>5, AppendTyped
<1>8. cell \in Cells /\ cell.kind = old.kind /\ cell.slots = slots /\ cell.order = old.order
  <2> HIDE DEF slots
  <2> QED BY <1>2, <1>7 DEF Cells
<1>9. OrderOf(cell, id)
  <2> HIDE DEF cell
  <2> QED BY <1>2, <1>8 DEF OrderOf
<1>10. ~ Owns(entry.tree)
  BY <1>4
<1> HIDE DEF cell
<1> QED BY <1>2, <1>4, <1>6, <1>8, <1>9, <1>10, Grown

-----------------------------------------------------------------------------
(* Copies and moves.                                                          *)

\* What a node owns in the end depends on those containers alone.
LEMMA BelowFrame ==
  ASSUME NEW m, TreesSound(m), NEW p \in Places(m), NEW m2,
         Keeps(Below(NodeAt(p, m), m), m, m2)
  PROVE  Below(NodeAt(p, m), m2) = Below(NodeAt(p, m), m)
<1>1. CASE ~ Owns(NodeAt(p, m))
  BY <1>1, BelowIsUnder
<1>2. CASE Owns(NodeAt(p, m))
  <2> DEFINE D == Below(NodeAt(p, m), m)
             o == Held(m)
             o2 == Held(m2)
             w == Within(D, m)
             r == NodeAt(p, m).data
  <2>1. p \in DOMAIN o /\ o[p] = r /\ D = Under(r, DOMAIN m, o)
    BY <1>2, HeldIs, BelowIsUnder DEF Holders
  <2>2. DOMAIN w = {x \in DOMAIN o : x[1] \in D} /\ \A x \in DOMAIN w : w[x] = o[x]
    BY HeldIs DEF Within
  <2>3. Rooted(r, D, w)
    <3>1. Shaped(DOMAIN m, o)
      BY DEF TreesSound
    <3> HIDE DEF D, o, w, r
    <3> QED BY <2>1, <2>2, <3>1, UnderRooted
  <2>4. \A x : x[1] \in D => (x \in Holders(m) <=> x \in Holders(m2))
                             /\ (x \in Holders(m) => NodeAt(x, m2) = NodeAt(x, m))
    <3>1. \A i \in D : i \in DOMAIN m /\ i \in DOMAIN m2 /\ m2[i] = m[i]
      BY BelowPlace DEF Keeps
    <3> HIDE DEF D
    <3> QED BY <3>1, PlaceIs DEF Holders, NodeAt
  <2>5. \A x \in DOMAIN o2 : x[1] \in D => x \in DOMAIN w
    BY <2>2, <2>4, HeldIs
  <2>6. \A x \in DOMAIN w : x \in DOMAIN o2 /\ o2[x] = w[x]
    BY <2>2, <2>4, HeldIs
  <2>7. D \subseteq DOMAIN m2
    BY DEF Keeps
  <2>8. Below(NodeAt(p, m), m2) = Under(r, DOMAIN m2, o2)
    BY <1>2, BelowIsUnder
  <2> HIDE DEF D, o2, w, r
  <2>9. Under(r, DOMAIN m2, o2) = D
    BY <2>3, <2>5, <2>6, <2>7, RootedUnder
  <2> QED BY <2>8, <2>9 DEF D
<1> QED BY <1>1, <1>2

\* Neither of two nodes is in the other: they own nothing in common.
LEMMA ApartBelow ==
  ASSUME TreesSound(heap), NEW p \in Places(heap), NEW q \in Places(heap), Apart(p, q)
  PROVE  /\ p # q /\ p[1] \notin Below(At(q), heap) /\ q[1] \notin Below(At(p), heap)
         /\ Below(At(p), heap) \cap Below(At(q), heap) = {}
<1>1. p # q /\ p[1] \notin Below(At(q), heap) /\ q[1] \notin Below(At(p), heap)
  BY DEF Apart, PlacesIn
<1>2. CASE ~ Owns(At(p)) \/ ~ Owns(At(q))
  BY <1>1, <1>2, BelowIsUnder
<1>3. CASE Owns(At(p)) /\ Owns(At(q))
  <2> DEFINE o == Held(heap)
  <2>1. /\ p \in DOMAIN o /\ Below(At(p), heap) = Under(o[p], DOMAIN heap, o)
        /\ q \in DOMAIN o /\ Below(At(q), heap) = Under(o[q], DOMAIN heap, o)
    BY <1>3, HeldIs, BelowIsUnder DEF Holders, At
  <2>2. Shaped(DOMAIN heap, o)
    BY DEF TreesSound
  <2> HIDE DEF o
  <2> QED BY <1>1, <2>1, <2>2, NothingInCommon
<1> QED BY <1>1, <1>2, <1>3

\* The copy of a container.
LEMMA CopyCell ==
  ASSUME NEW c \in Cells, NEW id \in Nat, NEW at,
         \A k \in DOMAIN c.slots : Owns(c.slots[k].tree) => at[c.slots[k].tree.data] \in Nat
  PROVE  /\ CopyOf(c, id, at) \in Cells /\ CopyOf(c, id, at).kind = c.kind
         /\ CopyOf(c, id, at).slots = RelocatedSlots(c.slots, at)
         /\ CopyOf(c, id, at).order
              = [i \in DOMAIN c.order |-> [key |-> c.order[i].key, at |-> <<id, c.order[i].key>>]]
<1> DEFINE slots == RelocatedSlots(c.slots, at)
           order == [i \in DOMAIN c.order |->
                       [key |-> c.order[i].key, at |-> <<id, c.order[i].key>>]]
           n == Len(c.slots)
           l == Len(c.order)
<1>1. /\ c.slots \in Seq(Entries) /\ n \in Nat /\ DOMAIN c.slots = 1 .. n
      /\ \A k \in 1 .. n : c.slots[k].tree \in Nodes /\ c.slots[k].key \in Keys \cup {""}
      /\ c.order \in Seq(Ordered)
  BY CellOf
<1>2. ASSUME NEW k \in 1 .. n PROVE Slot(c.slots[k].key, Relocated(c.slots[k].tree, at)) \in Entries
  <2> DEFINE tree == c.slots[k].tree
             key == c.slots[k].key
  <2>1. tree \in Nodes /\ key \in Keys \cup {""} /\ (Owns(tree) => at[tree.data] \in Nat)
    BY <1>1
  <2> HIDE DEF tree, key
  <2>2. Relocated(tree, at) \in Nodes
    BY <2>1 DEF Relocated, Nodes
  <2>3. Slot(key, Relocated(tree, at)) \in Entries
    BY <2>1, <2>2 DEF Slot, Entries
  <2> QED BY <2>3 DEF tree, key
<1>3. slots \in Seq(Entries)
  <2>1. slots = [k \in 1 .. n |-> Slot(c.slots[k].key, Relocated(c.slots[k].tree, at))]
    BY <1>1 DEF RelocatedSlots
  <2> HIDE DEF n, slots
  <2>2. slots = [k \in 1 .. n |-> slots[k]] /\ \A k \in 1 .. n : slots[k] \in Entries
    BY <1>2, <2>1
  <2> QED BY <1>1, <2>2, SequenceMade
<1>4. order \in Seq(Ordered)
  <2> DEFINE old == c.order
  <2>1. l \in Nat /\ DOMAIN old = 1 .. l /\ \A i \in 1 .. l : old[i] \in Ordered
    BY <1>1, SequenceIs
  <2> HIDE DEF old
  <2>2. \A i \in 1 .. l : [key |-> old[i].key, at |-> <<id, old[i].key>>] \in Ordered
    BY <2>1 DEF Ordered
  <2>3. order = [i \in 1 .. l |-> [key |-> old[i].key, at |-> <<id, old[i].key>>]]
    BY <2>1 DEF old
  <2> HIDE DEF order, l
  <2>4. order = [i \in 1 .. l |-> order[i]] /\ \A i \in 1 .. l : order[i] \in Ordered
    BY <2>2, <2>3
  <2> QED BY <2>1, <2>4, SequenceMade
<1>5. CopyOf(c, id, at) = [c EXCEPT !.order = order, !.slots = slots]
  BY DEF CopyOf, Reordered, Cells
<1> HIDE DEF slots, order
<1>6. /\ CopyOf(c, id, at) \in Cells /\ CopyOf(c, id, at).kind = c.kind
      /\ CopyOf(c, id, at).slots = slots /\ CopyOf(c, id, at).order = order
  BY <1>3, <1>4, <1>5 DEF Cells
<1> QED BY <1>6 DEF slots, order

LEMMA RelocatedSlotsAre ==
  ASSUME NEW slots, NEW at
  PROVE  /\ DOMAIN RelocatedSlots(slots, at) = DOMAIN slots
         /\ \A k \in DOMAIN slots :
              /\ RelocatedSlots(slots, at)[k].key = slots[k].key
              /\ RelocatedSlots(slots, at)[k].tree = Relocated(slots[k].tree, at)
  BY DEF RelocatedSlots, Slot

LEMMA RelocatedIs ==
  ASSUME NEW tree \in Nodes, NEW at
  PROVE  /\ Relocated(tree, at).type = tree.type
         /\ Owns(Relocated(tree, at)) <=> Owns(tree)
         /\ Owns(tree) => Relocated(tree, at).data = at[tree.data]
         /\ ~ Owns(tree) => Relocated(tree, at) = tree
         /\ Owns(tree) /\ at[tree.data] \in Nat => Relocated(tree, at) \in Nodes
  BY DEF Relocated, Nodes, Owns

\* Its order points at its own nodes.
LEMMA CopyOrder ==
  ASSUME NEW c \in Cells, NEW id \in Nat, NEW at, NEW old, OrderOf(c, old),
         \A k \in DOMAIN c.slots : Owns(c.slots[k].tree) => at[c.slots[k].tree.data] \in Nat
  PROVE  OrderOf(CopyOf(c, id, at), id)
<1> DEFINE d == CopyOf(c, id, at)
           n == Len(c.slots)
<1>1. /\ n \in Nat /\ DOMAIN c.slots = 1 .. n /\ c.order \in Seq(Ordered) /\ c.slots \in Seq(Entries)
  BY CellOf
<1>2. /\ d \in Cells /\ d.kind = c.kind /\ d.slots = RelocatedSlots(c.slots, at)
      /\ d.order = [i \in DOMAIN c.order |-> [key |-> c.order[i].key, at |-> <<id, c.order[i].key>>]]
  BY CopyCell
<1>3. DOMAIN d.slots = 1 .. n /\ \A k \in 1 .. n : d.slots[k].key = c.slots[k].key
  BY <1>1, <1>2, RelocatedSlotsAre
<1>4. d.slots \in Seq(Entries) /\ d.order \in Seq(Ordered)
  BY <1>2, CellOf
<1> HIDE DEF d
<1>5. Len(d.slots) = n
  BY <1>1, <1>3, <1>4
<1>6. CASE c.kind = "MAP"
  <2>1. /\ Len(c.order) = n
        /\ \A i, j \in 1 .. n : c.slots[i].key = c.slots[j].key => i = j
        /\ \A i \in 1 .. n : c.order[i] = [key |-> c.slots[i].key, at |-> <<old, c.slots[i].key>>]
    BY <1>1, <1>6 DEF OrderOf
  <2>2. DOMAIN c.order = 1 .. n /\ \A i \in 1 .. n : c.order[i].key = c.slots[i].key
    <3>1. DOMAIN c.order = 1 .. n
      BY <1>1, <2>1, SequenceIs
    <3>2. ASSUME NEW i \in 1 .. n PROVE c.order[i].key = c.slots[i].key
      <4>1. c.order[i] = [key |-> c.slots[i].key, at |-> <<old, c.slots[i].key>>]
        BY <2>1
      <4> DEFINE e == c.order[i]
                 key == c.slots[i].key
      <4>2. e = [key |-> key, at |-> <<old, key>>]
        BY <4>1
      <4> HIDE DEF e, key
      <4>3. e.key = key
        BY <4>2
      <4> QED BY <4>3 DEF e, key
    <3> HIDE DEF n
    <3> QED BY <3>1, <3>2
  <2>3. \A i \in 1 .. n : d.order[i] = [key |-> d.slots[i].key, at |-> <<id, d.slots[i].key>>]
    <3> TAKE i \in 1 .. n
    <3>1. /\ d.slots[i].key = c.slots[i].key /\ c.order[i].key = c.slots[i].key
          /\ i \in DOMAIN c.order
      BY <1>3, <2>2
    <3>2. d.order[i] = [key |-> c.order[i].key, at |-> <<id, c.order[i].key>>]
      BY <1>2, <3>1
    <3> QED BY <3>1, <3>2
  <2>4. Len(d.order) = n
    <3>1. DOMAIN d.order = 1 .. n
      BY <1>2, <2>2
    <3> QED BY <1>1, <1>4, <3>1, SequenceIs
  <2>5. \A i, j \in 1 .. n : d.slots[i].key = d.slots[j].key => i = j
    BY <1>3, <2>1
  <2> HIDE DEF n
  <2>6. OrderOf(d, id)
    BY <1>2, <1>3, <1>5, <1>6, <2>3, <2>4, <2>5 DEF OrderOf
  <2> QED BY <2>6 DEF d
<1>7. CASE c.kind # "MAP"
  <2>1. c.order = <<>>
    BY <1>7 DEF OrderOf
  <2>2. DOMAIN d.order = {}
    BY <1>2, <2>1
  <2>3. d.order = <<>>
    BY <1>4, <2>2, SequenceIs
  <2> QED BY <1>2, <1>7, <2>3 DEF OrderOf, d
<1> QED BY <1>6, <1>7 DEF d

Rest(p) == DOMAIN heap \ Below(At(p), heap)
Copies(at) == {at[i] : i \in DOMAIN at}

\* What the memory is after a copy.
LEMMA AllocationsAre ==
  ASSUME TreesSound(heap), NEW p \in Places(heap), NEW q \in Places(heap), NEW at \in Allocations(p, q)
  PROVE  /\ DOMAIN at = Below(At(q), heap)
         /\ \A i, j \in DOMAIN at : at[i] = at[j] => i = j
         /\ \A i \in DOMAIN at : at[i] \in Nat
         /\ Copies(at) \subseteq 1 .. MaxContainers /\ Copies(at) \cap Rest(p) = {}
<1>1. /\ at \in [Below(At(q), heap) -> FreeIds(deleteValueObject(At(p), heap))]
      /\ \A i, j \in DOMAIN at : at[i] = at[j] => i = j
  BY DEF Allocations
<1>2. FreeIds(deleteValueObject(At(p), heap)) = 1 .. MaxContainers \ Rest(p)
  BY DeletedKeeps DEF FreeIds, Rest
<1>3. \A i \in DOMAIN at : at[i] \in 1 .. MaxContainers /\ at[i] \notin Rest(p)
  BY <1>1, <1>2
<1>4. \A n \in 1 .. MaxContainers : n \in Nat
  BY TreeConstants
<1> QED BY <1>1, <1>3, <1>4 DEF Copies

\* The nodes of a container that is copied own containers that are copied.
LEMMA InnerCopied ==
  ASSUME TreesSound(heap), NEW p \in Places(heap), NEW q \in Places(heap), NEW at \in Allocations(p, q),
         NEW i \in DOMAIN at
  PROVE  /\ i \in DOMAIN heap /\ heap[i] \in Cells /\ OrderOf(heap[i], i)
         /\ \A k \in DOMAIN heap[i].slots :
              Owns(heap[i].slots[k].tree) => /\ heap[i].slots[k].tree.data \in DOMAIN at
                                             /\ at[heap[i].slots[k].tree.data] \in Nat
<1> DEFINE C == Below(At(q), heap)
<1>1. DOMAIN at = C /\ \A j \in C : at[j] \in Nat
  BY AllocationsAre
<1>2. /\ C \subseteq DOMAIN heap
      /\ \A x \in Holders(heap) : x[1] \in C => NodeAt(x, heap).data \in C
  BY BelowPlace DEF At
<1> HIDE DEF C
<1>3. i \in DOMAIN heap /\ heap[i] \in Cells /\ OrderOf(heap[i], i)
  BY <1>1, <1>2 DEF TreesSound, CellsTyped, OrdersOwn
<1>4. ASSUME NEW k \in DOMAIN heap[i].slots, Owns(heap[i].slots[k].tree)
      PROVE  heap[i].slots[k].tree.data \in C
  <2>1. <<i, k>> \in Holders(heap) /\ NodeAt(<<i, k>>, heap) = heap[i].slots[k].tree
    BY <1>3, <1>4, PlaceIs DEF Holders, NodeAt
  <2> QED BY <1>1, <1>2, <2>1
<1> QED BY <1>1, <1>3, <1>4

LEMMA CopyIs ==
  ASSUME TreesSound(heap), NEW p \in Places(heap), NEW q \in Places(heap), NEW at \in Allocations(p, q)
  PROVE  /\ DOMAIN AfterCopy(p, q, at) = Rest(p) \cup Copies(at)
         /\ \A id \in Rest(p) \cup Copies(at) : AfterCopy(p, q, at)[id] \in Cells
         /\ ButFor(p, Relocated(At(q), at), Rest(p), heap, AfterCopy(p, q, at))
         /\ \A id \in Rest(p) : id # p[1] => AfterCopy(p, q, at)[id] = heap[id]
         /\ \A i \in DOMAIN at : AfterCopy(p, q, at)[at[i]] = CopyOf(heap[i], at[i], at)
<1> DEFINE kept == deleteValueObject(At(p), heap)
           V == Rest(p)
           E == Copies(at)
           old == [id \in E |-> CHOOSE i \in DOMAIN at : at[i] = id]
           m3 == [id \in DOMAIN kept \cup E |->
                    IF id \in E
                    THEN CopyOf(heap[CHOOSE i \in DOMAIN at : at[i] = id], id, at)
                    ELSE kept[id]]
           tree == Relocated(At(q), at)
<1>1. /\ DOMAIN at = Below(At(q), heap)
      /\ \A i, j \in DOMAIN at : at[i] = at[j] => i = j
      /\ \A i \in DOMAIN at : at[i] \in Nat
      /\ E \cap V = {}
  BY AllocationsAre
<1>2. DOMAIN kept = V /\ Keeps(V, heap, kept) /\ V = DOMAIN heap \ Below(NodeAt(p, heap), heap)
  BY DeletedKeeps DEF At, Rest
<1>3. AfterCopy(p, q, at) = Stored(p, tree, m3)
  BY DEF AfterCopy, Copies
<1>4. /\ \A i \in DOMAIN at : at[i] \in E /\ old[at[i]] = i
      /\ \A id \in E : old[id] \in DOMAIN at /\ at[old[id]] = id
  BY <1>1 DEF Copies
<1>5. \A i \in DOMAIN at : CopyOf(heap[i], at[i], at) \in Cells
  <2> TAKE i \in DOMAIN at
  <2>1. heap[i] \in Cells /\ \A k \in DOMAIN heap[i].slots :
          Owns(heap[i].slots[k].tree) => at[heap[i].slots[k].tree.data] \in Nat
    BY InnerCopied
  <2> QED BY <1>1, <2>1, CopyCell
<1>6. tree \in Nodes
  <2>1. At(q) \in Nodes
    BY NodeOf DEF At, TreesSound
  <2>2. Owns(At(q)) => At(q).data \in DOMAIN at
    <3> SUFFICES ASSUME Owns(At(q)) PROVE At(q).data \in DOMAIN at
      OBVIOUS
    <3>1. /\ At(q).data \in DOMAIN heap /\ Below(At(q), heap) = Under(At(q).data, DOMAIN heap, Held(heap))
          /\ \A x \in DOMAIN Held(heap) : Held(heap)[x] \in DOMAIN heap
      BY ContainerOf, BelowIsUnder DEF TreesSound, Shaped
    <3> QED BY <1>1, <3>1, UnderShut
  <2> QED BY <1>1, <2>1, <2>2, RelocatedIs
<1>7. \A id \in E : m3[id] = CopyOf(heap[old[id]], id, at)
  OBVIOUS
<1> HIDE DEF kept, tree, old
<1>8. /\ DOMAIN m3 = V \cup E /\ Keeps(V, heap, m3)
      /\ \A i \in DOMAIN at : m3[at[i]] = CopyOf(heap[i], at[i], at)
      /\ \A id \in V \cup E : m3[id] \in Cells
  <2>1. \A id \in V : m3[id] = heap[id] /\ id \in DOMAIN heap
    BY <1>1, <1>2 DEF Keeps
  <2>2. \A id \in V : heap[id] \in Cells
    BY <2>1 DEF TreesSound, CellsTyped
  <2>3. \A id \in E : m3[id] = CopyOf(heap[old[id]], id, at)
    BY <1>7
  <2>4. DOMAIN m3 = V \cup E
    BY <1>2
  <2> HIDE DEF m3, V, E
  <2>5. \A i \in DOMAIN at : m3[at[i]] = CopyOf(heap[i], at[i], at)
    BY <1>4, <2>3
  <2>6. \A id \in E : m3[id] \in Cells
    BY <1>4, <1>5, <2>3
  <2> QED BY <2>1, <2>2, <2>4, <2>5, <2>6 DEF Keeps
<1> HIDE DEF m3
<1>9. p[1] \in V
  BY BelowPlace, PlaceIs DEF Rest, At
<1> HIDE DEF V, E
<1>10. \A id \in DOMAIN m3 : m3[id] \in Cells
  BY <1>8
<1>11. /\ DOMAIN AfterCopy(p, q, at) = DOMAIN m3
       /\ \A id \in DOMAIN m3 : AfterCopy(p, q, at)[id] \in Cells
       /\ ButFor(p, tree, V, heap, AfterCopy(p, q, at))
       /\ \A id \in DOMAIN m3 : id # p[1] => AfterCopy(p, q, at)[id] = m3[id]
  BY <1>2, <1>3, <1>6, <1>8, <1>10, StoredOver
<1>12. \A id \in V : id # p[1] => AfterCopy(p, q, at)[id] = heap[id]
  BY <1>8, <1>11 DEF Keeps
<1>13. \A i \in DOMAIN at : AfterCopy(p, q, at)[at[i]] = CopyOf(heap[i], at[i], at)
  BY <1>1, <1>4, <1>8, <1>9, <1>11
<1> QED BY <1>8, <1>11, <1>12, <1>13 DEF V, E, tree

\* The nodes of the copies are those of the originals, relocated.
LEMMA CopiedNodes ==
  ASSUME TreesSound(heap), NEW p \in Places(heap), NEW q \in Places(heap), NEW at \in Allocations(p, q)
  PROVE  /\ \A x \in Places(heap) : x[1] \in DOMAIN at =>
              /\ <<at[x[1]], x[2]>> \in Places(AfterCopy(p, q, at))
              /\ NodeAt(<<at[x[1]], x[2]>>, AfterCopy(p, q, at)) = Relocated(NodeAt(x, heap), at)
         /\ \A y \in Places(AfterCopy(p, q, at)) : y[1] \in Copies(at) =>
              \E x \in Places(heap) : x[1] \in DOMAIN at /\ y = <<at[x[1]], x[2]>>
<1> DEFINE m2 == AfterCopy(p, q, at)
<1>1. \A i \in DOMAIN at : /\ i \in DOMAIN heap /\ at[i] \in DOMAIN m2
                           /\ m2[at[i]].slots = RelocatedSlots(heap[i].slots, at)
  <2> TAKE i \in DOMAIN at
  <2>1. /\ i \in DOMAIN heap /\ heap[i] \in Cells /\ at[i] \in Nat
        /\ \A k \in DOMAIN heap[i].slots :
             Owns(heap[i].slots[k].tree) => at[heap[i].slots[k].tree.data] \in Nat
    BY InnerCopied, AllocationsAre
  <2>2. m2[at[i]] = CopyOf(heap[i], at[i], at) /\ DOMAIN m2 = Rest(p) \cup Copies(at)
    BY CopyIs
  <2>3. at[i] \in Copies(at)
    BY DEF Copies
  <2>4. CopyOf(heap[i], at[i], at).slots = RelocatedSlots(heap[i].slots, at)
    BY <2>1, CopyCell
  <2> HIDE DEF m2
  <2> QED BY <2>1, <2>2, <2>3, <2>4
<1> HIDE DEF m2
<1>2. ASSUME NEW x \in Places(heap), x[1] \in DOMAIN at
      PROVE  /\ <<at[x[1]], x[2]>> \in Places(m2)
             /\ NodeAt(<<at[x[1]], x[2]>>, m2) = Relocated(NodeAt(x, heap), at)
  <2>1. x[2] \in DOMAIN heap[x[1]].slots
    BY PlaceIs
  <2>2. /\ x[2] \in DOMAIN m2[at[x[1]]].slots
        /\ m2[at[x[1]]].slots[x[2]].tree = Relocated(heap[x[1]].slots[x[2]].tree, at)
    BY <1>1, <1>2, <2>1, RelocatedSlotsAre
  <2> QED BY <1>1, <1>2, <2>2, PlaceIs DEF NodeAt
<1>3. ASSUME NEW y \in Places(m2), y[1] \in Copies(at)
      PROVE  \E x \in Places(heap) : x[1] \in DOMAIN at /\ y = <<at[x[1]], x[2]>>
  <2>1. PICK i \in DOMAIN at : y[1] = at[i]
    BY <1>3 DEF Copies
  <2>2. y[2] \in DOMAIN heap[i].slots /\ y = <<y[1], y[2]>>
    BY <1>1, <2>1, PlaceIs, RelocatedSlotsAre
  <2>3. <<i, y[2]>> \in Places(heap)
    BY <1>1, <2>2, PlaceIs
  <2> QED BY <2>1, <2>2, <2>3
<1> QED BY <1>2, <1>3 DEF m2

LEMMA CopyRooted ==
  ASSUME TreesSound(heap), NEW p \in Places(heap), NEW q \in Places(heap), NEW at \in Allocations(p, q),
         Owns(At(q))
  PROVE  /\ Rooted(at[At(q).data], Copies(at), Within(Copies(at), AfterCopy(p, q, at)))
         /\ At(q).data \in DOMAIN at
<1> DEFINE m2 == AfterCopy(p, q, at)
           C == DOMAIN at
           r == At(q).data
           w == Within(C, heap)
           w2 == Within(Copies(at), m2)
           o == Held(heap)
<1>1. C = Below(At(q), heap) /\ \A i, j \in C : at[i] = at[j] => i = j
  BY AllocationsAre
<1>2. q \in DOMAIN o /\ o[q] = r /\ C = Under(r, DOMAIN heap, o) /\ Shaped(DOMAIN heap, o)
  BY <1>1, HeldIs, BelowIsUnder DEF Holders, At, TreesSound
<1>3. DOMAIN w = {x \in DOMAIN o : x[1] \in C} /\ \A x \in DOMAIN w : w[x] = o[x]
  BY HeldIs DEF Within
<1>4. Rooted(r, C, w)
  <2> HIDE DEF C, r, w, o
  <2> QED BY <1>2, <1>3, UnderRooted
<1>5. DOMAIN w = {x \in Holders(heap) : x[1] \in C} /\ \A x \in DOMAIN w : w[x] = NodeAt(x, heap).data
  BY DEF Within
<1>6. DOMAIN w2 = {x \in Holders(m2) : x[1] \in Copies(at)} /\ \A x \in DOMAIN w2 : w2[x] = NodeAt(x, m2).data
  BY DEF Within
<1>7. \A x \in Places(heap) : x[1] \in C =>
        <<at[x[1]], x[2]>> \in Places(m2) /\ NodeAt(<<at[x[1]], x[2]>>, m2) = Relocated(NodeAt(x, heap), at)
  BY CopiedNodes
<1>8. \A y \in Places(m2) : y[1] \in Copies(at) =>
        \E x \in Places(heap) : x[1] \in C /\ y = <<at[x[1]], x[2]>>
  BY CopiedNodes
<1>9. \A x \in Places(heap) : NodeAt(x, heap) \in Nodes
  BY NodeOf DEF TreesSound
<1>10. \A i \in C : at[i] \in Copies(at)
  BY DEF Copies
<1> HIDE DEF m2, C, r, w, w2, o
<1>11. \A x \in DOMAIN w : /\ <<at[x[1]], x[2]>> \in DOMAIN w2
                           /\ w2[<<at[x[1]], x[2]>>] = at[w[x]]
  <2> TAKE x \in DOMAIN w
  <2>1. x \in Places(heap) /\ x[1] \in C /\ Owns(NodeAt(x, heap)) /\ w[x] = NodeAt(x, heap).data
    BY <1>5 DEF Holders
  <2> DEFINE y == <<at[x[1]], x[2]>>
  <2>2. y \in Places(m2) /\ NodeAt(y, m2) = Relocated(NodeAt(x, heap), at) /\ y[1] \in Copies(at)
    BY <1>7, <1>10, <2>1
  <2> HIDE DEF y
  <2>3. Owns(NodeAt(y, m2)) /\ NodeAt(y, m2).data = at[w[x]]
    BY <1>9, <2>1, <2>2, RelocatedIs
  <2>4. y \in DOMAIN w2 /\ w2[y] = at[w[x]]
    BY <1>6, <2>2, <2>3 DEF Holders
  <2> QED BY <2>4 DEF y
<1>12. \A y \in DOMAIN w2 : \E x \in DOMAIN w : y = <<at[x[1]], x[2]>>
  <2> TAKE y \in DOMAIN w2
  <2>1. y \in Places(m2) /\ y[1] \in Copies(at) /\ Owns(NodeAt(y, m2))
    BY <1>6 DEF Holders
  <2>2. PICK x \in Places(heap) : x[1] \in C /\ y = <<at[x[1]], x[2]>>
    BY <1>8, <2>1
  <2>3. NodeAt(y, m2) = Relocated(NodeAt(x, heap), at)
    BY <1>7, <2>2
  <2>4. Owns(NodeAt(x, heap))
    BY <1>9, <2>1, <2>3, RelocatedIs
  <2> QED BY <1>5, <2>2, <2>4 DEF Holders
<1>13. Elsewhere(at, w, w2)
  BY <1>1, <1>11, <1>12 DEF Elsewhere, C
<1>14. Rooted(at[r], {at[i] : i \in C}, w2)
  BY <1>4, <1>13, ElsewhereRooted DEF C
<1>15. r \in C
  BY <1>4 DEF Rooted
<1> QED BY <1>14, <1>15 DEF Copies, C, r, w2, m2

LEMMA CopyKeeps ==
  ASSUME TreesSound(heap), NEW p \in Places(heap), NEW q \in Places(heap), NEW at \in Allocations(p, q)
  PROVE  TreesSound(AfterCopy(p, q, at))
<1> DEFINE m2 == AfterCopy(p, q, at)
           tree == Relocated(At(q), at)
           V == DOMAIN heap \ Below(NodeAt(p, heap), heap)
           E == Copies(at)
<1>1. DOMAIN m2 = V \cup E /\ (\A id \in DOMAIN m2 : m2[id] \in Cells) /\ ButFor(p, tree, V, heap, m2)
  BY CopyIs DEF Rest, At
<1>2. E \subseteq 1 .. MaxContainers /\ E \cap V = {}
  BY AllocationsAre DEF Rest, At
<1>3. At(q) \in Nodes
  BY NodeOf DEF At, TreesSound
<1>4. CASE ~ Owns(At(q))
  <2>1. DOMAIN at = {}
    BY <1>4, AllocationsAre, BelowIsUnder
  <2>2. E = {}
    BY <2>1 DEF Copies
  <2>3. ~ Owns(tree)
    BY <1>3, <1>4, RelocatedIs
  <2>4. DOMAIN m2 = V
    BY <1>1, <2>2
  <2> HIDE DEF m2, tree
  <2>5. TreesSound(m2)
    BY <1>1, <2>3, <2>4, StoredNothing
  <2> QED BY <2>5 DEF m2
<1>5. CASE Owns(At(q))
  <2>1. Rooted(at[At(q).data], E, Within(E, m2)) /\ At(q).data \in DOMAIN at
    BY <1>5, CopyRooted
  <2>2. Owns(tree) /\ tree.data = at[At(q).data] /\ tree.type = At(q).type
    BY <1>3, <1>5, RelocatedIs
  <2>3. ASSUME NEW i \in DOMAIN at
        PROVE  m2[at[i]].kind = heap[i].kind /\ OrderOf(m2[at[i]], at[i])
    <3>1. /\ heap[i] \in Cells /\ OrderOf(heap[i], i) /\ at[i] \in Nat
          /\ \A k \in DOMAIN heap[i].slots :
               Owns(heap[i].slots[k].tree) => at[heap[i].slots[k].tree.data] \in Nat
      BY InnerCopied, AllocationsAre
    <3>2. m2[at[i]] = CopyOf(heap[i], at[i], at)
      BY CopyIs
    <3>3. CopyOf(heap[i], at[i], at).kind = heap[i].kind
      <4> DEFINE c == heap[i]
                 id == at[i]
      <4>1. c \in Cells /\ id \in Nat /\ \A k \in DOMAIN c.slots :
              Owns(c.slots[k].tree) => at[c.slots[k].tree.data] \in Nat
        BY <3>1
      <4> HIDE DEF c, id
      <4>2. CopyOf(c, id, at).kind = c.kind
        BY <4>1, CopyCell
      <4> QED BY <4>2 DEF c, id
    <3>4. OrderOf(CopyOf(heap[i], at[i], at), at[i])
      BY <3>1, CopyOrder
    <3> QED BY <3>2, <3>3, <3>4
  <2>4. m2[tree.data].kind = tree.type
    BY <1>5, <2>1, <2>2, <2>3, ContainerOf
  <2>5. \A x \in Holders(m2) : x[1] \in E => m2[NodeAt(x, m2).data].kind = NodeAt(x, m2).type
    <3> SUFFICES ASSUME NEW y \in Holders(m2), y[1] \in E
                 PROVE  m2[NodeAt(y, m2).data].kind = NodeAt(y, m2).type
      OBVIOUS
    <3>1. y \in Places(m2) /\ Owns(NodeAt(y, m2))
      BY DEF Holders
    <3>2. PICK x \in Places(heap) : x[1] \in DOMAIN at /\ y = <<at[x[1]], x[2]>>
      BY <3>1, CopiedNodes
    <3>3. NodeAt(y, m2) = Relocated(NodeAt(x, heap), at)
      BY <3>2, CopiedNodes
    <3>4. NodeAt(x, heap) \in Nodes
      BY NodeOf DEF TreesSound
    <3> HIDE DEF m2
    <3>5. /\ Owns(NodeAt(x, heap)) /\ NodeAt(y, m2).type = NodeAt(x, heap).type
          /\ NodeAt(y, m2).data = at[NodeAt(x, heap).data]
      BY <3>1, <3>3, <3>4, RelocatedIs
    <3>6. NodeAt(x, heap).data \in DOMAIN at
      <4>1. x[2] \in DOMAIN heap[x[1]].slots
        BY PlaceIs
      <4> QED BY <3>2, <3>5, <4>1, InnerCopied DEF NodeAt
    <3>7. heap[NodeAt(x, heap).data].kind = NodeAt(x, heap).type
      BY <3>5, ContainerOf DEF At
    <3> QED BY <2>3, <3>5, <3>6, <3>7
  <2>6. \A id \in E : OrderOf(m2[id], id)
    BY <2>3 DEF Copies
  <2> HIDE DEF m2, tree, E
  <2>7. TreesSound(m2)
    BY <1>1, <1>2, <2>1, <2>2, <2>4, <2>5, <2>6, Replaced
  <2> QED BY <2>7 DEF m2
<1> QED BY <1>4, <1>5

NullTree == Tree("NULL_VALUE", 0, <<>>)

LEMMA NullNode == NullTree \in Nodes /\ ~ Owns(NullTree)
<1>1. <<>> \in Seq(AttributeNames)
  OBVIOUS
<1>2. "NULL_VALUE" \in Leaves \cup {"UNDEFINED", "NULL_VALUE"}
  OBVIOUS
<1> QED BY <1>1, <1>2, LeafNode DEF NullTree

\* A memory without what a node owned in the end.
LEMMA KeptIs ==
  ASSUME TreesSound(heap), NEW p \in Places(heap)
  PROVE  /\ DOMAIN deleteValueObject(At(p), heap) = Rest(p)
         /\ \A id \in Rest(p) : id \in DOMAIN heap /\ deleteValueObject(At(p), heap)[id] = heap[id]
         /\ \A id \in DOMAIN deleteValueObject(At(p), heap) : deleteValueObject(At(p), heap)[id] \in Cells
         /\ \A x \in Places(heap) : x[1] \in Rest(p) =>
              /\ x \in Places(deleteValueObject(At(p), heap))
              /\ NodeAt(x, deleteValueObject(At(p), heap)) = NodeAt(x, heap)
         /\ p[1] \in Rest(p)
<1> DEFINE kept == deleteValueObject(At(p), heap)
<1>1. DOMAIN kept = Rest(p) /\ \A id \in Rest(p) : id \in DOMAIN heap /\ kept[id] = heap[id]
  BY DeletedKeeps DEF Rest, Keeps
<1> HIDE DEF kept
<1>2. \A id \in DOMAIN kept : kept[id] \in Cells
  BY <1>1 DEF TreesSound, CellsTyped
<1>3. \A x \in Places(heap) : x[1] \in Rest(p) => x \in Places(kept) /\ NodeAt(x, kept) = NodeAt(x, heap)
  BY <1>1, PlaceIs DEF NodeAt
<1>4. p[1] \in Rest(p)
  BY BelowPlace, PlaceIs DEF Rest, At
<1> QED BY <1>1, <1>2, <1>3, <1>4 DEF kept

\* What the memory is after a move.
LEMMA MoveIs ==
  ASSUME TreesSound(heap), NEW p \in Places(heap), NEW q \in Places(heap), Apart(p, q)
  PROVE  /\ DOMAIN AfterMove(p, q) = Rest(p)
         /\ \A id \in Rest(p) : AfterMove(p, q)[id] \in Cells /\ SameCell(heap[id], AfterMove(p, q)[id])
         /\ \A id \in Rest(p) : id # p[1] /\ id # q[1] => AfterMove(p, q)[id] = heap[id]
         /\ \A x \in Places(heap) : x[1] \in Rest(p) /\ x # p /\ x # q =>
              NodeAt(x, AfterMove(p, q)) = NodeAt(x, heap)
         /\ NodeAt(p, AfterMove(p, q)) = At(q) /\ NodeAt(q, AfterMove(p, q)) = NullTree
<1> DEFINE V == Rest(p)
           kept == deleteValueObject(At(p), heap)
           m1 == Stored(q, NullTree, kept)
           m2 == Stored(p, At(q), m1)
<1>1. AfterMove(p, q) = m2
  BY DEF AfterMove, NullTree
<1>2. /\ DOMAIN kept = V
      /\ \A id \in V : id \in DOMAIN heap /\ kept[id] = heap[id]
      /\ \A id \in DOMAIN kept : kept[id] \in Cells
      /\ \A x \in Places(heap) : x[1] \in V => x \in Places(kept) /\ NodeAt(x, kept) = NodeAt(x, heap)
      /\ p[1] \in V
  BY KeptIs
<1>3. p # q /\ q[1] \in V
  BY ApartBelow, PlaceIs DEF Rest
<1>4. At(q) \in Nodes /\ NullTree \in Nodes
  BY NodeOf, NullNode DEF At, TreesSound
<1> HIDE DEF V, kept
<1>5. /\ DOMAIN m1 = DOMAIN kept /\ \A id \in DOMAIN kept : m1[id] \in Cells
      /\ ButFor(q, NullTree, DOMAIN kept, kept, m1)
      /\ \A id \in DOMAIN kept : id # q[1] => m1[id] = kept[id]
  BY <1>2, <1>3, <1>4, StoredIs
<1> HIDE DEF m1
<1>6. \A x \in Places(heap) : x[1] \in V => x \in Places(m1)
  BY <1>2, <1>5, SamePlaces
<1>7. /\ DOMAIN m2 = DOMAIN m1 /\ \A id \in DOMAIN m1 : m2[id] \in Cells
      /\ ButFor(p, At(q), DOMAIN m1, m1, m2)
      /\ \A id \in DOMAIN m1 : id # p[1] => m2[id] = m1[id]
  <2>1. p \in Places(m1) /\ \A id \in DOMAIN m1 : m1[id] \in Cells
    BY <1>2, <1>5, <1>6
  <2> QED BY <1>4, <2>1, StoredIs
<1> HIDE DEF m2
<1>8. \A id \in V : m2[id] \in Cells /\ SameCell(heap[id], m2[id])
  <2> TAKE id \in V
  <2>1. SameCell(kept[id], m1[id]) /\ SameCell(m1[id], m2[id]) /\ kept[id] = heap[id]
    BY <1>2, <1>5, <1>7 DEF ButFor
  <2> QED BY <1>2, <1>5, <1>7, <2>1 DEF SameCell
<1>9. \A id \in V : id # p[1] /\ id # q[1] => m2[id] = heap[id]
  BY <1>2, <1>5, <1>7
<1>10. \A x \in Places(heap) : x[1] \in V /\ x # p /\ x # q => NodeAt(x, m2) = NodeAt(x, heap)
  <2> SUFFICES ASSUME NEW x \in Places(heap), x[1] \in V, x # p, x # q
               PROVE  NodeAt(x, m2) = NodeAt(x, heap)
    OBVIOUS
  <2>1. x \in Places(kept) /\ NodeAt(x, kept) = NodeAt(x, heap) /\ x \in Places(m1)
    BY <1>2, <1>6
  <2>2. NodeAt(x, m1) = NodeAt(x, kept)
    BY <1>2, <1>5, <2>1 DEF ButFor
  <2>3. NodeAt(x, m2) = NodeAt(x, m1)
    BY <1>2, <1>5, <1>7, <2>1 DEF ButFor
  <2> QED BY <2>1, <2>2, <2>3
<1>11. NodeAt(p, m2) = At(q)
  BY <1>7 DEF ButFor
<1>12. NodeAt(q, m2) = NullTree
  <2>1. NodeAt(q, m1) = NullTree /\ q \in Places(m1)
    BY <1>3, <1>5, <1>6 DEF ButFor
  <2>2. NodeAt(q, m2) = NodeAt(q, m1)
    BY <1>2, <1>3, <1>5, <1>7, <2>1 DEF ButFor
  <2> QED BY <2>1, <2>2
<1>13. DOMAIN m2 = V
  BY <1>2, <1>5, <1>7
<1> QED BY <1>1, <1>8, <1>9, <1>10, <1>11, <1>12, <1>13 DEF V

LEMMA MoveKeeps ==
  ASSUME TreesSound(heap), NEW p \in Places(heap), NEW q \in Places(heap), Apart(p, q)
  PROVE  TreesSound(AfterMove(p, q))
<1> DEFINE V == Rest(p)
           C == Below(NodeAt(q, heap), heap)
           kept == deleteValueObject(At(p), heap)
           a == Stored(p, NullTree, kept)
           b == Stored(q, NullTree, deleteValueObject(NodeAt(q, a), a))
           m2 == AfterMove(p, q)
           tree == At(q)
<1>1. /\ p # q /\ p[1] \notin C /\ q[1] \in V /\ p[1] \in V /\ C \subseteq V /\ 0 \notin C
      /\ q[1] \notin C
  BY ApartBelow, BelowPlace, KeptIs, PlaceIs DEF Rest, At
<1>2. /\ DOMAIN kept = V
      /\ \A id \in V : id \in DOMAIN heap /\ kept[id] = heap[id]
      /\ \A id \in DOMAIN kept : kept[id] \in Cells
      /\ p \in Places(kept)
  BY KeptIs
<1>3. TreesSound(a) /\ DOMAIN a = V /\ ButFor(p, NullTree, V, heap, a)
  BY NullNode, SetNode DEF Rest, At
<1>4. \A id \in V : id # p[1] => a[id] = heap[id]
  <2> HIDE DEF kept, V
  <2>1. \A id \in DOMAIN kept : id # p[1] => a[id] = kept[id]
    BY <1>2, NullNode, StoredIs
  <2> QED BY <1>2, <2>1
<1>5. V \subseteq DOMAIN heap
  BY DEF Rest
<1> HIDE DEF a, kept, V
<1>6. q \in Places(a) /\ NodeAt(q, a) = NodeAt(q, heap) /\ p \in Places(a) /\ NodeAt(p, a) = NullTree
  BY <1>1, <1>3, <1>5, SamePlaces DEF ButFor
<1>7. Below(NodeAt(q, a), a) = C
  <2>1. Keeps(C, heap, a)
    BY <1>1, <1>3, <1>4 DEF Keeps
  <2> QED BY <1>6, <2>1, BelowFrame
<1>8. TreesSound(b) /\ DOMAIN b = V \ C /\ ButFor(q, NullTree, V \ C, a, b)
  <2>1. /\ TreesSound(b)
        /\ DOMAIN b = DOMAIN a \ Below(NodeAt(q, a), a)
        /\ ButFor(q, NullTree, DOMAIN a \ Below(NodeAt(q, a), a), a, b)
    BY <1>3, <1>6, NullNode, SetNode
  <2> QED BY <1>3, <1>7, <2>1
<1>9. /\ DOMAIN m2 = V
      /\ \A id \in V : m2[id] \in Cells /\ SameCell(heap[id], m2[id])
      /\ \A id \in V : id # p[1] /\ id # q[1] => m2[id] = heap[id]
      /\ \A x \in Places(heap) : x[1] \in V /\ x # p /\ x # q => NodeAt(x, m2) = NodeAt(x, heap)
      /\ NodeAt(p, m2) = tree /\ NodeAt(q, m2) = NullTree
  BY MoveIs DEF V
<1> HIDE DEF m2, b
<1>10. p \in Places(b) /\ NodeAt(p, b) = NullTree /\ NodeAt(q, b) = NullTree
  <2> HIDE DEF C
  <2>1. p[1] \in V \ C /\ V \ C \subseteq DOMAIN a /\ V \ C \subseteq DOMAIN b
    BY <1>1, <1>3, <1>8
  <2>2. p \in Places(b)
    BY <1>6, <1>8, <2>1, SamePlaces
  <2>3. NodeAt(p, b) = NodeAt(p, a)
    BY <1>1, <1>6, <1>8, <2>1 DEF ButFor
  <2> QED BY <1>6, <1>8, <2>2, <2>3 DEF ButFor
<1>11. ButFor(p, tree, V \ C, b, m2)
  <2>1. \A id \in V \ C : SameCell(b[id], m2[id])
    <3> TAKE id \in V \ C
    <3>1. SameCell(heap[id], a[id]) /\ SameCell(a[id], b[id]) /\ SameCell(heap[id], m2[id])
      BY <1>3, <1>8, <1>9 DEF ButFor
    <3> QED BY <3>1 DEF SameCell
  <2>2. \A x \in Places(b) : x[1] \in V \ C /\ x # p => NodeAt(x, m2) = NodeAt(x, b)
    <3> SUFFICES ASSUME NEW x \in Places(b), x[1] \in V \ C, x # p
                 PROVE  NodeAt(x, m2) = NodeAt(x, b)
      OBVIOUS
    <3>1. x \in Places(a)
      BY <1>3, <1>8, SamePlaces
    <3>2. x \in Places(heap)
      BY <1>3, <1>5, <3>1, SamePlaces
    <3>3. CASE x = q
      BY <1>9, <1>10, <3>3
    <3>4. CASE x # q
      BY <1>3, <1>8, <1>9, <3>1, <3>2, <3>4 DEF ButFor
    <3> QED BY <3>3, <3>4
  <2> QED BY <1>9, <2>1, <2>2 DEF ButFor
<1>12. CASE ~ Owns(tree)
  <2>1. C = {} /\ Below(NodeAt(p, b), b) = {}
    BY <1>10, <1>12, NullNode, BelowIsUnder DEF At
  <2>2. DOMAIN m2 = DOMAIN b \ Below(NodeAt(p, b), b) /\ ButFor(p, tree, DOMAIN m2, b, m2)
    BY <1>8, <1>9, <1>11, <2>1
  <2>3. \A id \in DOMAIN m2 : m2[id] \in Cells
    BY <1>9
  <2> HIDE DEF tree
  <2> QED BY <1>8, <1>10, <1>12, <2>2, <2>3, StoredNothing DEF m2
<1>13. CASE Owns(tree)
  <2> DEFINE o == Held(heap)
             w == Within(C, m2)
             r == tree.data
  <2>1. q \in DOMAIN o /\ o[q] = r /\ C = Under(r, DOMAIN heap, o) /\ Shaped(DOMAIN heap, o)
    BY <1>13, HeldIs, BelowIsUnder DEF Holders, At, TreesSound
  <2>2. \A id \in C : id \in DOMAIN m2 /\ id \in DOMAIN heap /\ m2[id] = heap[id]
    BY <1>1, <1>5, <1>9
  <2>3. \A x : x[1] \in C => (x \in Holders(m2) <=> x \in Holders(heap))
                             /\ NodeAt(x, m2) = NodeAt(x, heap)
    <3> HIDE DEF C
    <3> QED BY <2>2, PlaceIs DEF Holders, NodeAt
  <2>4. DOMAIN w = {x \in DOMAIN o : x[1] \in C} /\ \A x \in DOMAIN w : w[x] = o[x]
    <3>1. DOMAIN w = {x \in Holders(m2) : x[1] \in C} /\ \A x \in DOMAIN w : w[x] = NodeAt(x, m2).data
      BY DEF Within
    <3>2. DOMAIN o = Holders(heap) /\ \A x \in DOMAIN o : o[x] = NodeAt(x, heap).data
      BY HeldIs
    <3> HIDE DEF w, o, C
    <3> QED BY <2>3, <3>1, <3>2
  <2>5. Rooted(r, C, w)
    <3> HIDE DEF w, o, C, r
    <3> QED BY <2>1, <2>4, UnderRooted
  <2>6. C \subseteq 1 .. MaxContainers /\ C \cap DOMAIN b = {} /\ DOMAIN m2 = DOMAIN b \cup C
    <3>1. \A id \in C : id \in 0 .. MaxContainers /\ id # 0
      BY <1>1, <2>2 DEF TreesSound, CellsTyped
    <3>2. \A id \in C : id \in 1 .. MaxContainers
      BY <3>1, TreeConstants
    <3> QED BY <1>1, <1>8, <1>9, <3>2
  <2>7. m2[tree.data].kind = tree.type
    <3>1. r \in C
      BY <2>5 DEF Rooted
    <3> QED BY <1>13, <2>2, <3>1, ContainerOf
  <2>8. \A x \in Holders(m2) : x[1] \in C => m2[NodeAt(x, m2).data].kind = NodeAt(x, m2).type
    <3> SUFFICES ASSUME NEW x \in Holders(m2), x[1] \in C
                 PROVE  m2[NodeAt(x, m2).data].kind = NodeAt(x, m2).type
      OBVIOUS
    <3>1. x \in Holders(heap) /\ NodeAt(x, m2) = NodeAt(x, heap)
      BY <2>3
    <3>2. NodeAt(x, heap).data \in C /\ heap[NodeAt(x, heap).data].kind = NodeAt(x, heap).type
      BY <3>1, BelowPlace DEF TreesSound, KindsAgree
    <3> QED BY <2>2, <3>1, <3>2
  <2>9. \A id \in C : OrderOf(m2[id], id)
    BY <2>2 DEF TreesSound, OrdersOwn
  <2>10. ~ Owns(NodeAt(p, b)) /\ ButFor(p, tree, DOMAIN b, b, m2) /\ \A id \in DOMAIN m2 : m2[id] \in Cells
    BY <1>8, <1>9, <1>10, <1>11, NullNode
  <2> HIDE DEF C, tree
  <2>11. Rooted(tree.data, C, Within(C, m2))
    BY <2>5
  <2> QED BY <1>8, <1>10, <1>13, <2>6, <2>7, <2>8, <2>9, <2>10, <2>11, Planted DEF m2
<1> QED BY <1>12, <1>13

LEMMA TreeKeeps == TreesSound(heap) /\ [TreeNext]_heap => TreesSound(heap')
<1> SUFFICES ASSUME TreesSound(heap), [TreeNext]_heap PROVE TreesSound(heap')
  OBVIOUS
<1>1. CASE UNCHANGED heap
  BY <1>1
<1>2. ASSUME NEW p \in Places(heap), SetLeaf(p) PROVE TreesSound(heap')
  BY <1>2, SetLeafKeeps
<1>3. ASSUME NEW p \in Places(heap), NEW kind \in Kinds, SetContainer(p, kind)
      PROVE  TreesSound(heap')
  BY <1>3, SetContainerKeeps
<1>4. ASSUME NEW p \in Places(heap), NEW key \in Keys, NewKey(p, key) PROVE TreesSound(heap')
  BY <1>4, NewKeyKeeps
<1>5. ASSUME NEW p \in Places(heap), NEW key \in Keys \cup {""}, PushBack(p, key)
      PROVE  TreesSound(heap')
  BY <1>5, PushBackKeeps
<1>6. ASSUME NEW p \in Places(heap), NEW key \in AttributeNames, SetAttribute(p, key)
      PROVE  TreesSound(heap')
  BY <1>6, SetAttributeKeeps
<1>7. ASSUME NEW p \in Places(heap), NEW q \in Places(heap), Copy(p, q) PROVE TreesSound(heap')
  BY <1>7, CopyKeeps DEF Copy
<1>8. ASSUME NEW p \in Places(heap), NEW q \in Places(heap), Move(p, q) PROVE TreesSound(heap')
  BY <1>8, MoveKeeps DEF Move
<1> QED BY <1>1, <1>2, <1>3, <1>4, <1>5, <1>6, <1>7, <1>8 DEF TreeNext

-----------------------------------------------------------------------------
(* What a sound memory promises.                                              *)

\* The variables reach every node.
LEMMA AllReachable ==
  ASSUME TreesSound(heap)
  PROVE  Reachable = Places(heap)
<1> DEFINE o == Held(heap)
           S == {0} \cup UNION {Below(At(<<0, v>>), heap) : v \in 1 .. Variables}
<1>1. /\ 0 \in DOMAIN heap /\ DOMAIN heap[0].slots = 1 .. Variables
      /\ Shaped(DOMAIN heap, o)
  BY DEF TreesSound, Shaped
<1>2. \A v \in 1 .. Variables : <<0, v>> \in Places(heap)
  BY <1>1, PlaceIs
<1>3. S \in SUBSET DOMAIN heap /\ 0 \in S
  <2>1. \A v \in 1 .. Variables : Below(At(<<0, v>>), heap) \subseteq DOMAIN heap
    BY DEF Below
  <2> QED BY <1>1, <2>1
<1>4. Shut(S, o)
  <2> SUFFICES ASSUME NEW x \in Holders(heap), x[1] \in S PROVE NodeAt(x, heap).data \in S
    BY HeldIs DEF Shut
  <2>1. CASE x[1] = 0
    <3>1. x[2] \in 1 .. Variables /\ x = <<0, x[2]>> /\ Owns(At(x))
      BY <1>1, <2>1, PlaceIs DEF Holders, At
    <3>2. Below(At(x), heap) = Under(At(x).data, DOMAIN heap, o)
      BY <3>1, BelowIsUnder
    <3>3. At(x).data \in DOMAIN heap /\ \A y \in DOMAIN o : o[y] \in DOMAIN heap
      BY <1>1, HoldersShape DEF At, Shaped
    <3>4. At(x).data \in Below(At(x), heap)
      BY <3>2, <3>3, UnderShut
    <3>5. At(x).data \in Below(At(<<0, x[2]>>), heap)
      BY <3>1, <3>4
    <3> QED BY <3>1, <3>5 DEF At
  <2>2. ASSUME NEW v \in 1 .. Variables, x[1] \in Below(At(<<0, v>>), heap)
        PROVE  NodeAt(x, heap).data \in S
    <3>1. NodeAt(x, heap).data \in Below(NodeAt(<<0, v>>, heap), heap)
      BY <1>2, <2>2, BelowPlace DEF At
    <3> QED BY <3>1 DEF At
  <2> QED BY <2>1, <2>2
<1>5. S = DOMAIN heap
  <2> HIDE DEF S, o
  <2> QED BY <1>1, <1>3, <1>4 DEF Shaped
<1>6. ASSUME NEW x \in Places(heap) PROVE x \in Reachable
  <2>1. x[1] \in S
    BY <1>5, PlaceIs
  <2>2. CASE x[1] = 0
    <3>1. x[2] \in 1 .. Variables /\ x = <<0, x[2]>>
      BY <1>1, <2>2, PlaceIs
    <3>2. x \in PlacesIn(<<0, x[2]>>)
      BY <3>1 DEF PlacesIn
    <3> QED BY <3>1, <3>2 DEF Reachable
  <2>3. ASSUME NEW v \in 1 .. Variables, x[1] \in Below(At(<<0, v>>), heap)
        PROVE  x \in Reachable
    BY <2>3 DEF PlacesIn, Reachable
  <2> QED BY <2>1, <2>2, <2>3
<1>7. Reachable \subseteq Places(heap)
  BY <1>2 DEF Reachable, PlacesIn
<1> QED BY <1>6, <1>7

LEMMA OwnersAreOne ==
  ASSUME TreesSound(heap)
  PROVE  OneOwner
<1> DEFINE o == Held(heap)
<1>1. Reachable = Places(heap)
  BY AllReachable
<1>2. Shaped(DOMAIN heap, o)
  BY DEF TreesSound
<1>3. \A x \in Places(heap) : Owns(At(x)) =>
        /\ x \in Holders(heap) /\ o[x] = At(x).data /\ x \in DOMAIN o
        /\ At(x).data \in DOMAIN heap /\ At(x).type = heap[At(x).data].kind
  BY HeldIs, ContainerOf DEF Holders, At
<1>4. ASSUME NEW id \in DOMAIN heap \ {0} PROVE Cardinality(OwnersOf(id)) = 1
  <2>1. PICK x \in Holders(heap) : NodeAt(x, heap).data = id
    <3> SUFFICES ASSUME \A x \in Holders(heap) : NodeAt(x, heap).data # id PROVE FALSE
      OBVIOUS
    <3>1. Shut(DOMAIN heap \ {id}, o)
      BY HeldIs, HoldersShape DEF Shut
    <3>2. DOMAIN heap \ {id} \in SUBSET DOMAIN heap /\ 0 \in DOMAIN heap \ {id}
      BY <1>2 DEF Shaped
    <3> HIDE DEF o
    <3>3. DOMAIN heap \ {id} = DOMAIN heap
      BY <1>2, <3>1, <3>2 DEF Shaped
    <3> QED BY <3>3
  <2>2. x \in OwnersOf(id)
    BY <1>1, <2>1 DEF OwnersOf, Holders, At
  <2>3. \A y \in OwnersOf(id) : y = x
    <3>1. \A y \in OwnersOf(id) : y \in DOMAIN o /\ o[y] = id
      BY <1>1, <1>3 DEF OwnersOf
    <3> HIDE DEF o
    <3> QED BY <1>2, <2>2, <3>1 DEF Shaped
  <2>4. OwnersOf(id) = {x}
    BY <2>2, <2>3
  <2> QED BY <2>4, FS_Singleton
<1>5. \A id \in DOMAIN heap \ {0} : \A x \in OwnersOf(id) : At(x).type = heap[id].kind
  BY <1>1, <1>3 DEF OwnersOf
<1> QED BY <1>1, <1>3, <1>4, <1>5 DEF OneOwner

LEMMA OrdersAreOwn ==
  ASSUME TreesSound(heap)
  PROVE  OrderIsOwn
<1> SUFFICES ASSUME NEW id \in DOMAIN heap, heap[id].kind = "MAP"
             PROVE  /\ Len(heap[id].order) = Len(heap[id].slots)
                    /\ \A i, j \in DOMAIN heap[id].slots :
                         heap[id].slots[i].key = heap[id].slots[j].key => i = j
                    /\ \A i \in DOMAIN heap[id].slots :
                         \E j \in DOMAIN heap[id].order :
                           heap[id].order[j] = [key |-> heap[id].slots[i].key,
                                                at |-> <<id, heap[id].slots[i].key>>]
  BY DEF OrderIsOwn
<1> DEFINE c == heap[id]
<1>1. c \in Cells /\ OrderOf(c, id) /\ c.kind = "MAP"
  BY DEF TreesSound, CellsTyped, OrdersOwn
<1> HIDE DEF c
<1>2. /\ Len(c.order) = Len(c.slots)
      /\ \A i, j \in DOMAIN c.slots : c.slots[i].key = c.slots[j].key => i = j
      /\ \A i \in DOMAIN c.slots :
           c.order[i] = [key |-> c.slots[i].key, at |-> <<id, c.slots[i].key>>]
  BY <1>1 DEF OrderOf
<1>3. DOMAIN c.slots = DOMAIN c.order
  <2>1. c.order \in Seq(Ordered) /\ DOMAIN c.slots = 1 .. Len(c.slots)
    BY <1>1, CellOf
  <2>2. DOMAIN c.order = 1 .. Len(c.order)
    BY <2>1, SequenceIs
  <2> QED BY <1>2, <2>1, <2>2
<1> QED BY <1>2, <1>3 DEF c

\* Where an order of a container points.
LEMMA OrderEntries ==
  ASSUME NEW c \in Cells, NEW id, OrderOf(c, id), NEW i \in DOMAIN c.order
  PROVE  c.order[i] = [key |-> c.order[i].key, at |-> <<id, c.order[i].key>>]
<1>1. CASE c.kind = "MAP"
  <2>1. DOMAIN c.slots = DOMAIN c.order
    BY <1>1, CellOf, SequenceIs DEF OrderOf
  <2> DEFINE e == c.order[i]
             key == c.slots[i].key
  <2>2. e = [key |-> key, at |-> <<id, key>>]
    BY <1>1, <2>1 DEF OrderOf
  <2> HIDE DEF e, key
  <2>3. e = [key |-> e.key, at |-> <<id, e.key>>]
    BY <2>2
  <2> QED BY <2>3 DEF e
<1>2. CASE c.kind # "MAP"
  <2>1. c.order = <<>>
    BY <1>2 DEF OrderOf
  <2> QED BY <2>1
<1> QED BY <1>1, <1>2

\* A node that is relocated and brought back, and one that stays.
LEMMA BroughtBack ==
  ASSUME NEW tree \in Nodes, NEW at, NEW f, Owns(tree) => f[at[tree.data]] = tree.data
  PROVE  Relocated(Relocated(tree, at), f) = tree
<1>1. CASE ~ Owns(tree)
  BY <1>1 DEF Relocated
<1>2. CASE Owns(tree)
  <2>1. Relocated(tree, at) = [type |-> tree.type, data |-> at[tree.data], attributes |-> tree.attributes]
    BY <1>2 DEF Relocated, Nodes
  <2> DEFINE there == Relocated(tree, at)
  <2>2. Owns(there) /\ there.data = at[tree.data]
    BY <1>2, <2>1 DEF Owns
  <2>3. Relocated(there, f) = [type |-> tree.type, data |-> f[at[tree.data]], attributes |-> tree.attributes]
    BY <2>1, <2>2 DEF Relocated
  <2> QED BY <1>2, <2>3 DEF Nodes
<1> QED BY <1>1, <1>2

LEMMA Stayed ==
  ASSUME NEW tree \in Nodes, NEW f, Owns(tree) => f[tree.data] = tree.data
  PROVE  Relocated(tree, f) = tree
<1>1. CASE Owns(tree)
  <2>1. Relocated(tree, f) = [type |-> tree.type, data |-> f[tree.data], attributes |-> tree.attributes]
    BY <1>1 DEF Relocated, Nodes
  <2> QED BY <1>1, <2>1 DEF Nodes
<1> QED BY <1>1 DEF Relocated

LEMMA EntryIs ==
  ASSUME NEW c \in Cells, NEW k \in DOMAIN c.slots
  PROVE  c.slots[k] = Slot(c.slots[k].key, c.slots[k].tree)
<1>1. c.slots[k] \in Entries
  BY CellOf
<1> QED BY <1>1 DEF Entries, Slot

\* A node whose containers stay says in another memory what it says in this.
LEMMA SaysByFrame ==
  ASSUME TreesSound(heap), NEW x \in Places(heap), NEW m2, Keeps(Below(At(x), heap), heap, m2)
  PROVE  SayTheSame(At(x), m2, At(x), heap)
<1> DEFINE D == Below(At(x), heap)
           f == [i \in D |-> i]
           tree == At(x)
<1>1. Below(tree, m2) = D
  BY BelowFrame DEF At
<1>2. /\ tree \in Nodes
      /\ \A y \in Holders(heap) : y[1] \in D => NodeAt(y, heap).data \in D
      /\ D \subseteq DOMAIN heap
  BY NodeOf, BelowPlace DEF At, TreesSound
<1>3. Owns(tree) => tree.data \in D
  <2> SUFFICES ASSUME Owns(tree) PROVE tree.data \in D
    OBVIOUS
  <2>1. /\ tree.data \in DOMAIN heap /\ D = Under(tree.data, DOMAIN heap, Held(heap))
        /\ \A y \in DOMAIN Held(heap) : Held(heap)[y] \in DOMAIN heap
    BY ContainerOf, BelowIsUnder DEF TreesSound, Shaped
  <2> QED BY <2>1, UnderShut
<1>4. f \in [D -> D] /\ DOMAIN f = D /\ \A i \in D : f[i] = i
  OBVIOUS
<1>5. \A i \in D : m2[i] = heap[i]
  BY DEF Keeps
<1> HIDE DEF D, f, tree
<1>6. tree = Relocated(tree, f)
  BY <1>2, <1>3, <1>4, Stayed
<1>7. ASSUME NEW i \in D PROVE SameContainer(m2[i], heap[f[i]], f)
  <2> DEFINE c == heap[i]
  <2>1. c \in Cells /\ OrderOf(c, i) /\ i \in DOMAIN heap
    BY <1>2 DEF TreesSound, CellsTyped, OrdersOwn
  <2>2. ASSUME NEW k \in DOMAIN c.slots
        PROVE  Slot(c.slots[k].key, Relocated(c.slots[k].tree, f)) = c.slots[k]
    <3>1. c.slots[k].tree \in Nodes /\ c.slots[k] = Slot(c.slots[k].key, c.slots[k].tree)
      BY <2>1, CellOf, EntryIs
    <3>2. Owns(c.slots[k].tree) => c.slots[k].tree.data \in D
      <4> SUFFICES ASSUME Owns(c.slots[k].tree) PROVE c.slots[k].tree.data \in D
        OBVIOUS
      <4>1. <<i, k>> \in Holders(heap) /\ NodeAt(<<i, k>>, heap) = c.slots[k].tree
        BY <2>1, PlaceIs DEF Holders, NodeAt
      <4> QED BY <1>2, <4>1
    <3>3. Relocated(c.slots[k].tree, f) = c.slots[k].tree
      BY <1>4, <3>1, <3>2, Stayed
    <3> QED BY <3>1, <3>3
  <2> HIDE DEF c
  <2>3. RelocatedSlots(c.slots, f) = c.slots
    <3>1. c.slots \in Seq(Entries)
      BY <2>1, CellOf
    <3>2. c.slots = [k \in DOMAIN c.slots |-> c.slots[k]]
      BY <3>1
    <3>3. RelocatedSlots(c.slots, f) = [k \in DOMAIN c.slots |-> c.slots[k]]
      BY <2>2 DEF RelocatedSlots
    <3> QED BY <3>2, <3>3
  <2>4. ASSUME NEW j \in DOMAIN c.order
        PROVE  /\ c.order[j].at[1] \in DOMAIN f
               /\ c.order[j] = [key |-> c.order[j].key,
                                at |-> <<f[c.order[j].at[1]], c.order[j].at[2]>>]
    <3> DEFINE e == c.order[j]
    <3>1. e = [key |-> e.key, at |-> <<i, e.key>>]
      BY <2>1, OrderEntries
    <3> HIDE DEF e
    <3>2. e.at = <<i, e.key>>
      BY <3>1
    <3>3. e.at[1] = i /\ e.at[2] = e.key
      BY <3>2
    <3>4. e = [key |-> e.key, at |-> <<f[e.at[1]], e.at[2]>>] /\ e.at[1] \in DOMAIN f
      BY <1>4, <3>1, <3>3
    <3> QED BY <3>4 DEF e
  <2>5. SameContainer(c, c, f)
    BY <2>3, <2>4 DEF SameContainer
  <2> QED BY <1>4, <1>5, <2>5 DEF c
<1>8. SayTheSame(tree, m2, tree, heap)
  BY <1>1, <1>4, <1>6, <1>7 DEF SayTheSame, D, tree
<1> QED BY <1>8 DEF tree

\* A copied container says what its original says, read back by f.
LEMMA CopySame ==
  ASSUME NEW c \in Cells, NEW i, OrderOf(c, i), NEW at, NEW id \in Nat, NEW f,
         id \in DOMAIN f, f[id] = i,
         \A k \in DOMAIN c.slots : Owns(c.slots[k].tree) =>
           at[c.slots[k].tree.data] \in Nat /\ f[at[c.slots[k].tree.data]] = c.slots[k].tree.data
  PROVE  SameContainer(CopyOf(c, id, at), c, f)
<1> DEFINE d == CopyOf(c, id, at)
<1>1. \A k \in DOMAIN c.slots : Owns(c.slots[k].tree) => at[c.slots[k].tree.data] \in Nat
  OBVIOUS
<1>2. /\ d \in Cells /\ d.kind = c.kind /\ d.slots = RelocatedSlots(c.slots, at)
      /\ d.order = [j \in DOMAIN c.order |-> [key |-> c.order[j].key, at |-> <<id, c.order[j].key>>]]
  BY <1>1, CopyCell
<1>3. DOMAIN d.order = DOMAIN c.order /\ \A j \in DOMAIN c.order :
        d.order[j] = [key |-> c.order[j].key, at |-> <<id, c.order[j].key>>]
  BY <1>2
<1> HIDE DEF d
<1>4. Len(c.order) = Len(d.order)
  <2>1. c.order \in Seq(Ordered) /\ d.order \in Seq(Ordered)
    BY <1>2, CellOf
  <2>2. /\ Len(c.order) \in Nat /\ DOMAIN c.order = 1 .. Len(c.order)
        /\ Len(d.order) \in Nat /\ DOMAIN d.order = 1 .. Len(d.order)
    BY <2>1, SequenceIs
  <2> QED BY <1>3, <2>2
<1>5. c.slots = RelocatedSlots(d.slots, f)
  <2>1. ASSUME NEW k \in DOMAIN c.slots
        PROVE  Slot(d.slots[k].key, Relocated(d.slots[k].tree, f)) = c.slots[k]
    <3>1. c.slots[k].tree \in Nodes /\ c.slots[k] = Slot(c.slots[k].key, c.slots[k].tree)
      BY CellOf, EntryIs
    <3>2. d.slots[k].key = c.slots[k].key /\ d.slots[k].tree = Relocated(c.slots[k].tree, at)
      BY <1>2, RelocatedSlotsAre
    <3>3. Relocated(Relocated(c.slots[k].tree, at), f) = c.slots[k].tree
      BY <3>1, BroughtBack
    <3> QED BY <3>1, <3>2, <3>3
  <2>2. c.slots = [k \in DOMAIN c.slots |-> c.slots[k]]
    <3>1. c.slots \in Seq(Entries)
      BY CellOf
    <3> QED BY <3>1
  <2>3. DOMAIN d.slots = DOMAIN c.slots
    BY <1>2, RelocatedSlotsAre
  <2>4. RelocatedSlots(d.slots, f) = [k \in DOMAIN c.slots |-> c.slots[k]]
    BY <2>1, <2>3 DEF RelocatedSlots
  <2> QED BY <2>2, <2>4
<1>6. ASSUME NEW j \in DOMAIN d.order
      PROVE  /\ d.order[j].at[1] \in DOMAIN f
             /\ c.order[j] = [key |-> d.order[j].key,
                              at |-> <<f[d.order[j].at[1]], d.order[j].at[2]>>]
  <2> DEFINE e == c.order[j]
             e2 == d.order[j]
  <2>1. e = [key |-> e.key, at |-> <<i, e.key>>]
    BY <1>3, OrderEntries
  <2>2. e2 = [key |-> e.key, at |-> <<id, e.key>>]
    BY <1>3
  <2> HIDE DEF e, e2
  <2>3. e2.key = e.key /\ e2.at = <<id, e.key>>
    BY <2>2
  <2>4. e2.at[1] = id /\ e2.at[2] = e.key
    BY <2>3
  <2>5. e2.at[1] \in DOMAIN f /\ e = [key |-> e2.key, at |-> <<f[e2.at[1]], e2.at[2]>>]
    BY <2>1, <2>3, <2>4
  <2> QED BY <2>5 DEF e, e2
<1>7. SameContainer(d, c, f)
  BY <1>2, <1>4, <1>5, <1>6 DEF SameContainer
<1> QED BY <1>7 DEF d

\* A copy says what its original says.
LEMMA CopySays ==
  ASSUME TreesSound(heap), NEW p \in Places(heap), NEW q \in Places(heap), NEW at \in Allocations(p, q)
  PROVE  SayTheSame(NodeAt(p, AfterCopy(p, q, at)), AfterCopy(p, q, at), At(q), heap)
<1> DEFINE m2 == AfterCopy(p, q, at)
           t == At(q)
           tree == Relocated(t, at)
           E == Copies(at)
           f == [id \in E |-> CHOOSE i \in DOMAIN at : at[i] = id]
<1>1. /\ DOMAIN at = Below(t, heap)
      /\ \A i, j \in DOMAIN at : at[i] = at[j] => i = j
      /\ \A i \in DOMAIN at : at[i] \in Nat
  BY AllocationsAre
<1>2. NodeAt(p, m2) = tree /\ E \subseteq DOMAIN m2 /\ \A i \in DOMAIN at : m2[at[i]] = CopyOf(heap[i], at[i], at)
  <2>1. ButFor(p, tree, Rest(p), heap, m2)
    BY CopyIs
  <2>2. DOMAIN m2 = Rest(p) \cup E
    BY CopyIs
  <2>3. \A i \in DOMAIN at : m2[at[i]] = CopyOf(heap[i], at[i], at)
    BY CopyIs
  <2> HIDE DEF m2, tree, E
  <2>4. NodeAt(p, m2) = tree
    BY <2>1 DEF ButFor
  <2> QED BY <2>2, <2>3, <2>4
<1>3. /\ \A i \in DOMAIN at : at[i] \in E /\ f[at[i]] = i
      /\ \A id \in E : f[id] \in DOMAIN at /\ at[f[id]] = id
      /\ DOMAIN f = E
  BY <1>1 DEF Copies
<1>4. t \in Nodes /\ (Owns(t) => t.data \in DOMAIN at)
  BY NodeOf, CopyRooted DEF At, TreesSound
<1>5. Below(tree, m2) = E
  <2>1. CASE ~ Owns(t)
    <3>1. ~ Owns(tree) /\ DOMAIN at = {}
      BY <1>1, <1>4, <2>1, RelocatedIs, BelowIsUnder
    <3>2. E = {}
      BY <3>1 DEF Copies
    <3> QED BY <3>1, <3>2, BelowIsUnder
  <2>2. CASE Owns(t)
    <3> DEFINE w == Within(E, m2)
               o == Held(m2)
               r == at[t.data]
    <3>1. Rooted(r, E, w)
      BY <2>2, CopyRooted
    <3>2. Owns(tree) /\ tree.data = r
      BY <1>4, <2>2, RelocatedIs
    <3>3. /\ DOMAIN w = {x \in DOMAIN o : x[1] \in E}
          /\ \A x \in DOMAIN w : w[x] = o[x]
      BY HeldIs DEF Within
    <3>4. Below(tree, m2) = Under(r, DOMAIN m2, o)
      BY <3>2, BelowIsUnder
    <3> HIDE DEF w, o, r, E, m2, tree
    <3>5. Under(r, DOMAIN m2, o) = E
      BY <1>2, <3>1, <3>3, RootedUnder
    <3> QED BY <3>4, <3>5
  <2> QED BY <2>1, <2>2
<1>6. f \in [E -> Below(t, heap)]
  BY <1>1, <1>3
<1> HIDE DEF m2, E, f
<1>7. t = Relocated(tree, f)
  <2>1. Owns(t) => f[at[t.data]] = t.data
    BY <1>3, <1>4
  <2> HIDE DEF t
  <2> QED BY <1>4, <2>1, BroughtBack
<1>8. ASSUME NEW id \in E PROVE SameContainer(m2[id], heap[f[id]], f)
  <2> DEFINE i == f[id]
             c == heap[i]
  <2>1. i \in DOMAIN at /\ at[i] = id /\ id \in Nat
    BY <1>1, <1>3
  <2> HIDE DEF i
  <2>2. /\ c \in Cells /\ OrderOf(c, i)
        /\ \A k \in DOMAIN c.slots : Owns(c.slots[k].tree) =>
             c.slots[k].tree.data \in DOMAIN at /\ at[c.slots[k].tree.data] \in Nat
    BY <2>1, InnerCopied
  <2>3. m2[id] = CopyOf(c, id, at)
    BY <1>2, <2>1
  <2> HIDE DEF c
  <2>4. \A k \in DOMAIN c.slots : Owns(c.slots[k].tree) =>
          at[c.slots[k].tree.data] \in Nat /\ f[at[c.slots[k].tree.data]] = c.slots[k].tree.data
    BY <1>3, <2>2
  <2>5. f[id] = i /\ id \in DOMAIN f
    BY <1>3 DEF i
  <2>6. SameContainer(CopyOf(c, id, at), c, f)
    BY <2>1, <2>2, <2>4, <2>5, CopySame
  <2> QED BY <2>3, <2>6 DEF c, i
<1> HIDE DEF tree, t
<1>9. SayTheSame(tree, m2, t, heap)
  BY <1>3, <1>5, <1>6, <1>7, <1>8 DEF SayTheSame
<1> QED BY <1>2, <1>9 DEF m2, t

\* A variable that has no part in it.
LEMMA VariableApart ==
  ASSUME TreesSound(heap), NEW p \in Places(heap), NEW q \in Places(heap),
         NEW v \in 1 .. Variables, {p, q} \cap PlacesIn(<<0, v>>) = {}
  PROVE  /\ <<0, v>> \in Places(heap) /\ <<0, v>> # p /\ <<0, v>> # q
         /\ Below(At(<<0, v>>), heap) \subseteq Rest(p) /\ 0 \in Rest(p)
         /\ p[1] \notin Below(At(<<0, v>>), heap) /\ q[1] \notin Below(At(<<0, v>>), heap)
<1> DEFINE x == <<0, v>>
<1>1. x \in Places(heap)
  BY PlaceIs DEF TreesSound, Shaped
<1>2. x # p /\ x # q /\ p[1] \notin Below(At(x), heap) /\ q[1] \notin Below(At(x), heap)
  BY DEF PlacesIn
<1>3. 0 \notin Below(At(p), heap) /\ 0 \in DOMAIN heap
  BY BelowPlace DEF At, TreesSound, Shaped
<1>4. Apart(p, x)
  BY <1>2, <1>3 DEF Apart, PlacesIn
<1>5. Below(At(p), heap) \cap Below(At(x), heap) = {} /\ Below(At(x), heap) \subseteq DOMAIN heap
  BY <1>1, <1>4, ApartBelow DEF Below
<1> QED BY <1>1, <1>2, <1>3, <1>5 DEF Rest

LEMMA AssignmentsAreTaken ==
  ASSUME TreesSound(heap)
  PROVE  AssignmentsTakeValues
<1> SUFFICES ASSUME NEW p \in Places(heap), NEW q \in Places(heap), Apart(p, q)
             PROVE  /\ \A at \in Allocations(p, q) :
                         Assigned(p, q, AfterCopy(p, q, at)) /\ SaysStill(q, AfterCopy(p, q, at))
                    /\ Assigned(p, q, AfterMove(p, q))
  BY AllReachable DEF AssignmentsTakeValues
<1>1. ASSUME NEW at \in Allocations(p, q)
      PROVE  Assigned(p, q, AfterCopy(p, q, at)) /\ SaysStill(q, AfterCopy(p, q, at))
  <2> DEFINE m2 == AfterCopy(p, q, at)
  <2>1. /\ DOMAIN m2 = Rest(p) \cup Copies(at)
        /\ ButFor(p, Relocated(At(q), at), Rest(p), heap, m2)
        /\ \A id \in Rest(p) : id # p[1] => m2[id] = heap[id]
    BY CopyIs
  <2>2. SayTheSame(NodeAt(p, m2), m2, At(q), heap)
    BY CopySays
  <2> HIDE DEF m2
  <2>3. ASSUME NEW x \in Places(heap), x # p, x[1] \in Rest(p),
               Below(At(x), heap) \subseteq Rest(p), p[1] \notin Below(At(x), heap)
        PROVE  SaysStill(x, m2)
    <3>1. Keeps(Below(At(x), heap), heap, m2)
      BY <2>1, <2>3 DEF Keeps
    <3>2. NodeAt(x, m2) = At(x)
      BY <2>1, <2>3 DEF ButFor, At
    <3> QED BY <3>1, <3>2, SaysByFrame DEF SaysStill
  <2>4. SaysStill(q, m2)
    <3>1. /\ q # p /\ q[1] \in Rest(p) /\ p[1] \notin Below(At(q), heap)
          /\ Below(At(q), heap) \subseteq Rest(p)
      BY ApartBelow, PlaceIs DEF Rest, Below
    <3> QED BY <2>3, <3>1
  <2>5. ASSUME NEW v \in 1 .. Variables, {p, q} \cap PlacesIn(<<0, v>>) = {}
        PROVE  SaysStill(<<0, v>>, m2)
    <3> DEFINE x == <<0, v>>
    <3>1. /\ x \in Places(heap) /\ x # p /\ Below(At(x), heap) \subseteq Rest(p)
          /\ x[1] \in Rest(p) /\ p[1] \notin Below(At(x), heap)
      BY <2>5, VariableApart
    <3> HIDE DEF x
    <3>2. SaysStill(x, m2)
      BY <2>3, <3>1
    <3> QED BY <3>2 DEF x
  <2> QED BY <2>2, <2>4, <2>5 DEF Assigned, m2
<1>2. Assigned(p, q, AfterMove(p, q))
  <2> DEFINE m2 == AfterMove(p, q)
  <2>1. /\ DOMAIN m2 = Rest(p)
        /\ \A id \in Rest(p) : id # p[1] /\ id # q[1] => m2[id] = heap[id]
        /\ \A x \in Places(heap) : x[1] \in Rest(p) /\ x # p /\ x # q => NodeAt(x, m2) = NodeAt(x, heap)
        /\ NodeAt(p, m2) = At(q)
    BY MoveIs
  <2> HIDE DEF m2
  <2>2. SayTheSame(NodeAt(p, m2), m2, At(q), heap)
    <3>1. /\ p[1] \notin Below(At(q), heap) /\ q[1] \notin Below(At(q), heap)
          /\ Below(At(q), heap) \subseteq Rest(p)
      BY ApartBelow, BelowPlace DEF Rest, At
    <3>2. Keeps(Below(At(q), heap), heap, m2)
      BY <2>1, <3>1 DEF Keeps
    <3> QED BY <2>1, <3>2, SaysByFrame
  <2>3. ASSUME NEW v \in 1 .. Variables, {p, q} \cap PlacesIn(<<0, v>>) = {}
        PROVE  SaysStill(<<0, v>>, m2)
    <3> DEFINE x == <<0, v>>
    <3>1. /\ x \in Places(heap) /\ x # p /\ x # q /\ Below(At(x), heap) \subseteq Rest(p)
          /\ x[1] \in Rest(p) /\ p[1] \notin Below(At(x), heap) /\ q[1] \notin Below(At(x), heap)
      BY <2>3, VariableApart
    <3> HIDE DEF x
    <3>2. Keeps(Below(At(x), heap), heap, m2)
      BY <2>1, <3>1 DEF Keeps
    <3>3. NodeAt(x, m2) = At(x)
      BY <2>1, <3>1 DEF At
    <3>4. SaysStill(x, m2)
      BY <3>1, <3>2, <3>3, SaysByFrame DEF SaysStill
    <3> QED BY <3>4 DEF x
  <2> QED BY <2>2, <2>3 DEF Assigned, m2
<1> QED BY <1>1, <1>2

\* Every container has one owner in reach, the order of a map is its own, and copies and
\* moves take the values they are given and touch no other, in any memory that assignments
\* can build (Tree::setCopy, Tree::setMove, TreeMap::operator=, Tree::deleteValueObject).
THEOREM TreesAreSound == TreeSpec => []TreesOwnValues
<1>1. TreesSound(heap) => TreesOwnValues
  BY OwnersAreOne, OrdersAreOwn, AssignmentsAreTaken DEF TreesOwnValues
<1>2. TreesSound(heap) /\ [TreeNext]_heap => TreesSound(heap)'
  BY TreeKeeps
<1> QED BY TreeBegins, <1>1, <1>2, PTL DEF TreeSpec
=============================================================================
