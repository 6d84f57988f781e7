----------------------------- MODULE EntryQueues ------------------------------
(* What FastQueue promises its users, the processor and its workers: queues   *)
(* of entries, an entry in one queue at most, and the usual operations.       *)
EXTENDS Sequences, SequencesExt

CONSTANTS Entries, Queues

VARIABLE contents

Queued == UNION {Range(contents[q]) : q \in Queues}

Init == contents = [q \in Queues |-> <<>>]

PushBack(q, e) == e \notin Queued /\ contents' = [contents EXCEPT ![q] = Append(@, e)]

PushFront(q, e) == e \notin Queued /\ contents' = [contents EXCEPT ![q] = <<e>> \o @]

PopFront(q) == contents[q] # <<>> /\ contents' = [contents EXCEPT ![q] = Tail(@)]

Round(q) == contents[q] # <<>>
            /\ contents' = [contents EXCEPT ![q] = Append(Tail(@), Head(@))]

Cut(q, i) == i \in DOMAIN contents[q] /\ contents' = [contents EXCEPT ![q] = RemoveAt(@, i)]

MoveAll(p, q) == p # q
                 /\ contents' = [contents EXCEPT ![p] = <<>>, ![q] = @ \o contents[p]]

Clear(q) == contents' = [contents EXCEPT ![q] = <<>>]

Next == \E q \in Queues :
          \/ \E e \in Entries : PushBack(q, e) \/ PushFront(q, e)
          \/ PopFront(q) \/ Round(q) \/ Clear(q)
          \/ \E i \in 1 .. Len(contents[q]) : Cut(q, i)
          \/ \E p \in Queues : MoveAll(p, q)

Spec == Init /\ [][Next]_contents
=============================================================================
