------------------------------ MODULE BoundedFIFO ------------------------------
(***************************************************************************)
(* What oatpp::data::buffer::FIFOBuffer promises: bytes leave in the order *)
(* in which they were accepted, none twice, and at most Capacity are kept. *)
(***************************************************************************)
EXTENDS Integers, Sequences

CONSTANTS Capacity, RetryRead, RetryWrite

VARIABLES
  queue,    \* the bytes in the buffer
  call,     \* the last call
  data,     \* the bytes that it moved
  result    \* what it returned

vars == <<queue, call, data, result>>

Init == queue = <<>> /\ call = "none" /\ data = <<>> /\ result = 0

\* Some bytes were accepted.
Put == /\ call' \in {"write", "readFromStream"}
       /\ queue' = queue \o data'
       /\ Len(queue') <= Capacity
       /\ result' = Len(data')

\* The first bytes of the buffer went out.
Take == /\ call' \in {"read", "writeToStream"}
        /\ queue = data' \o queue'
        /\ result' = Len(data')

First == Len(data') <= Len(queue) /\ data' = SubSeq(queue, 1, Len(data'))

\* They were copied and are still there.
Look == /\ call' = "peek"
        /\ First
        /\ queue' = queue
        /\ result' = Len(data')

\* Nothing moved, and the caller is told to come back only with a reason.
Refuse == /\ call' # "none"
          /\ queue' = queue /\ data' = <<>>
          /\ result' <= 0
          /\ result' = RetryRead => queue = <<>>
          /\ result' = RetryWrite => Len(queue) = Capacity

\* A flush empties the buffer, whether or not the stream took all of it.
Flush == /\ call' = "flush"
         /\ First
         /\ queue' = <<>>
         /\ result' = Len(data')

\* An asynchronous flush that failed leaves the bytes where they were.
FlushFails == /\ call' = "flush"
              /\ First
              /\ queue' = queue
              /\ result' < 0

Next == Put \/ Take \/ Look \/ Refuse \/ Flush \/ FlushFails

Spec == Init /\ [][Next]_vars
=============================================================================
