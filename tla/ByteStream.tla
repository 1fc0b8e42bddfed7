----------------------------- MODULE ByteStream -----------------------------
(***************************************************************************)
(* What a pipe promises its users: a bounded first-in first-out stream of  *)
(* bytes that exists from the call of pipe to the close of its last end.   *)
(***************************************************************************)
EXTENDS Naturals, Sequences

CONSTANTS
    Streams,    \* the pipes there can be at a time
    Bytes,
    Capacity

VARIABLES
    live,       \* the streams in use
    queue       \* queue[s]: the bytes written and not yet read

Init ==
    /\ live = {}
    /\ queue = [s \in Streams |-> <<>>]

Open(s) ==
    /\ s \notin live
    /\ live' = live \cup {s}
    /\ UNCHANGED queue

\* A write of any number of bytes that fit.
Write(s) ==
    /\ s \in live
    /\ queue'[s] \in Seq(Bytes)
    /\ Len(queue'[s]) > Len(queue[s])
    /\ Len(queue'[s]) <= Capacity
    /\ SubSeq(queue'[s], 1, Len(queue[s])) = queue[s]
    /\ queue' = [queue EXCEPT ![s] = queue'[s]]
    /\ UNCHANGED live

Read(s) ==
    /\ s \in live
    /\ \E k \in 1..Len(queue[s]) :
          queue' = [queue EXCEPT ![s] = SubSeq(@, k + 1, Len(@))]
    /\ UNCHANGED live

\* Bytes nobody can read any more are dropped with the stream.
Close(s) ==
    /\ s \in live
    /\ live' = live \ {s}
    /\ queue' = [queue EXCEPT ![s] = <<>>]

Next == \E s \in Streams : Open(s) \/ Write(s) \/ Read(s) \/ Close(s)

Spec == Init /\ [][Next]_<<live, queue>>
=============================================================================
