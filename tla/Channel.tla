------------------------------ MODULE Channel ------------------------------
(***************************************************************************)
(* What the kernel pipe promises: one bounded first-in first-out channel   *)
(* shared by all processes.  It knows nothing of the ring that stores the  *)
(* values, of the process table or of the clock.                           *)
(***************************************************************************)
EXTENDS Integers, Sequences

CONSTANTS Capacity, Values

VARIABLES
    queue,     \* the values written and not yet read, oldest first
    delivered  \* the value the last successful read returned

ChannelInit == queue = <<>> /\ delivered = -1

Write(v) ==
    /\ Len(queue) < Capacity
    /\ queue' = Append(queue, v)
    /\ UNCHANGED delivered

Read ==
    /\ queue # <<>>
    /\ delivered' = Head(queue)
    /\ queue' = Tail(queue)

ChannelNext == Read \/ \E v \in Values : Write(v)

ChannelSpec == ChannelInit /\ [][ChannelNext]_<<queue, delivered>>
=============================================================================
