--------------------------- MODULE ReliableTransfer ---------------------------
(***************************************************************************)
(* What the message send queue promises its users (specification,          *)
(* sections 4.7 and 8): entries are numbered in the order they are sent,   *)
(* copies of an entry travel to the peer over a lossy FIFO channel, and an *)
(* entry is released by the sender only once the peer has it.  A copy may  *)
(* be transmitted again and reach the peer more than once, but only while  *)
(* its entry is pending: once released, an entry is never transmitted     *)
(* again.  Nothing here says how: no ACK, no timer, no requeueing.         *)
(***************************************************************************)
EXTENDS Naturals, Sequences

CONSTANT MaxMsgs   \* the number of entries sent

VARIABLES
    next,       \* the number the next entry gets
    pending,    \* entries sent and not yet released by the sender
    delivered,  \* entries the peer has
    channel     \* copies on their way to the peer, oldest first

vars == <<next, pending, delivered, channel>>

Init == next = 0 /\ pending = {} /\ delivered = {} /\ channel = <<>>

(* The channel without its i-th copy.                                      *)
Without(q, i) == [k \in 1..(Len(q) - 1) |-> IF k < i THEN q[k] ELSE q[k + 1]]

(* An entry is sent: it takes the next number and is pending.              *)
SendEntry ==
    /\ next < MaxMsgs
    /\ pending' = pending \cup {next}
    /\ next' = next + 1
    /\ UNCHANGED <<delivered, channel>>

(* A copy of a pending entry is put on the channel, for the first time or  *)
(* again.                                                                  *)
Transmit(s) ==
    /\ s \in pending
    /\ channel' = Append(channel, s)
    /\ UNCHANGED <<next, pending, delivered>>

(* The peer takes the oldest copy on the channel; it may have it already.  *)
Deliver ==
    /\ channel # <<>>
    /\ delivered' = delivered \cup {Head(channel)}
    /\ channel' = Tail(channel)
    /\ UNCHANGED <<next, pending>>

(* One copy on the channel is lost.                                        *)
LoseOne(i) ==
    /\ channel' = Without(channel, i)
    /\ UNCHANGED <<next, pending, delivered>>

(* The channel breaks and every copy on it is lost.                        *)
LoseAll ==
    /\ channel' = <<>>
    /\ UNCHANGED <<next, pending, delivered>>

(* The sender releases a pending entry the peer has.                       *)
Release(s) ==
    /\ s \in pending \cap delivered
    /\ pending' = pending \ {s}
    /\ UNCHANGED <<next, delivered, channel>>

Next ==
    \/ SendEntry \/ Deliver \/ LoseAll
    \/ \E s \in 0..(MaxMsgs - 1) : Transmit(s) \/ Release(s)
    \/ \E i \in 1..Len(channel) : LoseOne(i)

Spec == Init /\ [][Next]_vars

=============================================================================
