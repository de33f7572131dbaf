--------------------------- MODULE MessageSendQueue ---------------------------
(***************************************************************************)
(* The per-peer MessageSendQueue of the communicator                       *)
(* (src/modules/communicator/message_send_queue.hpp), with the link to one *)
(* peer.  Only the class declaration and its documentation are in the     *)
(* repository; the behaviour of its operations is taken from their doc    *)
(* comments and from section 4.7 of the specification.                    *)
(*                                                                         *)
(* Application threads send entries: each gets the next message number and *)
(* is appended to m_queued.  The reactor thread writes the front entry to  *)
(* the connection, and when the asynchronous write has completed moves it  *)
(* with popFromQueued into m_waitingForACK, stamping its send time.  The   *)
(* peer answers every frame with an ACK carrying the number; handleACK     *)
(* erases the entry, and ignores numbers it does not know.  empty() puts   *)
(* entries that waited longer than half their timeout back into m_queued   *)
(* when m_queued has run empty.  A disconnect loses what is on the wire    *)
(* and moves every entry waiting for an ACK back to the head of m_queued.  *)
(*                                                                         *)
(* The link is a FIFO in each direction (one TCP connection), with at most *)
(* MaxDrops injected frame losses and MaxDisconnects disconnects.          *)
(***************************************************************************)
EXTENDS Naturals, Sequences, FiniteSets

CONSTANTS
    MaxMsgs,         \* the number of entries the application sends
    MaxWire,         \* frames a direction of the connection buffers
    MaxDrops,        \* injected frame losses
    MaxDisconnects,  \* connection losses
    NONE             \* no entry is being written

ASSUME MsqAssumption ==
    /\ MaxMsgs \in Nat /\ MaxWire \in Nat \ {0}
    /\ MaxDrops \in Nat /\ MaxDisconnects \in Nat
    /\ NONE \notin Nat

VARIABLES
    nextSeq,      \* m_messageNumber
    queued,       \* m_queued: the message numbers, front first
    waiting,      \* the keys of m_waitingForACK
    old,          \* entries of m_waitingForACK older than half their timeout
    writing,      \* the entry front() handed to the reactor's pending write
    conn,         \* m_availableToSendTo: a connection is registered
    wire,         \* frames on the connection towards the peer
    ackWire,      \* ACKs on the connection back from the peer
    received,     \* the numbers the peer has received (its deduplication)
    acked,        \* ghost: the numbers handleACK erased
    drops,        \* injected frame losses so far
    disconnects   \* disconnects so far

vars == <<nextSeq, queued, waiting, old, writing, conn, wire, ackWire,
          received, acked, drops, disconnects>>

Seqs == 0..(MaxMsgs - 1)

(* The entries of a queue, regardless of their order.                      *)
Elems(q) == {q[i] : i \in DOMAIN q}

(* The sequence listing the finite set S of numbers in increasing order,   *)
(* the order a std::map keyed by the number is iterated in.                *)
Ascending(S) ==
    {f \in [1..Cardinality(S) -> S] :
        /\ \A i, j \in 1..Cardinality(S) : i < j => f[i] < f[j]
        /\ \A x \in S : \E i \in 1..Cardinality(S) : f[i] = x}

(* The members initialised in the class body: m_messageNumber = 0 and      *)
(* m_availableToSendTo = false, both containers empty.                     *)
Init ==
    /\ nextSeq = 0
    /\ queued = <<>>
    /\ waiting = {}
    /\ old = {}
    /\ writing = NONE
    /\ conn = FALSE
    /\ wire = <<>>
    /\ ackWire = <<>>
    /\ received = {}
    /\ acked = {}
    /\ drops = 0
    /\ disconnects = 0

(* send(): an application thread takes the next message number and        *)
(* appends the entry to m_queued under m_queuedMutex.                     *)
Send ==
    /\ nextSeq < MaxMsgs
    /\ queued' = Append(queued, nextSeq)
    /\ nextSeq' = nextSeq + 1
    /\ UNCHANGED <<waiting, old, writing, conn, wire, ackWire, received,
                   acked, drops, disconnects>>

(* registerTCPConnection: a connection to the peer is registered and the  *)
(* queue becomes available to send to.                                    *)
RegisterConnection ==
    /\ ~conn
    /\ conn' = TRUE
    /\ UNCHANGED <<nextSeq, queued, waiting, old, writing, wire, ackWire,
                   received, acked, drops, disconnects>>

(* Mutant of Empty: the aged entries are copied into m_queued and stay in  *)
(* m_waitingForACK.                                                        *)
EmptyCopies ==
    /\ conn /\ writing = NONE
    /\ queued = <<>>
    /\ old # {}
    /\ \E f \in Ascending(old) : queued' = f
    /\ old' = {}
    /\ UNCHANGED <<nextSeq, waiting, writing, conn, wire, ackWire, received,
                   acked, drops, disconnects>>

(* Mutant of Empty: empty() only reports on m_queued and never requeues    *)
(* aged entries.                                                           *)
EmptyWithoutRetransmit ==
    /\ conn /\ writing = NONE
    /\ queued = <<>>
    /\ old # {}
    /\ UNCHANGED vars

(* empty() called by the idle writer when m_queued is empty: every entry   *)
(* older than half its timeout is put back into m_queued, keeping its     *)
(* number, for retransmission.                                             *)
Empty ==
    /\ conn /\ writing = NONE
    /\ queued = <<>>
    /\ old # {}
    /\ \E f \in Ascending(old) : queued' = f
    /\ waiting' = waiting \ old
    /\ old' = {}
    /\ UNCHANGED <<nextSeq, writing, conn, wire, ackWire, received, acked,
                   drops, disconnects>>

(* front(): the writer takes the topmost entry, which stays in m_queued,  *)
(* and starts the asynchronous write of its frame.                        *)
WriteFront ==
    /\ conn /\ writing = NONE
    /\ queued # <<>>
    /\ Len(wire) < MaxWire
    /\ writing' = Head(queued)
    /\ wire' = Append(wire, Head(queued))
    /\ UNCHANGED <<nextSeq, queued, waiting, old, conn, ackWire, received,
                   acked, drops, disconnects>>

(* Mutant of PopFromQueued: the completion handler moves the entry but     *)
(* does not clear the mark of the write in progress.                       *)
PopFromQueuedKeepsWriting ==
    /\ writing # NONE
    /\ queued' = Tail(queued)
    /\ waiting' = waiting \cup {writing}
    /\ old' = old \ {writing}
    /\ UNCHANGED <<nextSeq, writing, conn, wire, ackWire, received, acked,
                   drops, disconnects>>

(* popFromQueued(), from the completion handler of the write: the entry   *)
(* leaves m_queued and enters m_waitingForACK with a fresh send time.     *)
PopFromQueued ==
    /\ writing # NONE
    /\ queued' = Tail(queued)
    /\ waiting' = waiting \cup {writing}
    /\ old' = old \ {writing}
    /\ writing' = NONE
    /\ UNCHANGED <<nextSeq, conn, wire, ackWire, received, acked, drops,
                   disconnects>>

(* Mutant of HandleACK: the erased entry keeps its age mark.              *)
HandleACKKeepsAge ==
    /\ ackWire # <<>>
    /\ LET s == Head(ackWire) IN
        /\ waiting' = waiting \ {s}
        /\ acked' = IF s \in waiting THEN acked \cup {s} ELSE acked
    /\ ackWire' = Tail(ackWire)
    /\ UNCHANGED <<nextSeq, queued, old, writing, conn, wire, received, drops,
                   disconnects>>

(* handleACK(): the reactor reads an ACK and erases its entry from         *)
(* m_waitingForACK; a number not in the map is dropped silently.           *)
HandleACK ==
    /\ ackWire # <<>>
    /\ LET s == Head(ackWire) IN
        /\ waiting' = waiting \ {s}
        /\ old' = old \ {s}
        /\ acked' = IF s \in waiting THEN acked \cup {s} ELSE acked
    /\ ackWire' = Tail(ackWire)
    /\ UNCHANGED <<nextSeq, queued, writing, conn, wire, received, drops,
                   disconnects>>

(* Time passes for an entry waiting for its ACK: it becomes older than     *)
(* half its timeout.                                                       *)
Age(s) ==
    /\ s \in waiting \ old
    /\ old' = old \cup {s}
    /\ UNCHANGED <<nextSeq, queued, waiting, writing, conn, wire, ackWire,
                   received, acked, drops, disconnects>>

(* Mutant of Disconnect: m_waitingForACK is cleared without requeueing.    *)
DisconnectDropsWaiting ==
    /\ conn
    /\ disconnects < MaxDisconnects
    /\ waiting' = {}
    /\ old' = {}
    /\ writing' = NONE
    /\ conn' = FALSE
    /\ wire' = <<>>
    /\ ackWire' = <<>>
    /\ disconnects' = disconnects + 1
    /\ UNCHANGED <<nextSeq, queued, received, acked, drops>>

(* The connection is lost: its frames in both directions are gone, the    *)
(* pending write fails, the queue is no longer available, and every entry *)
(* waiting for an ACK moves back to the head of m_queued.                  *)
Disconnect ==
    /\ conn
    /\ disconnects < MaxDisconnects
    /\ \E f \in Ascending(waiting) : queued' = f \o queued
    /\ waiting' = {}
    /\ old' = {}
    /\ writing' = NONE
    /\ conn' = FALSE
    /\ wire' = <<>>
    /\ ackWire' = <<>>
    /\ disconnects' = disconnects + 1
    /\ UNCHANGED <<nextSeq, received, acked, drops>>

(* The peer reads a frame, keeps its number for deduplication and sends   *)
(* an ACK for it, for a duplicate as well.                                 *)
Receive ==
    /\ wire # <<>>
    /\ Len(ackWire) < MaxWire
    /\ received' = received \cup {Head(wire)}
    /\ ackWire' = Append(ackWire, Head(wire))
    /\ wire' = Tail(wire)
    /\ UNCHANGED <<nextSeq, queued, waiting, old, writing, conn, acked,
                   drops, disconnects>>

(* The removal of the i-th element of a sequence.                           *)
RemoveAt(q, i) == [k \in 1..(Len(q) - 1) |-> IF k < i THEN q[k] ELSE q[k + 1]]

(* An injected loss of one frame in either direction.                      *)
DropFrame ==
    /\ drops < MaxDrops
    /\ \/ \E i \in 1..Len(wire) :
            /\ wire' = RemoveAt(wire, i)
            /\ UNCHANGED ackWire
       \/ \E i \in 1..Len(ackWire) :
            /\ ackWire' = RemoveAt(ackWire, i)
            /\ UNCHANGED wire
    /\ drops' = drops + 1
    /\ UNCHANGED <<nextSeq, queued, waiting, old, writing, conn, received,
                   acked, disconnects>>

Next ==
    \/ Send \/ RegisterConnection \/ Empty \/ WriteFront \/ PopFromQueued
    \/ HandleACK \/ Disconnect \/ Receive \/ DropFrame
    \/ \E s \in Seqs : Age(s)

(* The reactor runs its handlers, the peer reads its socket, time passes   *)
(* and a lost connection is registered again; the application and the     *)
(* faults are not fair.                                                    *)
Fairness ==
    /\ WF_vars(Empty) /\ WF_vars(WriteFront) /\ WF_vars(PopFromQueued)
    /\ WF_vars(HandleACK) /\ WF_vars(Receive) /\ WF_vars(RegisterConnection)
    /\ \A s \in Seqs : WF_vars(Age(s))

Spec == Init /\ [][Next]_vars
FairSpec == Spec /\ Fairness

-----------------------------------------------------------------------------

TypeOK ==
    /\ nextSeq \in 0..MaxMsgs
    /\ queued \in Seq(Seqs)
    /\ waiting \subseteq Seqs /\ old \subseteq waiting
    /\ writing \in Seqs \cup {NONE}
    /\ conn \in BOOLEAN
    /\ wire \in Seq(Seqs) /\ ackWire \in Seq(Seqs)
    /\ received \subseteq Seqs /\ acked \subseteq Seqs
    /\ drops \in 0..MaxDrops /\ disconnects \in 0..MaxDisconnects

(* Section 8 of the specification: every entry waiting for an ACK has a    *)
(* number below m_messageNumber that no other entry of the queue carries;  *)
(* the entries retransmitted by empty() and requeued on a disconnect are   *)
(* moved, never copied, between m_queued and m_waitingForACK.              *)
SeqsUnique ==
    /\ \A i, j \in DOMAIN queued : i # j => queued[i] # queued[j]
    /\ Elems(queued) \cap waiting = {}
    /\ Elems(queued) \cup waiting \subseteq 0..(nextSeq - 1)

(* No entry is lost: an entry the application sent is either still held,  *)
(* in m_queued or in m_waitingForACK, or was erased by an ACK of the peer, *)
(* and then the peer has received it, whatever losses, disconnects,        *)
(* retransmissions and early ACKs happened.                                *)
NoEntryLost ==
    \A s \in 0..(nextSeq - 1) :
        IF s \in acked THEN s \in received
        ELSE s \in Elems(queued) \cup waiting

(* The inductive strengthening of SeqsUnique and NoEntryLost: the entry   *)
(* being written is the front of m_queued, an erased entry is held         *)
(* nowhere, and every number on the wire or acknowledged was sent, every   *)
(* ACK in flight answers a frame the peer received.                        *)
QueueInv ==
    /\ TypeOK
    /\ SeqsUnique
    /\ NoEntryLost
    /\ writing # NONE => queued # <<>> /\ Head(queued) = writing
    /\ acked \cap (Elems(queued) \cup waiting) = {}
    /\ acked \cup received \subseteq 0..(nextSeq - 1)
    /\ Elems(wire) \subseteq 0..(nextSeq - 1)
    /\ Elems(ackWire) \subseteq received

(* No step brings an entry back: after any step, m_queued and             *)
(* m_waitingForACK hold only entries they held before and the one send()   *)
(* just numbered.  An entry erased by handleACK stays erased, whatever     *)
(* retransmission of empty() or requeueing on a disconnect follows: both   *)
(* containers must forget it together.                                     *)
NoResurrection ==
    [][Elems(queued') \cup waiting' \subseteq Elems(queued) \cup waiting \cup {nextSeq}]_vars

(* Every entry the application sends is eventually received by the peer,  *)
(* after the finitely many losses and disconnects, through the             *)
(* retransmission of empty() and the requeueing on a disconnect.          *)
EventuallyReceived == \A s \in Seqs : (s < nextSeq) ~> (s \in received)

(* The queue implements reliable transfer: the pending entries are those   *)
(* sent and not erased by an ACK, the delivered ones those the peer has,   *)
(* and the channel is the connection towards the peer.  Each write of      *)
(* front(), first or retransmitted, is a Transmit, each frame the peer     *)
(* reads a Deliver, a duplicate included, and each lost frame or broken    *)
(* connection a loss: so an entry is erased only after the peer received   *)
(* it, and no retransmission of empty() or requeueing on a disconnect ever *)
(* writes an entry handleACK has erased.                                   *)
Transfer == INSTANCE ReliableTransfer WITH
    next <- nextSeq,
    pending <- (0..(nextSeq - 1)) \ acked,
    delivered <- received,
    channel <- wire

TransferSpec == Transfer!Spec

=============================================================================
