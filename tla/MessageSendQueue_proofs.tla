----------------------- MODULE MessageSendQueue_proofs -----------------------
(***************************************************************************)
(* Proofs about the message send queue, for every number of entries, every *)
(* wire capacity and any numbers of losses and disconnects.                *)
(***************************************************************************)
EXTENDS MessageSendQueue, FiniteSetTheorems, TLAPS

(* A queue that holds no number twice.                                     *)
Distinct(q) == \A i, j \in DOMAIN q : i # j => q[i] # q[j]

(* Appending a number not yet in a queue keeps it free of repetitions and  *)
(* adds exactly that number.                                               *)
LEMMA AppendElems ==
  ASSUME NEW T, NEW q \in Seq(T), NEW x \in T
  PROVE  /\ Append(q, x) \in Seq(T)
         /\ Elems(Append(q, x)) = Elems(q) \cup {x}
         /\ Distinct(q) /\ x \notin Elems(q) => Distinct(Append(q, x))
  <1>1. Append(q, x) \in Seq(T)
    OBVIOUS
  <1>2. Elems(Append(q, x)) = Elems(q) \cup {x}
    <2>1. ASSUME NEW y \in Elems(Append(q, x)) PROVE y \in Elems(q) \cup {x}
      BY <2>1 DEF Elems
    <2>2. ASSUME NEW y \in Elems(q) \cup {x} PROVE y \in Elems(Append(q, x))
      <3>1. CASE y = x
        <4>1. Append(q, x)[Len(q) + 1] = x
          OBVIOUS
        <4>2. QED
          BY <3>1, <4>1 DEF Elems
      <3>2. CASE y \in Elems(q)
        <4>1. PICK i \in 1..Len(q) : q[i] = y
          BY <3>2 DEF Elems
        <4>2. Append(q, x)[i] = y
          BY <4>1
        <4>3. QED
          BY <4>1, <4>2 DEF Elems
      <3>3. QED
        BY <2>2, <3>1, <3>2
    <2>3. QED
      BY <2>1, <2>2
  <1>3. Distinct(q) /\ x \notin Elems(q) => Distinct(Append(q, x))
    BY DEF Distinct, Elems
  <1>4. QED
    BY <1>1, <1>2, <1>3

(* Removing the front of a queue removes its head, and nothing else when  *)
(* the queue holds no repetition.                                          *)
LEMMA TailElems ==
  ASSUME NEW T, NEW q \in Seq(T), q # <<>>
  PROVE  /\ Tail(q) \in Seq(T)
         /\ Elems(q) = Elems(Tail(q)) \cup {Head(q)}
         /\ Distinct(q) => Distinct(Tail(q)) /\ Head(q) \notin Elems(Tail(q))
  <1>1. Tail(q) \in Seq(T)
    OBVIOUS
  <1>2. Elems(q) = Elems(Tail(q)) \cup {Head(q)}
    <2>1. ASSUME NEW y \in Elems(q) PROVE y \in Elems(Tail(q)) \cup {Head(q)}
      <3>1. PICK i \in 1..Len(q) : q[i] = y
        BY <2>1 DEF Elems
      <3>2. CASE i = 1
        BY <3>1, <3>2
      <3>3. CASE i # 1
        <4>1. i - 1 \in 1..Len(Tail(q)) /\ Tail(q)[i - 1] = y
          BY <3>1, <3>3
        <4>2. i - 1 \in DOMAIN Tail(q)
          BY <4>1, <1>1
        <4>3. QED
          BY <4>1, <4>2, Zenon DEF Elems
      <3>4. QED
        BY <3>2, <3>3
    <2>2. ASSUME NEW y \in Elems(Tail(q)) PROVE y \in Elems(q)
      <3>1. PICK i \in 1..Len(Tail(q)) : Tail(q)[i] = y
        BY <2>2 DEF Elems
      <3>2. i + 1 \in 1..Len(q) /\ q[i + 1] = y
        BY <3>1
      <3>3. QED
        BY <3>2 DEF Elems
    <2>3. Head(q) \in Elems(q)
      BY DEF Elems
    <2>4. QED
      BY <2>1, <2>2, <2>3
  <1>3. ASSUME Distinct(q) PROVE Distinct(Tail(q)) /\ Head(q) \notin Elems(Tail(q))
    <2>1. Distinct(Tail(q))
      BY <1>3 DEF Distinct
    <2>2. Head(q) \notin Elems(Tail(q))
      <3>1. SUFFICES ASSUME NEW i \in 1..Len(Tail(q)), Tail(q)[i] = Head(q)
                     PROVE  FALSE
        BY DEF Elems
      <3>2. q[i + 1] = q[1] /\ i + 1 # 1 /\ i + 1 \in DOMAIN q /\ 1 \in DOMAIN q
        BY <3>1
      <3>3. QED
        BY <3>2, <1>3 DEF Distinct
    <2>3. QED
      BY <2>1, <2>2
  <1>4. QED
    BY <1>1, <1>2, <1>3

(* Removing any element of a queue leaves a queue of the same elements.     *)
LEMMA RemoveAtElems ==
  ASSUME NEW T, NEW q \in Seq(T), NEW i \in 1..Len(q)
  PROVE  /\ RemoveAt(q, i) \in Seq(T)
         /\ Elems(RemoveAt(q, i)) \subseteq Elems(q)
  <1>1. Len(q) - 1 \in Nat
    OBVIOUS
  <1>2. RemoveAt(q, i) \in Seq(T)
    BY <1>1 DEF RemoveAt
  <1>3. ASSUME NEW y \in Elems(RemoveAt(q, i)) PROVE y \in Elems(q)
    <2>1. PICK k \in 1..(Len(q) - 1) : RemoveAt(q, i)[k] = y
      BY <1>1, <1>3 DEF Elems, RemoveAt
    <2>2. \/ k \in 1..Len(q) /\ q[k] = y
          \/ k + 1 \in 1..Len(q) /\ q[k + 1] = y
      BY <2>1 DEF RemoveAt
    <2>3. QED
      BY <2>2 DEF Elems
  <1>4. QED
    BY <1>2, <1>3

(* A queue put in front of another: the elements of both, and no           *)
(* repetition when neither has one and they share no element.              *)
LEMMA ConcatElems ==
  ASSUME NEW T, NEW f \in Seq(T), NEW q \in Seq(T)
  PROVE  /\ f \o q \in Seq(T)
         /\ Elems(f \o q) = Elems(f) \cup Elems(q)
         /\ Distinct(f) /\ Distinct(q) /\ Elems(f) \cap Elems(q) = {}
              => Distinct(f \o q)
  <1>1. f \o q \in Seq(T)
    OBVIOUS
  <1>2. Elems(f \o q) = Elems(f) \cup Elems(q)
    <2>1. ASSUME NEW y \in Elems(f \o q) PROVE y \in Elems(f) \cup Elems(q)
      <3>1. PICK k \in 1..Len(f \o q) : (f \o q)[k] = y
        BY <2>1 DEF Elems
      <3>2. CASE k <= Len(f)
        <4>1. k \in 1..Len(f) /\ f[k] = y
          BY <3>1, <3>2
        <4>2. QED
          BY <4>1 DEF Elems
      <3>3. CASE k > Len(f)
        <4>1. k - Len(f) \in 1..Len(q) /\ q[k - Len(f)] = y
          BY <3>1, <3>3
        <4>2. QED
          BY <4>1 DEF Elems
      <3>4. QED
        BY <3>2, <3>3
    <2>2. ASSUME NEW y \in Elems(f) PROVE y \in Elems(f \o q)
      <3>1. PICK k \in 1..Len(f) : f[k] = y
        BY <2>2 DEF Elems
      <3>2. k \in 1..Len(f \o q) /\ (f \o q)[k] = y
        BY <3>1
      <3>3. QED
        BY <3>2 DEF Elems
    <2>3. ASSUME NEW y \in Elems(q) PROVE y \in Elems(f \o q)
      <3>1. PICK k \in 1..Len(q) : q[k] = y
        BY <2>3 DEF Elems
      <3>2. k + Len(f) \in 1..Len(f \o q) /\ (f \o q)[k + Len(f)] = y
        BY <3>1
      <3>3. QED
        BY <3>2 DEF Elems
    <2>4. QED
      BY <2>1, <2>2, <2>3
  <1>3. ASSUME Distinct(f), Distinct(q), Elems(f) \cap Elems(q) = {}
        PROVE  Distinct(f \o q)
    <2>1. SUFFICES ASSUME NEW i \in 1..Len(f \o q), NEW j \in 1..Len(f \o q),
                          i # j, (f \o q)[i] = (f \o q)[j]
                   PROVE  FALSE
      BY DEF Distinct
    <2>2. CASE i <= Len(f) /\ j <= Len(f)
      BY <2>1, <2>2, <1>3 DEF Distinct
    <2>3. CASE i > Len(f) /\ j > Len(f)
      <3>1. i - Len(f) \in 1..Len(q) /\ j - Len(f) \in 1..Len(q)
            /\ i - Len(f) # j - Len(f) /\ q[i - Len(f)] = q[j - Len(f)]
        BY <2>1, <2>3
      <3>2. QED
        BY <3>1, <1>3 DEF Distinct
    <2>4. CASE i <= Len(f) /\ j > Len(f)
      <3>1. f[i] \in Elems(f) /\ q[j - Len(f)] \in Elems(q) /\ f[i] = q[j - Len(f)]
        BY <2>1, <2>4 DEF Elems
      <3>2. QED
        BY <3>1, <1>3
    <2>5. CASE i > Len(f) /\ j <= Len(f)
      <3>1. f[j] \in Elems(f) /\ q[i - Len(f)] \in Elems(q) /\ f[j] = q[i - Len(f)]
        BY <2>1, <2>5 DEF Elems
      <3>2. QED
        BY <3>1, <1>3
    <2>6. QED
      BY <2>2, <2>3, <2>4, <2>5
  <1>4. QED
    BY <1>1, <1>2, <1>3

(* The ascending enumeration of a finite set of numbers lists exactly its  *)
(* elements, each once.                                                    *)
LEMMA AscendingElems ==
  ASSUME NEW S \in SUBSET Nat, IsFiniteSet(S), NEW f \in Ascending(S)
  PROVE  /\ f \in Seq(S)
         /\ Elems(f) = S
         /\ Distinct(f)
  <1> DEFINE n == Cardinality(S)
  <1>1. n \in Nat
    BY FS_CardinalityType
  <1>2. /\ f \in [1..n -> S]
        /\ \A i, j \in 1..n : i < j => f[i] < f[j]
        /\ \A x \in S : \E i \in 1..n : f[i] = x
    BY DEF Ascending
  <1>3. f \in Seq(S)
    BY <1>1, <1>2
  <1>4. Elems(f) = S
    BY <1>2 DEF Elems
  <1>5. Distinct(f)
    <2>1. SUFFICES ASSUME NEW i \in 1..n, NEW j \in 1..n, i # j, f[i] = f[j]
                   PROVE  FALSE
      BY <1>2 DEF Distinct
    <2>2. f[i] \in Nat /\ f[j] \in Nat
      BY <1>2
    <2>3. QED
      BY <2>1, <2>2, <1>1, <1>2
  <1>6. QED
    BY <1>3, <1>4, <1>5

(* The numbers below a bound form a finite set, as every subset of them.  *)
LEMMA SeqsFinite ==
  ASSUME NEW S \in SUBSET Seqs
  PROVE  IsFiniteSet(S) /\ S \subseteq Nat
  <1>1. IsFiniteSet(Seqs)
    BY FS_Interval, MsqAssumption DEF Seqs
  <1>2. IsFiniteSet(S)
    BY <1>1, FS_Subset
  <1>3. S \subseteq Nat
    BY DEF Seqs
  <1>4. QED
    BY <1>2, <1>3

(* SeqsUnique and NoEntryLost hold in every reachable state, for every     *)
(* number of entries, wire capacity and numbers of faults: popFromQueued,  *)
(* the retransmission of empty(), the requeue on a disconnect and an ACK   *)
(* arriving before the write completed never duplicate or lose an entry.   *)
THEOREM QueueInvariant == Spec => []QueueInv
<1> USE MsqAssumption
<1>1. Init => QueueInv
  <2> SUFFICES ASSUME Init PROVE QueueInv
    OBVIOUS
  <2>1. TypeOK
    <3>1. <<>> \in Seq(Seqs) /\ 0 \in 0..MaxMsgs /\ NONE \in Seqs \cup {NONE}
      OBVIOUS
    <3>2. 0 \in 0..MaxDrops /\ 0 \in 0..MaxDisconnects
      OBVIOUS
    <3>3. QED
      BY <3>1, <3>2 DEF Init, TypeOK
  <2>2. Elems(queued) = {} /\ Elems(wire) = {} /\ Elems(ackWire) = {}
    BY DEF Init, Elems
  <2>3. SeqsUnique /\ NoEntryLost
    BY <2>2 DEF Init, SeqsUnique, NoEntryLost
  <2>4. QED
    BY <2>1, <2>2, <2>3 DEF Init, QueueInv
<1>2. QueueInv /\ [Next]_vars => QueueInv'
  <2> SUFFICES ASSUME QueueInv, [Next]_vars PROVE QueueInv'
    OBVIOUS
  <2>0. /\ queued \in Seq(Seqs) /\ wire \in Seq(Seqs) /\ ackWire \in Seq(Seqs)
        /\ Distinct(queued) /\ nextSeq \in Nat
    BY DEF QueueInv, TypeOK, SeqsUnique, Distinct
  <2>1. CASE Send
    <3>1. nextSeq \in Seqs /\ nextSeq \notin Elems(queued)
      BY <2>1 DEF Send, QueueInv, TypeOK, SeqsUnique, Seqs
    <3>2. /\ Append(queued, nextSeq) \in Seq(Seqs)
          /\ Elems(Append(queued, nextSeq)) = Elems(queued) \cup {nextSeq}
          /\ Distinct(Append(queued, nextSeq))
      BY <2>0, <3>1, AppendElems
    <3>3. TypeOK'
      BY <2>1, <3>2 DEF Send, QueueInv, TypeOK, Seqs
    <3>4. SeqsUnique'
      BY <2>0, <2>1, <3>2 DEF Send, QueueInv, SeqsUnique, Distinct
    <3>5. NoEntryLost'
      BY <2>0, <2>1, <3>2 DEF Send, QueueInv, NoEntryLost
    <3>6. writing' # NONE => queued' # <<>> /\ Head(queued') = writing'
      BY <2>1, <2>0 DEF Send, QueueInv
    <3>7. QED
      BY <2>0, <2>1, <3>2, <3>3, <3>4, <3>5, <3>6 DEF Send, QueueInv
  <2>2. CASE RegisterConnection
    BY <2>2 DEF RegisterConnection, QueueInv, TypeOK, SeqsUnique, NoEntryLost
  <2>3. CASE Empty
    <3>1. PICK f \in Ascending(old) : queued' = f
      BY <2>3 DEF Empty
    <3>2. old \in SUBSET Seqs
      BY DEF QueueInv, TypeOK
    <3>3. f \in Seq(Seqs) /\ Elems(f) = old /\ Distinct(f)
      BY <3>1, <3>2, SeqsFinite, AscendingElems
    <3>4. queued = <<>> /\ Elems(queued) = {}
      BY <2>3 DEF Empty, Elems
    <3>5. QED
      BY <2>3, <3>1, <3>3, <3>4 DEF Empty, QueueInv, TypeOK, SeqsUnique,
                                    NoEntryLost, Distinct
  <2>4. CASE WriteFront
    <3>1. queued # <<>> /\ Head(queued) \in Seqs
      BY <2>4, <2>0 DEF WriteFront
    <3>2. Head(queued) \in Elems(queued)
      BY <3>1, <2>0 DEF Elems
    <3>3. Append(wire, Head(queued)) \in Seq(Seqs)
          /\ Elems(Append(wire, Head(queued))) = Elems(wire) \cup {Head(queued)}
      BY <3>1, <2>0, AppendElems
    <3>4. QED
      BY <2>4, <3>1, <3>2, <3>3 DEF WriteFront, QueueInv, TypeOK, SeqsUnique,
                                    NoEntryLost
  <2>5. CASE PopFromQueued
    <3>1. queued # <<>> /\ Head(queued) = writing
      BY <2>5 DEF PopFromQueued, QueueInv
    <3>2. /\ Tail(queued) \in Seq(Seqs)
          /\ Elems(queued) = Elems(Tail(queued)) \cup {writing}
          /\ Distinct(Tail(queued)) /\ writing \notin Elems(Tail(queued))
      BY <3>1, <2>0, TailElems
    <3>3. QED
      BY <2>5, <3>1, <3>2 DEF PopFromQueued, QueueInv, TypeOK, SeqsUnique,
                             NoEntryLost, Distinct
  <2>6. CASE HandleACK
    <3>1. ackWire # <<>> /\ Head(ackWire) \in received
      BY <2>6, <2>0 DEF HandleACK, QueueInv, Elems
    <3>2. Tail(ackWire) \in Seq(Seqs)
          /\ Elems(ackWire) = Elems(Tail(ackWire)) \cup {Head(ackWire)}
      BY <3>1, <2>0, TailElems
    <3>3. QED
      BY <2>6, <3>1, <3>2 DEF HandleACK, QueueInv, TypeOK, SeqsUnique,
                             NoEntryLost
  <2>7. CASE Disconnect
    <3>1. PICK f \in Ascending(waiting) : queued' = f \o queued
      BY <2>7 DEF Disconnect
    <3>2. waiting \in SUBSET Seqs
      BY DEF QueueInv, TypeOK
    <3>3. f \in Seq(Seqs) /\ Elems(f) = waiting /\ Distinct(f)
      BY <3>1, <3>2, SeqsFinite, AscendingElems
    <3>4. Elems(f) \cap Elems(queued) = {}
      BY <3>3 DEF QueueInv, SeqsUnique
    <3>5. /\ f \o queued \in Seq(Seqs)
          /\ Elems(f \o queued) = waiting \cup Elems(queued)
          /\ Distinct(f \o queued)
      BY <3>3, <3>4, <2>0, ConcatElems
    <3>6. TypeOK'
      <4>1. disconnects' \in 0..MaxDisconnects
        BY <2>7 DEF Disconnect, QueueInv, TypeOK
      <4>2. <<>> \in Seq(Seqs) /\ NONE \in Seqs \cup {NONE}
        OBVIOUS
      <4>3. queued' \in Seq(Seqs)
        BY <3>1, <3>5
      <4>4. QED
        BY <2>7, <4>1, <4>2, <4>3 DEF Disconnect, QueueInv, TypeOK
    <3>7. SeqsUnique'
      BY <2>7, <3>1, <3>5 DEF Disconnect, QueueInv, SeqsUnique, Distinct
    <3>8. NoEntryLost'
      BY <2>7, <3>1, <3>5 DEF Disconnect, QueueInv, NoEntryLost
    <3>9. Elems(<<>>) = {}
      BY DEF Elems
    <3>10. QED
      BY <2>7, <3>1, <3>5, <3>6, <3>7, <3>8, <3>9 DEF Disconnect, QueueInv
  <2>8. CASE Receive
    <3>1. wire # <<>> /\ Head(wire) \in Elems(wire)
      BY <2>8, <2>0 DEF Receive, Elems
    <3>2. /\ Tail(wire) \in Seq(Seqs)
          /\ Elems(wire) = Elems(Tail(wire)) \cup {Head(wire)}
          /\ Append(ackWire, Head(wire)) \in Seq(Seqs)
          /\ Elems(Append(ackWire, Head(wire))) = Elems(ackWire) \cup {Head(wire)}
      BY <3>1, <2>0, TailElems, AppendElems
    <3>3. QED
      BY <2>8, <3>1, <3>2 DEF Receive, QueueInv, TypeOK, SeqsUnique,
                             NoEntryLost
  <2>9. CASE DropFrame
    <3>1. CASE \E i \in 1..Len(wire) : wire' = RemoveAt(wire, i) /\ UNCHANGED ackWire
      <4>1. PICK i \in 1..Len(wire) : wire' = RemoveAt(wire, i) /\ UNCHANGED ackWire
        BY <3>1
      <4>2. RemoveAt(wire, i) \in Seq(Seqs) /\ Elems(RemoveAt(wire, i)) \subseteq Elems(wire)
        BY <2>0, RemoveAtElems
      <4>3. QED
        BY <2>9, <4>1, <4>2 DEF DropFrame, QueueInv, TypeOK, SeqsUnique,
                               NoEntryLost
    <3>2. CASE \E i \in 1..Len(ackWire) : ackWire' = RemoveAt(ackWire, i) /\ UNCHANGED wire
      <4>1. PICK i \in 1..Len(ackWire) : ackWire' = RemoveAt(ackWire, i) /\ UNCHANGED wire
        BY <3>2
      <4>2. RemoveAt(ackWire, i) \in Seq(Seqs)
            /\ Elems(RemoveAt(ackWire, i)) \subseteq Elems(ackWire)
        BY <2>0, RemoveAtElems
      <4>3. QED
        BY <2>9, <4>1, <4>2 DEF DropFrame, QueueInv, TypeOK, SeqsUnique,
                               NoEntryLost
    <3>3. QED
      BY <2>9, <3>1, <3>2 DEF DropFrame
  <2>10. ASSUME NEW s \in Seqs, Age(s) PROVE QueueInv'
    BY <2>10 DEF Age, QueueInv, TypeOK, SeqsUnique, NoEntryLost
  <2>11. CASE UNCHANGED vars
    BY <2>11 DEF vars, QueueInv, TypeOK, SeqsUnique, NoEntryLost
  <2>12. QED
    BY <2>1, <2>2, <2>3, <2>4, <2>5, <2>6, <2>7, <2>8, <2>9, <2>10, <2>11
       DEF Next
<1>3. QED
  BY <1>1, <1>2, PTL DEF Spec


(* The queue implements ReliableTransfer under the mapping of Transfer:     *)
(* Send is SendEntry; a write of front() is Transmit; every frame the peer *)
(* reads is Deliver; handleACK of an entry still waiting is Release; a     *)
(* frame dropped on the way to the peer is LoseOne and a disconnect        *)
(* LoseAll; every other step leaves the abstract state alone.  The         *)
(* invariant supplies the abstract guards: the entry written is numbered   *)
(* and not acknowledged (acked is disjoint from m_queued), an entry        *)
(* acknowledged was received, and an ACK on the wire is for a received     *)
(* entry.                                                                  *)
THEOREM Refinement == Spec => TransferSpec
<1> USE MsqAssumption
<1>1. Init => Transfer!Init
  BY DEF Init, Transfer!Init
<1>2. ASSUME QueueInv, [Next]_vars PROVE [Transfer!Next]_Transfer!vars
  <2>0. nextSeq \in Nat /\ acked \subseteq 0..(nextSeq - 1)
    BY <1>2 DEF QueueInv, TypeOK
  <2>1. ASSUME UNCHANGED <<nextSeq, acked, received, wire>>
        PROVE [Transfer!Next]_Transfer!vars
    BY <2>1 DEF Transfer!vars
  <2>2. CASE Send
    <3>1. nextSeq \notin acked
      BY <2>0
    <3>2. (0..(nextSeq' - 1)) \ acked' = ((0..(nextSeq - 1)) \ acked) \cup {nextSeq}
      BY <2>0, <2>2, <3>1 DEF Send
    <3>3. Transfer!SendEntry
      BY <2>2, <3>2 DEF Send, Transfer!SendEntry, Seqs
    <3>4. QED
      BY <3>3 DEF Transfer!Next
  <2>3. CASE Receive
    <3>1. Transfer!Deliver
      BY <2>3 DEF Receive, Transfer!Deliver
    <3>2. QED
      BY <3>1 DEF Transfer!Next
  <2>4. CASE HandleACK
    <3>1. Head(ackWire) \in received
      BY <1>2, <2>4 DEF HandleACK, QueueInv, Elems
    <3>2. CASE Head(ackWire) \in waiting
      <4>1. Head(ackWire) \in 0..(nextSeq - 1) /\ Head(ackWire) \notin acked
        BY <1>2, <3>2 DEF QueueInv, SeqsUnique
      <4>2. Transfer!Release(Head(ackWire))
        BY <2>4, <3>1, <3>2, <4>1 DEF HandleACK, Transfer!Release
      <4>3. Head(ackWire) \in 0..(MaxMsgs - 1)
        BY <1>2, <4>1 DEF QueueInv, TypeOK
      <4>4. QED
        BY <4>2, <4>3 DEF Transfer!Next
    <3>3. CASE Head(ackWire) \notin waiting
      BY <2>1, <2>4, <3>3 DEF HandleACK
    <3>4. QED
      BY <3>2, <3>3
  <2>5. CASE WriteFront
    <3>1. Head(queued) \in Elems(queued)
      BY <2>5 DEF WriteFront, Elems
    <3>2. Head(queued) \in 0..(nextSeq - 1) /\ Head(queued) \notin acked
      BY <1>2, <3>1 DEF QueueInv, SeqsUnique
    <3>3. Head(queued) \in 0..(MaxMsgs - 1)
      BY <1>2, <3>2 DEF QueueInv, TypeOK
    <3>4. Transfer!Transmit(Head(queued))
      BY <2>5, <3>2 DEF WriteFront, Transfer!Transmit
    <3>5. QED
      BY <3>3, <3>4 DEF Transfer!Next
  <2>6. CASE Disconnect
    <3>1. Transfer!LoseAll
      BY <2>6 DEF Disconnect, Transfer!LoseAll
    <3>2. QED
      BY <3>1 DEF Transfer!Next
  <2>7. CASE DropFrame
    <3>1. CASE \E i \in 1..Len(wire) : wire' = RemoveAt(wire, i)
                                        /\ UNCHANGED ackWire
      <4>1. PICK i \in 1..Len(wire) : wire' = RemoveAt(wire, i)
        BY <3>1
      <4>2. Transfer!LoseOne(i)
        BY <2>7, <4>1 DEF DropFrame, Transfer!LoseOne, Transfer!Without, RemoveAt
      <4>3. QED
        BY <4>2 DEF Transfer!Next
    <3>2. CASE UNCHANGED wire
      BY <2>1, <2>7, <3>2 DEF DropFrame
    <3>3. QED
      BY <2>7, <3>1, <3>2 DEF DropFrame
  <2>8. CASE RegisterConnection \/ Empty \/ PopFromQueued \/ \E s \in Seqs : Age(s)
    BY <2>1, <2>8 DEF RegisterConnection, Empty, PopFromQueued, Age
  <2>9. CASE UNCHANGED vars
    BY <2>1, <2>9 DEF vars
  <2>10. QED
    BY <1>2, <2>2, <2>3, <2>4, <2>5, <2>6, <2>7, <2>8, <2>9 DEF Next
<1>3. QED
  BY <1>1, <1>2, QueueInvariant, PTL DEF Spec, TransferSpec, Transfer!Spec


(* The three invariants the run msq_delivery checks, for every value of the *)
(* constants: every state is well typed (in particular m_waitingForACK's    *)
(* old entries are among its entries), no number is queued or awaited      *)
(* twice, and no entry is lost before the peer has it.                      *)
THEOREM TypeCorrect == Spec => []TypeOK
  BY QueueInvariant, PTL DEF QueueInv

(* No number is held twice in m_queued and m_waitingForACK together.       *)
THEOREM NumbersUnique == Spec => []SeqsUnique
  BY QueueInvariant, PTL DEF QueueInv

(* An entry leaves the sender only through an ACK of a frame the peer      *)
(* received.                                                               *)
THEOREM EntriesKept == Spec => []NoEntryLost
  BY QueueInvariant, PTL DEF QueueInv

(* No step of the queue, the peer, the network or the connection puts an    *)
(* entry into m_queued or m_waitingForACK that neither held, except the one *)
(* send() numbers: popFromQueued moves the head it wrote, empty() moves old *)
(* entries of m_waitingForACK, a disconnect moves all of them, and handleACK *)
(* only removes.  So an entry erased by its ACK is never retransmitted.     *)
THEOREM NoResurrectionHolds == Spec => NoResurrection
<1> USE MsqAssumption
<1> DEFINE Held == Elems(queued) \cup waiting
           Step == Elems(queued') \cup waiting' \subseteq Held \cup {nextSeq}
<1>1. ASSUME QueueInv, [Next]_vars PROVE Step
  <2>0. queued \in Seq(Seqs) /\ waiting \subseteq Seqs /\ old \subseteq waiting
    BY <1>1 DEF QueueInv, TypeOK
  <2>1. CASE Send
    <3>1. nextSeq \in Seqs
      BY <1>1, <2>1 DEF Send, QueueInv, TypeOK, Seqs
    <3>2. Elems(Append(queued, nextSeq)) = Elems(queued) \cup {nextSeq}
      BY <2>0, <3>1, AppendElems
    <3>3. QED
      BY <2>1, <3>2 DEF Send
  <2>2. CASE Empty
    <3>1. PICK f \in Ascending(old) : queued' = f
      BY <2>2 DEF Empty
    <3>2. Elems(f) = old
      BY <2>0, <3>1, SeqsFinite, AscendingElems
    <3>3. QED
      BY <2>0, <2>2, <3>1, <3>2 DEF Empty
  <2>3. CASE PopFromQueued
    <3>1. queued # <<>> /\ Head(queued) = writing
      BY <1>1, <2>3 DEF PopFromQueued, QueueInv
    <3>2. Elems(queued) = Elems(Tail(queued)) \cup {Head(queued)}
      BY <2>0, <3>1, TailElems
    <3>3. QED
      BY <2>3, <3>1, <3>2 DEF PopFromQueued
  <2>4. CASE Disconnect
    <3>1. PICK f \in Ascending(waiting) : queued' = f \o queued
      BY <2>4 DEF Disconnect
    <3>2. f \in Seq(Seqs) /\ Elems(f) = waiting
      <4>1. waiting \in SUBSET Seqs
        BY <2>0
      <4>2. IsFiniteSet(waiting) /\ waiting \subseteq Nat
        BY <4>1, SeqsFinite
      <4>3. f \in Seq(waiting) /\ Elems(f) = waiting
        BY <3>1, <4>2, AscendingElems
      <4>4. QED
        BY <4>1, <4>3
    <3>3. Elems(f \o queued) = Elems(f) \cup Elems(queued)
      BY <2>0, <3>2, ConcatElems
    <3>4. QED
      BY <2>4, <3>1, <3>2, <3>3 DEF Disconnect
  <2>5. CASE HandleACK
    BY <2>5 DEF HandleACK
  <2>6. CASE RegisterConnection \/ WriteFront \/ Receive \/ DropFrame
             \/ \E s \in Seqs : Age(s)
    BY <2>6 DEF RegisterConnection, WriteFront, Receive, DropFrame, Age
  <2>7. CASE UNCHANGED vars
    BY <2>7 DEF vars
  <2>8. QED
    BY <1>1, <2>1, <2>2, <2>3, <2>4, <2>5, <2>6, <2>7 DEF Next
<1>2. QED
  BY <1>1, QueueInvariant, PTL DEF Spec, NoResurrection
=============================================================================
