------------------------- MODULE ShellStream_proofs -------------------------
(***************************************************************************)
(* Proofs about ShellStream, for any number of browsers, any capacities    *)
(* and any length of output.                                               *)
(***************************************************************************)
EXTENDS ShellStream, SequenceTheorems, TLAPS

(* The ring's index arithmetic, for every capacity and every chunk. *)

\* The remainders the ring takes are of numbers below twice its capacity.
Wrapped(x) == IF x < RingCap THEN x ELSE x - RingCap

LEMMA Wrap ==
  ASSUME NEW x \in 0 .. 2 * RingCap - 1
  PROVE  /\ x % RingCap = Wrapped(x) /\ Wrapped(x) \in 0 .. RingCap - 1
         /\ x < RingCap => Wrapped(x) = x
         /\ x >= RingCap => Wrapped(x) = x - RingCap
  BY RingAssumption DEF Wrapped

\* Where the n-th byte is found after an insertion: an old byte where it was, a
\* new one in the piece of the chunk that was copied there.
LEMMA SlotAfterInsert ==
  ASSUME NEW old \in 0 .. RingCap - 1, NEW sz \in 0 .. RingCap, NEW len \in 1 .. RingCap - 1,
         NEW first \in Nat, NEW n \in Nat \ {0},
         sz + len > RingCap => first = sz + len - RingCap,
         sz + len <= RingCap => first = 0,
         n <= sz + len - first
  PROVE  LET k == first + n
             at == Wrapped(old + sz)
             j == Wrapped(Wrapped(old + first) + n - 1)
         IN
         /\ j \in 0 .. RingCap - 1 /\ at \in 0 .. RingCap - 1
         /\ k <= sz => /\ j = Wrapped(old + k - 1)
                       /\ j \notin at .. at + len - 1
                       /\ ~(j + (RingCap - at) < len)
         /\ k > sz /\ j \in at .. at + len - 1 => j - at + 1 = k - sz
         /\ k > sz /\ j \notin at .. at + len - 1 => /\ j + (RingCap - at) < len
                                                    /\ j + (RingCap - at) + 1 = k - sz
  <1> DEFINE k == first + n
             at == Wrapped(old + sz)
             new == Wrapped(old + first)
             j == Wrapped(new + n - 1)
  <1>0. RingCap \in Nat \ {0} /\ k \in Nat /\ k = first + n
    BY RingAssumption
  <1>1. /\ at \in 0 .. RingCap - 1
        /\ at = old + sz \/ (at = old + sz - RingCap /\ old + sz >= RingCap)
    BY <1>0 DEF Wrapped
  <1>2. /\ new \in 0 .. RingCap - 1
        /\ new = old + first \/ (new = old + first - RingCap /\ old + first >= RingCap)
    BY <1>0 DEF Wrapped
  <1>3. /\ j \in 0 .. RingCap - 1
        /\ j = new + n - 1 \/ (j = new + n - 1 - RingCap /\ new + n - 1 >= RingCap)
    BY <1>0, <1>2 DEF Wrapped
  <1> HIDE DEF k, at, new, j
  <1>4. ASSUME k <= sz
        PROVE  /\ j = Wrapped(old + k - 1)
               /\ j \notin at .. at + len - 1
               /\ ~(j + (RingCap - at) < len)
    <2>1. j = Wrapped(old + k - 1)
      BY <1>0, <1>2, <1>3, <1>4 DEF Wrapped
    <2> QED
      BY <1>0, <1>1, <1>2, <1>3, <1>4, <2>1
  <1>5. ASSUME k > sz, j \in at .. at + len - 1
        PROVE  j - at + 1 = k - sz
    BY <1>0, <1>1, <1>2, <1>3, <1>5
  <1>6. ASSUME k > sz, j \notin at .. at + len - 1
        PROVE  j + (RingCap - at) < len /\ j + (RingCap - at) + 1 = k - sz
    BY <1>0, <1>1, <1>2, <1>3, <1>6
  <1> QED
    BY <1>1, <1>3, <1>4, <1>5, <1>6 DEF k, at, new, j

\* Where the n-th byte of a snapshot is, which starts at a slot.
LEMMA SnapshotSlot ==
  ASSUME NEW st \in Slots, NEW n \in 1 .. RingCap
  PROVE  /\ Wrapped(st + n - 1) \in Slots
         /\ n <= RingCap - st => Wrapped(st + n - 1) = st + n - 1
         /\ ~(n <= RingCap - st) => Wrapped(st + n - 1) = n - (RingCap - st) - 1
  BY RingAssumption DEF Slots, Wrapped

\* An empty ring is the tail of nothing.
LEMMA RingInitially == RingInit => RingTypeOK /\ RingIsTail
  BY RingAssumption DEF RingInit, RingTypeOK, RingIsTail, Snapshot, Slots

\* What write appends to the history.
LEMMA History ==
  ASSUME RingTypeOK, NEW p \in Seq(Bytes), Write(p)
  PROVE  /\ Len(p) \in Nat \ {0}
         /\ Len(written) \in Nat
         /\ written' \in Seq(Bytes)
         /\ Len(written') = Len(written) + Len(p)
         /\ \A n \in 1 .. Len(written) : written'[n] = written[n]
         /\ \A n \in 1 .. Len(p) : written'[Len(written) + n] = p[n]
  <1>1. written \in Seq(Bytes) /\ p # <<>> /\ written' = written \o p
    BY DEF RingTypeOK, Write
  <1> QED
    BY <1>1, ConcatProperties

\* A chunk as long as the ring replaces it.
LEMMA ReplaceKeepsTail ==
  ASSUME RingTypeOK, RingIsTail, NEW p \in Seq(Bytes), Write(p), Replace(p)
  PROVE  RingTypeOK' /\ RingIsTail'
  <1>0. /\ Len(p) \in Nat \ {0} /\ Len(written) \in Nat
        /\ written' \in Seq(Bytes)
        /\ Len(written') = Len(written) + Len(p)
        /\ \A n \in 1 .. Len(p) : written'[Len(written) + n] = p[n]
        /\ RingCap \in Nat \ {0}
    BY History, RingAssumption
  <1>1. /\ Len(p) >= RingCap
        /\ buf' = [i \in Slots |-> p[Len(p) - RingCap + i + 1]]
        /\ start' = 0 /\ size' = RingCap
    BY DEF Replace
  <1>2. \A i \in Slots : p[Len(p) - RingCap + i + 1] \in Bytes
    BY <1>0, <1>1 DEF Slots
  <1>3. RingTypeOK'
    BY <1>0, <1>1, <1>2 DEF RingTypeOK, Slots
  <1>4. ASSUME NEW n \in 1 .. size' PROVE Snapshot'[n] = written'[Len(written') - size' + n]
    <2>1. n - 1 \in Slots /\ Snapshot'[n] = buf'[n - 1]
      BY <1>1, <1>4, <1>0 DEF Snapshot, Slots
    <2>2. Snapshot'[n] = p[Len(p) - RingCap + n]
      <3>1. buf'[n - 1] = p[Len(p) - RingCap + (n - 1) + 1]
        BY <1>1, <2>1
      <3>2. Len(p) - RingCap + (n - 1) + 1 = Len(p) - RingCap + n
        BY <1>0, <1>1, <1>4
      <3> QED BY <2>1, <3>1, <3>2
    <2>3. Len(p) - RingCap + n \in 1 .. Len(p)
      BY <1>1, <1>4, <1>0
    <2>4. Len(written') - size' + n = Len(written) + (Len(p) - RingCap + n)
      BY <1>1, <1>4, <1>0
    <2> QED
      BY <2>2, <2>3, <2>4, <1>0
  <1>5. size' = IF Len(written') < RingCap THEN Len(written') ELSE RingCap
    BY <1>1, <1>0
  <1> QED
    BY <1>3, <1>4, <1>5 DEF RingIsTail

\* A shorter one goes behind the newest byte, over the oldest ones.
LEMMA InsertKeepsTail ==
  ASSUME RingTypeOK, RingIsTail, NEW p \in Seq(Bytes), Write(p), Insert(p)
  PROVE  RingTypeOK' /\ RingIsTail'
  <1> DEFINE at == Wrapped(start + size)
             first == IF size + Len(p) > RingCap THEN size + Len(p) - RingCap ELSE 0
  <1>1. /\ Len(p) \in Nat \ {0} /\ Len(written) \in Nat
        /\ written' \in Seq(Bytes)
        /\ Len(written') = Len(written) + Len(p)
        /\ \A n \in 1 .. Len(written) : written'[n] = written[n]
        /\ \A n \in 1 .. Len(p) : written'[Len(written) + n] = p[n]
    BY History
  <1>2. /\ start \in 0 .. RingCap - 1 /\ size \in 0 .. RingCap
        /\ buf \in [Slots -> Bytes \cup {Blank}]
        /\ RingCap \in Nat \ {0}
    BY RingAssumption DEF RingTypeOK, Slots
  <1>3. Len(p) \in 1 .. RingCap - 1
    BY <1>1, <1>2 DEF Insert
  <1>4. (start + size) % RingCap = at /\ at \in 0 .. RingCap - 1
    <2>1. start + size \in 0 .. 2 * RingCap - 1
      BY <1>2
    <2> QED
      BY <2>1, Wrap
  <1>5. buf' = [i \in Slots |->
                   IF i \in at .. at + Len(p) - 1 THEN p[i - at + 1]
                   ELSE IF i + (RingCap - at) < Len(p) THEN p[i + (RingCap - at) + 1]
                   ELSE buf[i]]
    BY <1>4 DEF Insert
  <1>6. /\ first \in 0 .. size
        /\ size + Len(p) > RingCap => first = size + Len(p) - RingCap
        /\ size + Len(p) <= RingCap => first = 0
    BY <1>2, <1>3
  <1> HIDE DEF at, first
  <1>7. size' = size + Len(p) - first /\ start' = Wrapped(start + first) /\ start' \in 0 .. RingCap - 1
    <2>1. start + first \in 0 .. 2 * RingCap - 1
      BY <1>2, <1>6
    <2>2. CASE size + Len(p) > RingCap
      <3>1. size' = RingCap /\ start' = (start + (size + Len(p)) - RingCap) % RingCap
        BY <2>2 DEF Insert
      <3>2. start + (size + Len(p)) - RingCap = start + first /\ size + Len(p) - first = RingCap
        BY <1>2, <1>3, <1>6, <2>2
      <3> QED
        BY <2>1, <3>1, <3>2, Wrap
    <2>3. CASE ~(size + Len(p) > RingCap)
      <3>1. size' = size + Len(p) /\ start' = start
        BY <2>3 DEF Insert
      <3>2. first = 0 /\ start + first = start /\ size + Len(p) - first = size + Len(p)
        BY <1>2, <1>3, <1>6, <2>3
      <3>3. Wrapped(start) = start
        BY <1>2 DEF Wrapped
      <3> QED
        BY <1>2, <3>1, <3>2, <3>3
    <2> QED
      BY <2>2, <2>3
  <1>8. size' \in 0 .. RingCap
    BY <1>2, <1>3, <1>6, <1>7
  <1>9. buf' \in [Slots -> Bytes \cup {Blank}]
    <2> SUFFICES ASSUME NEW i \in Slots
                 PROVE  (IF i \in at .. at + Len(p) - 1 THEN p[i - at + 1]
                         ELSE IF i + (RingCap - at) < Len(p) THEN p[i + (RingCap - at) + 1]
                         ELSE buf[i]) \in Bytes \cup {Blank}
      BY <1>5
    <2>1. i \in at .. at + Len(p) - 1 => i - at + 1 \in 1 .. Len(p)
      BY <1>2, <1>3, <1>4 DEF Slots
    <2>2. i + (RingCap - at) < Len(p) => i + (RingCap - at) + 1 \in 1 .. Len(p)
      BY <1>2, <1>3, <1>4 DEF Slots
    <2> QED
      BY <1>2, <2>1, <2>2
  <1>10. RingTypeOK'
    BY <1>1, <1>7, <1>8, <1>9 DEF RingTypeOK, Slots
  <1>11. /\ Len(written) < RingCap => size = Len(written)
         /\ Len(written) >= RingCap => size = RingCap
         /\ size <= Len(written)
    <2>1. size = IF Len(written) < RingCap THEN Len(written) ELSE RingCap
      BY DEF RingIsTail
    <2> QED
      BY <1>1, <1>2, <2>1
  <1>12. size' = IF Len(written') < RingCap THEN Len(written') ELSE RingCap
    <2>1. CASE size + Len(p) > RingCap
      <3>1. size' = RingCap
        BY <1>2, <1>3, <1>6, <1>7, <2>1
      <3>2. Len(written') >= RingCap /\ Len(written') \in Nat
        BY <1>1, <1>2, <1>3, <1>11, <2>1
      <3> QED
        BY <1>2, <3>1, <3>2
    <2>2. CASE size + Len(p) <= RingCap
      <3>1. size' = size + Len(p) /\ size < RingCap
        BY <1>2, <1>3, <1>6, <1>7, <2>2
      <3>2. size = Len(written)
        BY <1>1, <1>2, <1>11, <3>1
      <3>3. Len(written') = size'
        BY <1>1, <3>1, <3>2
      <3> QED
        BY <1>2, <2>2, <3>1, <3>3
    <2> QED
      BY <1>2, <1>3, <2>1, <2>2
  <1>13. ASSUME NEW n \in 1 .. size' PROVE Snapshot'[n] = written'[Len(written') - size' + n]
    <2> DEFINE k == first + n
               j == Wrapped(Wrapped(start + first) + n - 1)
    <2>1. /\ k \in 1 .. size + Len(p) /\ k \in Nat /\ n \in Nat \ {0} /\ n <= size + Len(p) - first
          /\ Len(written') - size' + n = Len(written) - size + k
      BY <1>1, <1>2, <1>3, <1>6, <1>7, <1>13
    <2>2. j \in Slots /\ Snapshot'[n] = buf'[j]
      <3>1. start' \in Slots /\ n \in 1 .. RingCap
        BY <1>2, <1>7, <1>8, <1>13 DEF Slots
      <3>2. Snapshot'[n] = IF n <= RingCap - start' THEN buf'[start' + n - 1]
                           ELSE buf'[n - (RingCap - start') - 1]
        BY <1>13 DEF Snapshot
      <3> QED
        BY <1>7, <3>1, <3>2, SnapshotSlot
    <2> HIDE DEF k, j
    <2>3. /\ k <= size => /\ j = Wrapped(start + k - 1)
                          /\ j \notin at .. at + Len(p) - 1
                          /\ ~(j + (RingCap - at) < Len(p))
          /\ k > size /\ j \in at .. at + Len(p) - 1 => j - at + 1 = k - size
          /\ k > size /\ j \notin at .. at + Len(p) - 1 => /\ j + (RingCap - at) < Len(p)
                                                          /\ j + (RingCap - at) + 1 = k - size
      <3>1. first \in Nat
        BY <1>2, <1>6
      <3> QED
        BY <1>2, <1>3, <1>6, <2>1, <3>1, SlotAfterInsert DEF k, at, j
    <2>4. CASE k <= size
      <3>1. k \in 1 .. size /\ k \in 1 .. RingCap /\ j = Wrapped(start + k - 1)
        BY <1>2, <2>1, <2>3, <2>4
      <3>2. buf'[j] = buf[j]
        BY <1>5, <2>2, <2>3, <2>4
      <3>3. buf[j] = written[Len(written) - size + k]
        <4>1. start \in Slots
          BY <1>2 DEF Slots
        <4>2. Snapshot[k] = IF k <= RingCap - start THEN buf[start + k - 1]
                            ELSE buf[k - (RingCap - start) - 1]
          BY <3>1 DEF Snapshot
        <4>3. Snapshot[k] = buf[j]
          BY <3>1, <4>1, <4>2, SnapshotSlot
        <4> QED
          BY <3>1, <4>3 DEF RingIsTail
      <3>4. Len(written) - size + k \in 1 .. Len(written)
        BY <1>1, <1>2, <1>11, <3>1
      <3> QED
        BY <1>1, <2>1, <2>2, <3>2, <3>3, <3>4
    <2>5. CASE k > size
      <3>1. k - size \in 1 .. Len(p) /\ Len(written) - size + k = Len(written) + (k - size)
        BY <1>1, <1>2, <1>3, <2>1, <2>5
      <3>2. buf'[j] = p[k - size]
        BY <1>5, <2>2, <2>3, <2>5
      <3> QED
        BY <1>1, <2>1, <2>2, <3>1, <3>2
    <2> QED
      BY <1>2, <2>1, <2>4, <2>5
  <1> QED
    BY <1>10, <1>12, <1>13 DEF RingIsTail

\* After any write the ring holds the newest bytes of everything written, for
\* every capacity and every non-empty chunk.
THEOREM WriteKeepsTail ==
  ASSUME RingTypeOK, RingIsTail, NEW p \in Seq(Bytes), Write(p)
  PROVE  RingTypeOK' /\ RingIsTail'
  BY ReplaceKeepsTail, InsertKeepsTail DEF Write

-----------------------------------------------------------------------------
(* The stream. *)

\* What b has been or will be sent once its own replay is queued too.
Owed(b) == Seen(b) \cup Coming(b) \cup (IF ws[b] = "replaying" THEN ElementsOf(snap[b]) ELSE {})

\* NothingMissed from the moment the snapshot is taken.
NothingOwedIsMissed ==
    \A b \in Bridges :
        bridge = b /\ ws[b] \in {"replaying", "live"} /\ b \notin lost =>
            ElementsOf(Snapshot) \subseteq Owed(b)

\* The supervisor sends to a bridge; only a present session has one.
Handling ==
    /\ sup = "send" => target \in Bridges
    /\ bridge # None => present

IInv ==
    /\ TypeOK
    /\ RingIsTail
    /\ Handling
    /\ NothingOwedIsMissed

-----------------------------------------------------------------------------

LEMMA BytesOfAppend ==
  ASSUME NEW q \in Seq(Seq(Bytes)), NEW c \in Seq(Bytes)
  PROVE  BytesIn(Append(q, c)) = BytesIn(q) \cup ElementsOf(c)
  <1>1. /\ DOMAIN Append(q, c) = 1 .. Len(q) + 1 /\ DOMAIN q = 1 .. Len(q) /\ Len(q) \in Nat
        /\ \A i \in 1 .. Len(q) : Append(q, c)[i] = q[i]
        /\ Append(q, c)[Len(q) + 1] = c
    OBVIOUS
  <1>2. \A i : i \in 1 .. Len(q) + 1 <=> i \in 1 .. Len(q) \/ i = Len(q) + 1
    BY <1>1
  <1> HIDE DEF BytesIn
  <1>3. ASSUME NEW y PROVE y \in BytesIn(Append(q, c)) <=> y \in BytesIn(q) \/ y \in ElementsOf(c)
    <2>1. y \in BytesIn(Append(q, c)) <=> \E i \in 1 .. Len(q) + 1 : y \in ElementsOf(Append(q, c)[i])
      BY <1>1 DEF BytesIn
    <2>2. y \in BytesIn(q) <=> \E i \in 1 .. Len(q) : y \in ElementsOf(q[i])
      BY <1>1 DEF BytesIn
    <2> QED
      BY <1>1, <1>2, <2>1, <2>2, Zenon
  <1> QED
    BY <1>3

LEMMA BytesOfTail ==
  ASSUME NEW q \in Seq(Seq(Bytes)), q # <<>>
  PROVE  BytesIn(q) = ElementsOf(Head(q)) \cup BytesIn(Tail(q))
  <1>1. /\ Len(q) \in Nat \ {0} /\ DOMAIN q = 1 .. Len(q) /\ DOMAIN Tail(q) = 1 .. Len(q) - 1
        /\ Head(q) = q[1]
        /\ \A i \in 1 .. Len(q) - 1 : Tail(q)[i] = q[i + 1]
    OBVIOUS
  <1>2. \A i \in 1 .. Len(q) : i = 1 \/ (i - 1 \in 1 .. Len(q) - 1 /\ Tail(q)[i - 1] = q[i])
    BY <1>1
  <1>3. \A i \in 1 .. Len(q) - 1 : i + 1 \in 1 .. Len(q) /\ Tail(q)[i] = q[i + 1]
    BY <1>1
  <1>4. 1 \in 1 .. Len(q)
    BY <1>1
  <1>5. ASSUME NEW y PROVE y \in BytesIn(q) <=> y \in ElementsOf(Head(q)) \/ y \in BytesIn(Tail(q))
    <2>1. y \in BytesIn(Tail(q)) <=> \E i \in 1 .. Len(q) - 1 : y \in ElementsOf(Tail(q)[i])
      BY <1>1 DEF BytesIn
    <2>2. y \in BytesIn(q) <=> \E i \in 1 .. Len(q) : y \in ElementsOf(q[i])
      BY <1>1 DEF BytesIn
    <2>3. ASSUME y \in BytesIn(q) PROVE y \in ElementsOf(Head(q)) \/ y \in BytesIn(Tail(q))
      <3>1. PICK i \in 1 .. Len(q) : y \in ElementsOf(q[i])
        BY <2>2, <2>3
      <3> QED
        BY <1>1, <1>2, <2>1, <3>1, Zenon
    <2>4. ASSUME y \in ElementsOf(Head(q)) \/ y \in BytesIn(Tail(q)) PROVE y \in BytesIn(q)
      BY <1>1, <1>3, <1>4, <2>1, <2>2, <2>4, Zenon
    <2> QED
      BY <2>3, <2>4
  <1> QED
    BY <1>5

\* The ring's contents, as a set and as a sequence.
LEMMA SnapshotIsBytes ==
  ASSUME RingTypeOK, RingIsTail
  PROVE  Snapshot \in Seq(Bytes) /\ DOMAIN Snapshot = 1 .. size
  <1>1. /\ size \in Nat /\ Len(written) \in Nat /\ size <= Len(written)
        /\ \A n \in 1 .. Len(written) : written[n] \in Bytes
    BY RingAssumption DEF RingTypeOK, RingIsTail
  <1>2. DOMAIN Snapshot = 1 .. size /\ Snapshot = [n \in 1 .. size |-> Snapshot[n]]
    BY DEF Snapshot
  <1>3. \A n \in 1 .. size : Snapshot[n] \in Bytes
    BY <1>1 DEF RingIsTail
  <1>4. Snapshot \in [1 .. size -> Bytes]
    BY <1>2, <1>3, Zenon
  <1> QED
    BY <1>1, <1>2, <1>4

\* A write adds nothing to the ring but the chunk.
LEMMA WriteAddsChunk ==
  ASSUME RingTypeOK, RingIsTail, NEW p \in Seq(Bytes), Write(p)
  PROVE  ElementsOf(Snapshot') \subseteq ElementsOf(Snapshot) \cup ElementsOf(p)
  <1>1. RingTypeOK' /\ RingIsTail'
    BY WriteKeepsTail
  <1>2. /\ Len(p) \in Nat \ {0} /\ Len(written) \in Nat
        /\ Len(written') = Len(written) + Len(p)
        /\ \A n \in 1 .. Len(written) : written'[n] = written[n]
        /\ \A n \in 1 .. Len(p) : written'[Len(written) + n] = p[n]
    BY History
  <1>3. /\ RingCap \in Nat \ {0}
        /\ DOMAIN Snapshot = 1 .. size /\ DOMAIN Snapshot' = 1 .. size' /\ DOMAIN p = 1 .. Len(p)
        /\ \A n \in 1 .. size : Snapshot[n] = written[Len(written) - size + n]
        /\ \A n \in 1 .. size' : Snapshot'[n] = written'[Len(written') - size' + n]
    <2>1. RingCap \in Nat \ {0} /\ DOMAIN p = 1 .. Len(p)
      BY RingAssumption
    <2>2. DOMAIN Snapshot = 1 .. size /\ DOMAIN Snapshot' = 1 .. size'
      BY DEF Snapshot
    <2>3. \A n \in 1 .. size : Snapshot[n] = written[Len(written) - size + n]
      BY DEF RingIsTail
    <2>4. \A n \in 1 .. size' : Snapshot'[n] = written'[Len(written') - size' + n]
      BY <1>1 DEF RingIsTail
    <2> QED
      BY <2>1, <2>2, <2>3, <2>4
  <1>4. /\ size \in Nat /\ (size = RingCap \/ size = Len(written)) /\ size <= Len(written)
        /\ size' \in Nat /\ size' <= RingCap /\ size' <= Len(written')
    BY <1>1, <1>2, <1>3 DEF RingIsTail
  <1>5. SUFFICES ASSUME NEW n \in 1 .. size'
                 PROVE  Snapshot'[n] \in ElementsOf(Snapshot) \cup ElementsOf(p)
    BY <1>3 DEF ElementsOf
  <1> DEFINE k == Len(written') - size' + n
  <1>6. k \in 1 .. Len(written') /\ Snapshot'[n] = written'[k]
    BY <1>2, <1>3, <1>4
  <1>7. CASE k > Len(written)
    <2>1. k - Len(written) \in 1 .. Len(p) /\ k = Len(written) + (k - Len(written))
      BY <1>2, <1>6, <1>7
    <2>2. Snapshot'[n] = p[k - Len(written)]
      BY <1>2, <1>6, <2>1
    <2> QED
      BY <1>3, <2>1, <2>2 DEF ElementsOf
  <1>8. CASE k <= Len(written)
    <2> DEFINE m == k - (Len(written) - size)
    <2>1. m \in 1 .. size /\ k = Len(written) - size + m /\ k \in 1 .. Len(written)
      <3>1. Len(written') - size' >= Len(written) - size
        BY <1>2, <1>3, <1>4
      <3>2. n \in Nat /\ n >= 1 /\ k \in Nat /\ k >= 1
        BY <1>2, <1>4, <1>5, <1>6
      <3>3. k >= Len(written) - size + 1
        BY <1>2, <1>4, <3>1, <3>2
      <3> QED BY <1>2, <1>4, <1>8, <3>2, <3>3
    <2>2. Snapshot'[n] = Snapshot[m]
      BY <1>2, <1>3, <1>6, <2>1
    <2> QED
      BY <1>3, <2>1, <2>2 DEF ElementsOf
  <1> QED
    BY <1>2, <1>4, <1>6, <1>7, <1>8

-----------------------------------------------------------------------------

LEMMA InitInv == Init => IInv
  <1> SUFFICES ASSUME Init PROVE IInv
    OBVIOUS
  <1>1. RingTypeOK /\ RingIsTail
    BY RingInitially DEF Init
  <1>2. TypeOK
    BY <1>1, StreamAssumption DEF Init, TypeOK, Chunks
  <1> QED
    BY <1>1, <1>2, StreamAssumption DEF Init, IInv, Handling, NothingOwedIsMissed

\* What a non-blocking send does to the sinks.
LEMMA PostFacts ==
  ASSUME TypeOK, NEW b \in Bridges, NEW c \in Seq(Bytes), Post(b, c)
  PROVE  /\ sink' \in [Bridges -> Seq(Chunks)]
         /\ \A d \in Bridges : Len(sink'[d]) <= SinkCap
         /\ lost \subseteq lost' /\ lost' \subseteq Bridges
         /\ \A d \in Bridges : BytesIn(sink[d]) \subseteq BytesIn(sink'[d])
         /\ b \notin lost' => ElementsOf(c) \subseteq BytesIn(sink'[b])
  <1>0. sink[b] \in Seq(Seq(Bytes)) /\ Len(sink[b]) \in Nat /\ SinkCap \in Nat
    BY StreamAssumption DEF TypeOK, Chunks
  <1>1. CASE Len(sink[b]) < SinkCap
    <2>1. sink' = [sink EXCEPT ![b] = Append(sink[b], c)] /\ lost' = lost
      BY <1>1 DEF Post
    <2>2. /\ Append(sink[b], c) \in Seq(Seq(Bytes))
          /\ Len(Append(sink[b], c)) = Len(sink[b]) + 1
          /\ Len(Append(sink[b], c)) <= SinkCap
      BY <1>0, <1>1
    <2>3. BytesIn(Append(sink[b], c)) = BytesIn(sink[b]) \cup ElementsOf(c)
      BY <1>0, BytesOfAppend
    <2>4. \A d \in Bridges : sink'[d] = IF d = b THEN Append(sink[b], c) ELSE sink[d]
      BY <2>1 DEF TypeOK
    <2>5. sink' \in [Bridges -> Seq(Chunks)]
      BY <2>1, <2>2 DEF TypeOK, Chunks
    <2> QED
      BY <2>1, <2>2, <2>3, <2>4, <2>5 DEF TypeOK
  <1>2. CASE ~(Len(sink[b]) < SinkCap)
    BY <1>2 DEF Post, TypeOK
  <1> QED
    BY <1>1, <1>2

\* Steps that touch neither the ring nor the browsers.
LEMMA QuietStep ==
  ASSUME IInv, TypeOK',
         UNCHANGED <<ringVars, target, present, bridge, ws, snap, screen, sink, lost>>,
         \/ sup' = sup /\ chunk' = chunk
         \/ sup = "select" /\ sup' = "write"
  PROVE  IInv'
  <1> USE DEF IInv
  <1>1. RingIsTail' /\ Snapshot' = Snapshot
    BY DEF ringVars, RingIsTail, Snapshot
  <1>2. Handling'
    BY DEF Handling
  <1>3. \A b \in Bridges : Seen(b)' = Seen(b) /\ Coming(b)' = Coming(b)
    BY DEF Seen, Coming
  <1>4. \A b \in Bridges : Owed(b)' = Owed(b)
    BY <1>3 DEF Owed
  <1>5. NothingOwedIsMissed'
    BY <1>1, <1>4 DEF NothingOwedIsMissed
  <1> QED
    BY <1>1, <1>2, <1>5

LEMMA StepInv == IInv /\ [Next]_vars => IInv'
  <1> SUFFICES ASSUME IInv, [Next]_vars PROVE IInv'
    OBVIOUS
  <1> USE StreamAssumption DEF IInv
  <1>1. ASSUME NEW n \in 1 .. MaxChunk, AgentSends(n) PROVE IInv'
    <2>1. /\ sent + n <= MaxBytes /\ sent' = sent + n
          /\ UNCHANGED <<ringVars, supVars, present, bridge, wsVars, sink, lost>>
      BY <1>1 DEF AgentSends
    <2>2. [i \in 1 .. n |-> sent + i] \in Seq(Bytes)
      <3>1. n \in Nat /\ \A i \in 1 .. n : sent + i \in Bytes
        BY <2>1 DEF TypeOK
      <3> QED
        BY <3>1
    <2>3. stdoutCh' \in Seq(Chunks) /\ Len(stdoutCh') <= StdoutCap
      <3> DEFINE c == [i \in 1 .. n |-> sent + i]
      <3>1. stdoutCh' = IF Len(stdoutCh) < StdoutCap THEN Append(stdoutCh, c) ELSE stdoutCh
        BY <1>1 DEF AgentSends
      <3>2. c \in Chunks /\ stdoutCh \in Seq(Chunks) /\ Len(stdoutCh) <= StdoutCap
        BY <2>2 DEF TypeOK, Chunks
      <3> HIDE DEF c
      <3>3. Append(stdoutCh, c) \in Seq(Chunks) /\ Len(Append(stdoutCh, c)) = Len(stdoutCh) + 1
        BY <3>2
      <3> QED
        BY <3>1, <3>2, <3>3
    <2>4. TypeOK'
      BY <2>1, <2>3 DEF TypeOK, RingTypeOK, ringVars, supVars, wsVars
    <2> QED
      BY <2>1, <2>4, QuietStep DEF supVars, wsVars
  <1>2. CASE SupTake
    <2>1. /\ sup = "select" /\ stdoutCh # <<>> /\ sup' = "write"
          /\ chunk' = Head(stdoutCh) /\ stdoutCh' = Tail(stdoutCh)
          /\ UNCHANGED <<ringVars, sent, target, present, bridge, wsVars, sink, lost>>
      BY <1>2 DEF SupTake
    <2>2. /\ Head(stdoutCh) \in Chunks /\ Tail(stdoutCh) \in Seq(Chunks)
          /\ Len(Tail(stdoutCh)) <= StdoutCap
      BY <2>1 DEF TypeOK
    <2>3. TypeOK'
      BY <2>1, <2>2 DEF TypeOK, RingTypeOK, ringVars, wsVars
    <2> QED
      BY <2>1, <2>3, QuietStep DEF wsVars
  \* What the write adds to the ring is coming to whoever is attached.
  <1>3. CASE SupWrite
    <2>1. /\ sup = "write" /\ sup' = "pick" /\ Write(chunk)
          /\ UNCHANGED <<agentVars, chunk, target, present, bridge, wsVars, sink, lost>>
      BY <1>3 DEF SupWrite
    <2>2. chunk \in Seq(Bytes) /\ RingTypeOK
      BY DEF TypeOK, Chunks
    <2>3. RingTypeOK' /\ RingIsTail'
      BY <2>1, <2>2, WriteKeepsTail
    <2>4. ElementsOf(Snapshot') \subseteq ElementsOf(Snapshot) \cup ElementsOf(chunk)
      BY <2>1, <2>2, WriteAddsChunk
    <2>5. TypeOK'
      BY <2>1, <2>3 DEF TypeOK, agentVars, wsVars
    <2>6. Handling'
      BY <2>1 DEF Handling
    <2>7. NothingOwedIsMissed'
      <3> SUFFICES ASSUME NEW b \in Bridges, bridge = b, ws[b] \in {"replaying", "live"}, b \notin lost
                   PROVE  ElementsOf(Snapshot') \subseteq Owed(b)'
        BY <2>1 DEF NothingOwedIsMissed, wsVars
      <3>1. ElementsOf(Snapshot) \subseteq Owed(b)
        BY DEF NothingOwedIsMissed
      <3>2. Owed(b) \cup ElementsOf(chunk) \subseteq Owed(b)'
        BY <2>1 DEF Owed, Seen, Coming, wsVars
      <3> QED
        BY <2>4, <3>1, <3>2
    <2> QED
      BY <2>3, <2>5, <2>6, <2>7
  <1>4. CASE SupPick
    <2>1. /\ sup = "pick"
          /\ \/ bridge = None /\ sup' = "select" /\ chunk' = <<>> /\ target' = target
             \/ bridge # None /\ sup' = "send" /\ target' = bridge /\ chunk' = chunk
          /\ UNCHANGED <<ringVars, agentVars, present, bridge, wsVars, sink, lost>>
      BY <1>4 DEF SupPick
    <2>2. TypeOK'
      <3>1. <<>> \in Chunks
        BY DEF Chunks
      <3> QED
        BY <2>1, <3>1 DEF TypeOK, RingTypeOK, ringVars, agentVars, wsVars
    <2>3. RingIsTail' /\ Handling'
      BY <2>1 DEF ringVars, RingIsTail, Snapshot, Handling, TypeOK
    <2>4. NothingOwedIsMissed'
      BY <2>1 DEF ringVars, wsVars, Snapshot, NothingOwedIsMissed, Owed, Seen, Coming
    <2> QED
      BY <2>2, <2>3, <2>4
  <1>5. CASE SupSend
    <2>1. /\ sup = "send" /\ sup' = "select" /\ Post(target, chunk)
          /\ chunk' = <<>> /\ target' = None
          /\ UNCHANGED <<ringVars, agentVars, present, bridge, wsVars>>
      BY <1>5 DEF SupSend
    <2>2. target \in Bridges /\ chunk \in Seq(Bytes)
      BY <2>1 DEF Handling, TypeOK, Chunks
    <2>3. /\ sink' \in [Bridges -> Seq(Chunks)]
          /\ \A d \in Bridges : Len(sink'[d]) <= SinkCap
          /\ lost \subseteq lost' /\ lost' \subseteq Bridges
          /\ \A d \in Bridges : BytesIn(sink[d]) \subseteq BytesIn(sink'[d])
          /\ target \notin lost' => ElementsOf(chunk) \subseteq BytesIn(sink'[target])
      BY <2>1, <2>2, PostFacts
    <2>4. TypeOK'
      <3>1. <<>> \in Chunks
        BY DEF Chunks
      <3> QED
        BY <2>1, <2>3, <3>1 DEF TypeOK, RingTypeOK, ringVars, agentVars, wsVars
    <2>5. RingIsTail' /\ Handling'
      BY <2>1 DEF ringVars, RingIsTail, Snapshot, Handling
    <2>6. NothingOwedIsMissed'
      <3> SUFFICES ASSUME NEW b \in Bridges, bridge = b, ws[b] \in {"replaying", "live"}, b \notin lost'
                   PROVE  ElementsOf(Snapshot) \subseteq Owed(b)'
        BY <2>1 DEF NothingOwedIsMissed, wsVars, ringVars, Snapshot
      <3>1. ElementsOf(Snapshot) \subseteq Owed(b)
        BY <2>3 DEF NothingOwedIsMissed
      <3>2. Owed(b) \subseteq Owed(b)'
        BY <2>1, <2>3 DEF Owed, Seen, Coming, wsVars
      <3> QED
        BY <3>1, <3>2
    <2> QED
      BY <2>4, <2>5, <2>6
  <1>6. CASE SupSnatch
    BY <1>6 DEF SupSnatch, TypeOK, RingTypeOK, ringVars, agentVars, wsVars, RingIsTail, Snapshot,
       Handling, NothingOwedIsMissed
  <1>7. CASE SupRemove
    <2>1. TypeOK'
      <3>1. <<>> \in Seq(Chunks) /\ Len(<<>>) <= StdoutCap
        OBVIOUS
      <3> QED
        BY <1>7, <3>1 DEF SupRemove, TypeOK, RingTypeOK, ringVars, wsVars
    <2> QED
      BY <1>7, <2>1 DEF SupRemove, ringVars, RingIsTail, Snapshot, Handling, NothingOwedIsMissed
  <1>8. ASSUME NEW b \in Bridges, Check(b) PROVE IInv'
    <2>1. /\ ws[b] = "new" /\ ws' = [ws EXCEPT ![b] = "checked"]
          /\ UNCHANGED <<ringVars, agentVars, supVars, present, bridge, snap, screen, sink, lost>>
      BY <1>8 DEF Check, Goto
    <2>2. TypeOK'
      BY <2>1 DEF TypeOK, RingTypeOK, ringVars, agentVars, supVars
    <2>3. RingIsTail' /\ Handling'
      BY <2>1 DEF ringVars, supVars, RingIsTail, Snapshot, Handling
    <2>4. NothingOwedIsMissed'
      BY <2>1 DEF TypeOK, ringVars, supVars, Snapshot, NothingOwedIsMissed, Owed, Seen, Coming
    <2> QED
      BY <2>2, <2>3, <2>4
  <1>9. ASSUME NEW b \in Bridges, Attach(b) PROVE IInv'
    <2>1. /\ ws' = [ws EXCEPT ![b] = "attached"]
          /\ bridge' = (IF present THEN b ELSE bridge)
          /\ UNCHANGED <<ringVars, agentVars, supVars, present, snap, screen, sink, lost>>
      BY <1>9 DEF Attach, Goto
    <2>2. TypeOK'
      BY <2>1 DEF TypeOK, RingTypeOK, ringVars, agentVars, supVars
    <2>3. RingIsTail' /\ Handling'
      BY <2>1 DEF ringVars, supVars, RingIsTail, Snapshot, Handling
    <2>4. NothingOwedIsMissed'
      BY <2>1 DEF TypeOK, ringVars, supVars, Snapshot, NothingOwedIsMissed, Owed, Seen, Coming
    <2> QED
      BY <2>2, <2>3, <2>4
  \* The snapshot owes the browser all there is.
  <1>10. ASSUME NEW b \in Bridges, TakeSnapshot(b) PROVE IInv'
    <2>1. /\ ws[b] = "attached" /\ ws' = [ws EXCEPT ![b] = "replaying"]
          /\ snap' = [snap EXCEPT ![b] = IF present THEN Snapshot ELSE <<>>]
          /\ UNCHANGED <<ringVars, agentVars, supVars, present, bridge, screen, sink, lost>>
      BY <1>10 DEF TakeSnapshot, Goto
    <2>2. Snapshot \in Chunks /\ <<>> \in Chunks
      BY SnapshotIsBytes DEF TypeOK, Chunks
    <2>3. TypeOK'
      BY <2>1, <2>2 DEF TypeOK, RingTypeOK, ringVars, agentVars, supVars
    <2>4. RingIsTail' /\ Handling'
      BY <2>1 DEF ringVars, supVars, RingIsTail, Snapshot, Handling
    <2>5. NothingOwedIsMissed'
      <3> SUFFICES ASSUME NEW d \in Bridges, bridge = d, ws'[d] \in {"replaying", "live"}, d \notin lost
                   PROVE  ElementsOf(Snapshot) \subseteq Owed(d)'
        BY <2>1 DEF NothingOwedIsMissed, ringVars, Snapshot
      <3>1. CASE d = b
        <4>1. present /\ snap'[b] = Snapshot /\ ws'[b] = "replaying"
          BY <2>1, <3>1 DEF Handling, TypeOK
        <4> QED
          BY <3>1, <4>1 DEF Owed
      <3>2. CASE d # b
        <4>1. ws'[d] = ws[d] /\ snap'[d] = snap[d]
          BY <2>1, <3>2 DEF TypeOK
        <4> QED
          BY <2>1, <4>1 DEF NothingOwedIsMissed, Owed, Seen, Coming, supVars
      <3> QED
        BY <3>1, <3>2
    <2> QED
      BY <2>3, <2>4, <2>5
  \* The replay pays what it owes, or the browser has lost something.
  <1>11. ASSUME NEW b \in Bridges, Replay(b) PROVE IInv'
    <2>1. /\ ws[b] = "replaying" /\ ws' = [ws EXCEPT ![b] = "live"]
          /\ IF snap[b] # <<>> THEN Post(b, snap[b]) ELSE UNCHANGED <<sink, lost>>
          /\ snap' = [snap EXCEPT ![b] = <<>>]
          /\ UNCHANGED <<ringVars, agentVars, supVars, present, bridge, screen>>
      BY <1>11 DEF Replay, Goto
    <2>2. /\ sink' \in [Bridges -> Seq(Chunks)]
          /\ \A d \in Bridges : Len(sink'[d]) <= SinkCap
          /\ lost \subseteq lost' /\ lost' \subseteq Bridges
          /\ \A d \in Bridges : BytesIn(sink[d]) \subseteq BytesIn(sink'[d])
          /\ b \notin lost' => ElementsOf(snap[b]) \subseteq BytesIn(sink'[b])
      <3>1. CASE snap[b] # <<>>
        <4>1. snap[b] \in Seq(Bytes)
          BY DEF TypeOK, Chunks
        <4> QED
          BY <2>1, <3>1, <4>1, PostFacts
      <3>2. CASE snap[b] = <<>>
        <4>1. ElementsOf(snap[b]) = {}
          BY <3>2 DEF ElementsOf
        <4> QED
          BY <2>1, <3>2, <4>1 DEF TypeOK
      <3> QED
        BY <3>1, <3>2
    <2>3. TypeOK'
      <3>1. <<>> \in Chunks
        BY DEF Chunks
      <3> QED
        BY <2>1, <2>2, <3>1 DEF TypeOK, RingTypeOK, ringVars, agentVars, supVars
    <2>4. RingIsTail' /\ Handling'
      BY <2>1 DEF ringVars, supVars, RingIsTail, Snapshot, Handling
    <2>5. NothingOwedIsMissed'
      <3> SUFFICES ASSUME NEW d \in Bridges, bridge = d, ws'[d] \in {"replaying", "live"}, d \notin lost'
                   PROVE  ElementsOf(Snapshot) \subseteq Owed(d)'
        BY <2>1 DEF NothingOwedIsMissed, ringVars, Snapshot
      <3>1. ws[d] \in {"replaying", "live"} /\ (d # b => ws'[d] = ws[d] /\ snap'[d] = snap[d])
        BY <2>1 DEF TypeOK
      <3>2. ElementsOf(Snapshot) \subseteq Owed(d)
        BY <2>2, <3>1 DEF NothingOwedIsMissed
      <3>3. Seen(d) \cup Coming(d) \subseteq Owed(d)'
        BY <2>1, <2>2 DEF Owed, Seen, Coming, supVars
      <3>4. CASE d = b
        BY <2>1, <2>2, <3>2, <3>3, <3>4 DEF Owed, Seen
      <3>5. CASE d # b
        BY <3>1, <3>2, <3>3, <3>5 DEF Owed
      <3> QED
        BY <3>4, <3>5
    <2> QED
      BY <2>3, <2>4, <2>5
  <1>12. ASSUME NEW b \in Bridges, Show(b) PROVE IInv'
    <2>1. /\ sink[b] # <<>> /\ sink[b] \in Seq(Seq(Bytes))
          /\ screen' = [screen EXCEPT ![b] = screen[b] \cup ElementsOf(Head(sink[b]))]
          /\ sink' = [sink EXCEPT ![b] = Tail(sink[b])]
          /\ UNCHANGED <<ringVars, agentVars, supVars, present, bridge, ws, snap, lost>>
      BY <1>12 DEF Show, TypeOK, Chunks
    <2>2. /\ Head(sink[b]) \in Seq(Bytes) /\ Tail(sink[b]) \in Seq(Seq(Bytes))
          /\ Len(Tail(sink[b])) <= SinkCap
      BY <2>1 DEF TypeOK
    <2>3. BytesIn(sink[b]) = ElementsOf(Head(sink[b])) \cup BytesIn(Tail(sink[b]))
      BY <2>1, BytesOfTail
    <2>4. ElementsOf(Head(sink[b])) \subseteq Bytes
      BY <2>2 DEF ElementsOf
    <2>5. TypeOK'
      BY <2>1, <2>2, <2>4 DEF TypeOK, RingTypeOK, ringVars, agentVars, supVars, Chunks
    <2>6. RingIsTail' /\ Handling'
      BY <2>1 DEF ringVars, supVars, RingIsTail, Snapshot, Handling
    <2>7. \A d \in Bridges : Seen(d)' = Seen(d)
      BY <2>1, <2>3 DEF Seen, TypeOK
    <2>8. NothingOwedIsMissed'
      BY <2>1, <2>7 DEF ringVars, supVars, Snapshot, NothingOwedIsMissed, Owed, Coming
    <2> QED
      BY <2>5, <2>6, <2>8
  <1>13. ASSUME NEW b \in Bridges, Leave(b) PROVE IInv'
    <2>1. /\ ws' = [ws EXCEPT ![b] = "gone"]
          /\ bridge' = (IF bridge = b THEN None ELSE bridge)
          /\ screen' = [screen EXCEPT ![b] = {}]
          /\ sink' = [sink EXCEPT ![b] = <<>>]
          /\ UNCHANGED <<ringVars, agentVars, supVars, present, snap, lost>>
      BY <1>13 DEF Leave, Goto
    <2>2. TypeOK'
      BY <2>1 DEF TypeOK, RingTypeOK, ringVars, agentVars, supVars
    <2>3. RingIsTail' /\ Handling'
      BY <2>1 DEF ringVars, supVars, RingIsTail, Snapshot, Handling
    <2>4. NothingOwedIsMissed'
      BY <2>1 DEF TypeOK, ringVars, supVars, Snapshot, NothingOwedIsMissed, Owed, Seen, Coming
    <2> QED
      BY <2>2, <2>3, <2>4
  <1>14. CASE UNCHANGED vars
    <2>1. TypeOK'
      BY <1>14 DEF vars, TypeOK, RingTypeOK, ringVars, agentVars, supVars, wsVars
    <2> QED
      BY <1>14, <2>1, QuietStep DEF vars, supVars, wsVars
  <1> QED
    BY <1>1, <1>2, <1>3, <1>4, <1>5, <1>6, <1>7, <1>8, <1>9, <1>10, <1>11, <1>12, <1>13, <1>14 DEF Next, Supervise

\* The inductive invariant holds in every reachable state.
THEOREM IInvHolds == Spec => []IInv
  BY InitInv, StepInv, PTL DEF Spec

\* Every variable keeps its type and no channel exceeds its capacity.
THEOREM TypeCorrect == Spec => []TypeOK
  <1>1. IInv => TypeOK
    BY DEF IInv
  <1> QED
    BY <1>1, IInvHolds, PTL

\* The backscroll always holds the newest bytes the supervisor wrote.
THEOREM BackscrollIsTail == Spec => []RingIsTail
  <1>1. IInv => RingIsTail
    BY DEF IInv
  <1> QED
    BY <1>1, IInvHolds, PTL

\* An attached browser misses nothing of the backscroll.
THEOREM NothingIsMissed == Spec => []NothingMissed
  <1>1. IInv => NothingMissed
    BY DEF IInv, NothingOwedIsMissed, NothingMissed, Owed
  <1> QED
    BY <1>1, IInvHolds, PTL
=============================================================================
