------------------------------ MODULE ByteRing ------------------------------
(***************************************************************************)
(* byteRing, the backscroll of a shell run: a buffer of fixed capacity     *)
(* that keeps the newest bytes of everything written to it.  The index     *)
(* arithmetic is the code's; Snapshot and Write are each one step because  *)
(* the ring's mutex makes them so.                                         *)
(***************************************************************************)
EXTENDS Naturals, Sequences

CONSTANTS Bytes,    \* what can be written
          RingCap,  \* capacity of the ring (shellBackscrollBytes, 64 KiB)
          Blank     \* a slot never written to

ASSUME RingAssumption == RingCap \in Nat \ {0}

VARIABLES buf, start, size,
          written   \* history: everything written so far

ringVars == <<buf, start, size, written>>

Slots == 0 .. RingCap - 1

RingTypeOK ==
    /\ buf \in [Slots -> Bytes \cup {Blank}]
    /\ start \in Slots
    /\ size \in 0 .. RingCap
    /\ written \in Seq(Bytes)

RingInit ==
    /\ buf = [i \in Slots |-> Blank]
    /\ start = 0
    /\ size = 0
    /\ written = <<>>

\* A chunk that fills the whole ring: only its tail matters.
Replace(p) ==
    /\ Len(p) >= RingCap
    /\ buf' = [i \in Slots |-> p[Len(p) - RingCap + i + 1]]
    /\ start' = 0
    /\ size' = RingCap

\* Mutant of Insert: the oldest bytes are overwritten, start stays.
InsertKeepsStart(p) ==
    LET at == (start + size) % RingCap
        toEnd == RingCap - at
    IN  /\ Len(p) < RingCap
        /\ buf' = [i \in Slots |->
                      IF i \in at .. at + Len(p) - 1 THEN p[i - at + 1]
                      ELSE IF i + toEnd < Len(p) THEN p[i + toEnd + 1]
                      ELSE buf[i]]
        /\ size' = IF size + Len(p) > RingCap THEN RingCap ELSE size + Len(p)
        /\ UNCHANGED start

\* A shorter chunk goes behind the newest byte, in two pieces where the buffer
\* ends, and pushes start over the bytes it overwrote.
Insert(p) ==
    LET at == (start + size) % RingCap
        toEnd == RingCap - at
        grown == size + Len(p)
    IN  /\ Len(p) < RingCap
        /\ buf' = [i \in Slots |->
                      IF i \in at .. at + Len(p) - 1 THEN p[i - at + 1]
                      ELSE IF i + toEnd < Len(p) THEN p[i + toEnd + 1]
                      ELSE buf[i]]
        /\ IF grown > RingCap
           THEN size' = RingCap /\ start' = (start + grown - RingCap) % RingCap
           ELSE size' = grown /\ UNCHANGED start

Write(p) ==
    /\ p # <<>>
    /\ Replace(p) \/ Insert(p)
    /\ written' = written \o p

\* A copy of the contents, oldest byte first, in two pieces where they wrap.
Snapshot ==
    LET toEnd == RingCap - start
    IN  [n \in 1 .. size |-> IF n <= toEnd THEN buf[start + n - 1] ELSE buf[n - toEnd - 1]]

\* The ring holds exactly the newest bytes, in the order they were written: a
\* replay never shows a byte out of order, a stale one or a blank.
RingIsTail ==
    /\ size = IF Len(written) < RingCap THEN Len(written) ELSE RingCap
    /\ \A n \in 1 .. size : Snapshot[n] = written[Len(written) - size + n]
=============================================================================
