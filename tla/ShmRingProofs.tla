--------------------------- MODULE ShmRingProofs ---------------------------
(***************************************************************************)
(* Proofs about ShmRing, for every size of the ring, range of the counters *)
(* and sequence numbers, and payload counts.  The slots of the frames       *)
(* follow one another until a counter wraps, and for ever if the size      *)
(* divides the range of the counters.  The programs' size, 10, does not:   *)
(* for them the theorems speak of the first 2^32 frames after a reset, and *)
(* the run shm_ring_wrap shows what happens then.                          *)
(***************************************************************************)
EXTENDS ShmRing, SequenceTheorems, TLAPS

Divides == \E m \in Nat : WORD = m * SIZE

\* The slots of the unread frames follow one another.
Contiguous == Divides \/ ~wrapped

-----------------------------------------------------------------------------
\* At most one of the two programs is between its down and its up.
OneInside == ~(wpc \in WriterInside /\ rpc \in ReaderInside)

\* The check a reader made under the semaphore holds until its up.
ReadCovered == ~halfReset /\ rpc \in ReaderInside => rn <= Len(unread)

\* The room a writer found, or made by a reset, is there until its up.
WriteFits ==
  ~halfReset /\ wpc \in {"copy1", "copy2", "advance"} => Len(unread) + wn <= SIZE

\* The frames ks of the writer's buffer are in their slots.
InPlace(ks) == \A k \in ks : slots[SlotOf(in, k)] = Frame(k)

WrittenSoFar ==
  ~halfReset => /\ wpc = "copy2" => InPlace(ToTheEnd)
                /\ wpc = "advance" => InPlace(0 .. wn - 1)

\* Before a counter wraps, in is out plus the frames in the buffer.
Unwrapped == ~halfReset /\ wpc \notin Resetting /\ ~wrapped => in = out + Len(unread)

\* What is in the ring while its slots follow one another.
Contents ==
  /\ ReadCovered
  /\ WriteFits
  /\ WrittenSoFar
  /\ Unwrapped
  /\ RingHoldsUnread
  /\ ReadsInOrder

RingInv ==
  /\ RingTypeOK
  /\ OneInside
  /\ Contiguous => Contents

-----------------------------------------------------------------------------
\* Division with remainder.
LEMMA Remainder ==
  ASSUME NEW S \in Nat \ {0}, NEW x \in Int
  PROVE  /\ x % S \in 0 .. S - 1
         /\ x \div S \in Int
         /\ x = S * (x \div S) + (x % S)
  OBVIOUS

\* ... and that the remainder is unique.
LEMMA RemainderUnique ==
  ASSUME NEW S \in Nat \ {0}, NEW q \in Int, NEW r \in 0 .. S - 1
  PROVE  (S * q + r) % S = r
  OBVIOUS

\* Unsigned arithmetic that wraps at most once.
LEMMA WrapOnce ==
  ASSUME NEW x \in Int, -WORD <= x, x < 2 * WORD
  PROVE  /\ x % WORD \in 0 .. WORD - 1
         /\ \/ x % WORD = x
            \/ x % WORD = x - WORD
            \/ x % WORD = x + WORD
<1>1. x % WORD \in 0 .. WORD - 1
  BY Remainder, RingAssumption
<1>2. CASE x < 0
  <2>1. (x + WORD) \in 0 .. WORD - 1 /\ x = WORD * (-1) + (x + WORD)
    BY <1>2, RingAssumption
  <2> QED
    BY <1>1, <2>1, RemainderUnique, RingAssumption
<1>3. CASE x >= WORD
  <2>1. (x - WORD) \in 0 .. WORD - 1 /\ x = WORD * 1 + (x - WORD)
    BY <1>3, RingAssumption
  <2> QED
    BY <1>1, <2>1, RemainderUnique, RingAssumption
<1>4. CASE x \in 0 .. WORD - 1
  <2>1. x = WORD * 0 + x
    BY <1>4, RingAssumption
  <2> QED
    BY <1>1, <1>4, <2>1, RemainderUnique, RingAssumption
<1> QED
  BY <1>2, <1>3, <1>4, RingAssumption

\* A counter and a number of frames: += wraps or does not.
LEMMA CounterAdds ==
  ASSUME NEW c \in 0 .. WORD - 1, NEW n \in 0 .. SIZE
  PROVE  /\ (c + n) % WORD \in 0 .. WORD - 1
         /\ (c + n) % WORD = c + n \/ (c + n) % WORD = c + n - WORD
<1>1. WORD \in Nat \ {0} /\ c \in Nat /\ n \in Nat /\ c + n < 2 * WORD
  BY RingAssumption
<1> QED
  BY <1>1

\* The slot of a frame is one of the buffer's.
LEMMA SlotInRange ==
  ASSUME NEW c \in 0 .. WORD - 1, NEW k \in Indices
  PROVE  SlotOf(c, k) \in Indices
<1>1. c % SIZE \in 0 .. SIZE - 1
  BY RingAssumption, Remainder
<1> QED
  BY <1>1, RingAssumption DEF SlotOf, Indices

\* Frames of one copy never share a slot.
LEMMA SlotInjective ==
  ASSUME NEW c \in 0 .. WORD - 1, NEW j \in Indices, NEW k \in Indices,
         SlotOf(c, j) = SlotOf(c, k)
  PROVE  j = k
<1>1. c % SIZE \in 0 .. SIZE - 1
  BY RingAssumption, Remainder
<1> QED
  BY <1>1, RingAssumption DEF SlotOf, Indices

\* The slots of a copy that starts n frames later are those n further on, also
\* when the counter wraps if the size divides WORD.
LEMMA SlotShift ==
  ASSUME NEW c \in 0 .. WORD - 1, NEW n \in 0 .. SIZE, NEW k \in Nat, n + k < SIZE,
         Divides \/ c + n < WORD
  PROVE  SlotOf((c + n) % WORD, k) = SlotOf(c, n + k)
<1> DEFINE off == c % SIZE
           q == c \div SIZE
           d == (c + n) % WORD
<1>1. off \in 0 .. SIZE - 1 /\ q \in Int /\ c = SIZE * q + off
  BY RingAssumption, Remainder
<1>2. d \in 0 .. WORD - 1 /\ (d = c + n \/ d = c + n - WORD)
  BY CounterAdds
<1> HIDE DEF off, q, d
<1>4. PICK p \in Int : d = SIZE * p + (off + n)
  <2>1. CASE d = c + n
    BY <2>1, <1>1, RingAssumption
  <2>2. CASE d # c + n
    <3>1. d = c + n - WORD /\ ~(c + n < WORD)
      BY <1>2, <2>2, RingAssumption
    <3>2. PICK m \in Nat : WORD = m * SIZE
      BY <3>1 DEF Divides
    <3>3. d = SIZE * (q - m) + (off + n)
      BY <3>1, <3>2, <1>1, RingAssumption
    <3> QED
      BY <3>3, <3>2, <1>1
  <2> QED
    BY <2>1, <2>2
<1>5. CASE off + n < SIZE
  <2>1. d % SIZE = off + n
    BY <1>4, <1>5, <1>1, RemainderUnique, RingAssumption
  <2> QED
    BY <2>1, <1>5, <1>1, RingAssumption DEF SlotOf, off, d
<1>6. CASE off + n >= SIZE
  <2>1. d = SIZE * (p + 1) + (off + n - SIZE)
    BY <1>4, <1>1, RingAssumption
  <2>2. off + n - SIZE \in 0 .. SIZE - 1 /\ p + 1 \in Int
    BY <1>6, <1>1, RingAssumption
  <2>3. d % SIZE = off + n - SIZE
    BY <2>1, <2>2, RemainderUnique, RingAssumption
  <2> QED
    BY <2>3, <1>6, <1>1, RingAssumption DEF SlotOf, off, d
<1> QED
  BY <1>5, <1>6, <1>1, RingAssumption

\* Used, read backwards: in is out plus the frames in the buffer.
LEMMA UsedMeans ==
  ASSUME NEW i \in 0 .. WORD - 1, NEW o \in 0 .. WORD - 1, NEW l \in 0 .. SIZE
  PROVE  (i - o) % WORD = l <=> i = (o + l) % WORD
<1>1. i - o \in Int /\ -WORD <= i - o /\ i - o < 2 * WORD /\ l < WORD
  BY RingAssumption
<1> DEFINE d == (i - o) % WORD
           e == (o + l) % WORD
<1>2. d \in 0 .. WORD - 1 /\ (d = i - o \/ d = i - o - WORD \/ d = i - o + WORD)
  BY <1>1, WrapOnce
<1>3. e \in 0 .. WORD - 1 /\ (e = o + l \/ e = o + l - WORD)
  BY CounterAdds
<1> HIDE DEF d, e
<1>4. d = l <=> i = e
  BY <1>1, <1>2, <1>3, RingAssumption
<1> QED
  BY <1>4 DEF d, e

\* Adding n frames in unsigned arithmetic.
LEMMA UsedAdds ==
  ASSUME NEW i \in 0 .. WORD - 1, NEW o \in 0 .. WORD - 1, NEW n \in 0 .. SIZE,
         ((i - o) % WORD) + n <= SIZE
  PROVE  (((i + n) % WORD) - o) % WORD = ((i - o) % WORD) + n
<1> DEFINE l == (i - o) % WORD
           j == (i + n) % WORD
<1>1. i - o \in Int /\ -WORD <= i - o /\ i - o < 2 * WORD /\ n < WORD
  BY RingAssumption
<1>2. l \in 0 .. WORD - 1 /\ (l = i - o \/ l = i - o - WORD \/ l = i - o + WORD)
  BY <1>1, WrapOnce
<1>3. j \in 0 .. WORD - 1 /\ (j = i + n \/ j = i + n - WORD)
  BY CounterAdds
<1>4. l + n <= SIZE
  OBVIOUS
<1> HIDE DEF l, j
<1> DEFINE d == (j - o) % WORD
<1>5. j - o \in Int /\ -WORD <= j - o /\ j - o < 2 * WORD
  BY <1>3, RingAssumption
<1>6. d \in 0 .. WORD - 1 /\ (d = j - o \/ d = j - o - WORD \/ d = j - o + WORD)
  BY <1>5, WrapOnce
<1> HIDE DEF d
<1>7. d = l + n
  BY <1>1, <1>2, <1>3, <1>4, <1>6, RingAssumption
<1> QED
  BY <1>7 DEF l, j, d

\* Taking n frames in unsigned arithmetic.
LEMMA UsedTakes ==
  ASSUME NEW i \in 0 .. WORD - 1, NEW o \in 0 .. WORD - 1, NEW n \in 0 .. SIZE,
         n <= (i - o) % WORD
  PROVE  (i - ((o + n) % WORD)) % WORD = ((i - o) % WORD) - n
<1> DEFINE l == (i - o) % WORD
           p == (o + n) % WORD
<1>1. i - o \in Int /\ -WORD <= i - o /\ i - o < 2 * WORD /\ n < WORD
  BY RingAssumption
<1>2. l \in 0 .. WORD - 1 /\ (l = i - o \/ l = i - o - WORD \/ l = i - o + WORD)
  BY <1>1, WrapOnce
<1>3. p \in 0 .. WORD - 1 /\ (p = o + n \/ p = o + n - WORD)
  BY CounterAdds
<1>4. n <= l
  OBVIOUS
<1> HIDE DEF l, p
<1> DEFINE e == (i - p) % WORD
<1>5. i - p \in Int /\ -WORD <= i - p /\ i - p < 2 * WORD
  BY <1>3, RingAssumption
<1>6. e \in 0 .. WORD - 1 /\ (e = i - p \/ e = i - p - WORD \/ e = i - p + WORD)
  BY <1>5, WrapOnce
<1> HIDE DEF e
<1>7. e = l - n
  BY <1>1, <1>2, <1>3, <1>4, <1>6, RingAssumption
<1> QED
  BY <1>7 DEF l, p, e

-----------------------------------------------------------------------------
\* What a copy leaves in the slots it covers and in the others.
LEMMA CopiedSlots ==
  ASSUME RingTypeOK, NEW ks \in SUBSET (0 .. wn - 1)
  PROVE  /\ Copied(ks) \in [Indices -> Frames \cup {Blank}]
         /\ \A k \in ks : Copied(ks)[SlotOf(in, k)] = Frame(k)
         /\ \A i \in Indices : (\A k \in ks : SlotOf(in, k) # i) => Copied(ks)[i] = slots[i]
<1>1. /\ in \in 0 .. WORD - 1 /\ seq \in Int /\ wn \in 1 .. SIZE
      /\ slots \in [Indices -> Frames \cup {Blank}]
  BY RingAssumption DEF RingTypeOK, Frames
<1>2. \A k \in ks : k \in Indices /\ k \in Int
  BY <1>1, RingAssumption DEF Indices
<1>3. \A k \in ks : Frame(k) \in Frames
  BY <1>1, <1>2, Remainder, RingAssumption DEF Frame, Frames
<1>4. \A j, k \in ks : SlotOf(in, j) = SlotOf(in, k) => j = k
  BY <1>1, <1>2, SlotInjective
<1>5. \A k \in ks : SlotOf(in, k) \in Indices
  BY <1>1, <1>2, SlotInRange
<1> DEFINE who(i) == CHOOSE k \in ks : SlotOf(in, k) = i
<1>6. ASSUME NEW i \in Indices, NEW k \in ks, SlotOf(in, k) = i
      PROVE  who(i) = k
  BY <1>4, <1>6
<1> HIDE DEF who
<1>7. Copied(ks) = [i \in Indices |->
        IF \E k \in ks : SlotOf(in, k) = i THEN Frame(who(i)) ELSE slots[i]]
  BY DEF Copied, who
<1>8. \A i \in Indices : (\E k \in ks : SlotOf(in, k) = i) => who(i) \in ks
  BY <1>6
<1> QED
  BY <1>1, <1>3, <1>5, <1>6, <1>7, <1>8

\* A copy that fits never touches an unread frame.
LEMMA UnreadKept ==
  ASSUME RingTypeOK, NEW ks \in SUBSET (0 .. wn - 1),
         Divides \/ in = out + Len(unread),
         Used = Len(unread), Len(unread) + wn <= SIZE,
         NEW k \in 1 .. Len(unread)
  PROVE  /\ SlotOf(out, k - 1) \in Indices
         /\ Copied(ks)[SlotOf(out, k - 1)] = slots[SlotOf(out, k - 1)]
<1>1. /\ in \in 0 .. WORD - 1 /\ out \in 0 .. WORD - 1 /\ wn \in 1 .. SIZE
      /\ unread \in Seq(Frames) /\ SIZE \in Nat
  BY RingAssumption DEF RingTypeOK
<1>2. Len(unread) \in 0 .. SIZE /\ k - 1 \in Indices /\ k \in Int
  BY <1>1, LenProperties DEF Indices
<1>3. in = (out + Len(unread)) % WORD
  BY <1>1, <1>2, UsedMeans DEF Used
<1>4. ASSUME NEW j \in ks
      PROVE  SlotOf(in, j) # SlotOf(out, k - 1)
  <2>1. j \in Nat /\ Len(unread) + j < SIZE /\ Len(unread) + j \in Indices
    BY <1>1, <1>2 DEF Indices
  <2>2. SlotOf(in, j) = SlotOf(out, Len(unread) + j)
    <3>1. Divides \/ out + Len(unread) < WORD
      BY <1>1, RingAssumption
    <3> QED BY <1>1, <1>2, <1>3, <2>1, <3>1, SlotShift
  <2>3. Len(unread) + j # k - 1
    BY <1>2, <2>1
  <2> QED
    BY <1>1, <1>2, <2>1, <2>2, <2>3, SlotInjective
<1>5. SlotOf(out, k - 1) \in Indices
  BY <1>1, <1>2, SlotInRange
<1> QED
  BY <1>4, <1>5, CopiedSlots

-----------------------------------------------------------------------------
LEMMA RingInvInit == RingInit => RingInv
<1> SUFFICES ASSUME RingInit PROVE RingInv
  OBVIOUS
<1> USE RingAssumption
<1>1. RingTypeOK
  <2>1. rbuf \in Seq(Frames \cup {Blank}) /\ unread \in Seq(Frames)
    BY EmptySeq DEF RingInit
  <2>2. slots \in [Indices -> Frames \cup {Blank}]
    BY DEF RingInit
  <2>3. seq \in Frames /\ in \in 0 .. WORD - 1 /\ out \in 0 .. WORD - 1
    BY DEF RingInit, Frames
  <2>4. wn \in 1 .. SIZE /\ rn \in 1 .. SIZE
    BY DEF RingInit
  <2> QED
    BY <2>1, <2>2, <2>3, <2>4 DEF RingInit, RingTypeOK
<1>2. Len(unread) = 0 /\ Used = 0
  <2>1. (0 - 0) % WORD = 0
    BY WrapOnce
  <2> QED
    BY <2>1, EmptySeq DEF RingInit, Used
<1>3. RingHoldsUnread
  BY <1>2 DEF RingHoldsUnread
<1> QED
  BY <1>1, <1>2, <1>3 DEF RingInit, RingInv, Contents, OneInside, ReadCovered, WriteFits, WrittenSoFar,
     Unwrapped, ReadsInOrder, WriterInside, ReaderInside, Resetting

\* The types are kept by every step.
LEMMA RingTypeStep ==
  ASSUME RingTypeOK, RingNext
  PROVE  RingTypeOK'
<1> USE RingAssumption
<1> DEFINE F == Frames \cup {Blank}
<1>1. /\ in \in 0 .. WORD - 1 /\ out \in 0 .. WORD - 1
      /\ slots \in [Indices -> F]
      /\ wn \in 1 .. SIZE /\ rn \in 1 .. SIZE
      /\ seq \in Frames /\ seq \in Nat
      /\ rbuf \in Seq(F) /\ unread \in Seq(Frames)
  BY DEF RingTypeOK, Frames
<1>2. in' \in 0 .. WORD - 1 /\ out' \in 0 .. WORD - 1
  <2>1. wn \in 0 .. SIZE /\ rn \in 0 .. SIZE
    BY <1>1
  <2>2. (in + wn) % WORD \in 0 .. WORD - 1 /\ (out + rn) % WORD \in 0 .. WORD - 1
    BY <1>1, <2>1, CounterAdds
  <2> QED
    BY <1>1, <2>2, SMTT(40) DEF RingNext, Writer, Reader, WriterStart, WriterFrame, ClearDown,
       ClearFirst, ClearSecond, WriteDown, ResetFirst, ResetSecond, WriteCopyEnd,
       WriteCopyBegin, WriteAdvance, WriterStop, ReadAgain, ReadDown, ReadCopy,
       ReadAdvance, ReaderRestart, FirstStore, SecondStore, shared, writer, reader, ringVars
<1>3. slots' \in [Indices -> F]
  <2>1. ToTheEnd \in SUBSET (0 .. wn - 1) /\ (0 .. wn - 1) \ ToTheEnd \in SUBSET (0 .. wn - 1)
    BY DEF ToTheEnd
  <2>2. Copied(ToTheEnd) \in [Indices -> F] /\ Copied((0 .. wn - 1) \ ToTheEnd) \in [Indices -> F]
    BY <2>1, CopiedSlots
  <2> QED
    BY <1>1, <2>2 DEF RingNext, Writer, Reader, WriterStart, WriterFrame, ClearDown,
       ClearFirst, ClearSecond, WriteDown, ResetFirst, ResetSecond, WriteCopyEnd,
       WriteCopyBegin, WriteAdvance, WriterStop, ReadAgain, ReadDown, ReadCopy,
       ReadAdvance, ReaderRestart, FirstStore, SecondStore, shared, writer, reader, ringVars
<1>4. /\ wpc' \in {"off", "top", "clear", "write"} \cup WriterInside
      /\ wn' \in 1 .. SIZE
      /\ fresh' \in BOOLEAN
      /\ rpc' \in {"top"} \cup ReaderInside
      /\ rn' \in 1 .. SIZE
  BY <1>1 DEF RingTypeOK, RingNext, Writer, Reader, WriterStart, WriterFrame,
     ClearDown, ClearFirst, ClearSecond, WriteDown, ResetFirst, ResetSecond, WriteCopyEnd,
     WriteCopyBegin, WriteAdvance, WriterStop, ReadAgain, ReadDown, ReadCopy, ReadAdvance,
     ReaderRestart, WriterGoto, WriterInside, ReaderInside, Resetting, writer, reader, ringVars
<1>5. halfReset' \in BOOLEAN /\ wrapped' \in BOOLEAN
  BY DEF RingTypeOK, RingNext, Writer, Reader, WriterStart, WriterFrame,
     ClearDown, ClearFirst, ClearSecond, WriteDown, ResetFirst, ResetSecond, WriteCopyEnd,
     WriteCopyBegin, WriteAdvance, WriterStop, ReadAgain, ReadDown, ReadCopy, ReadAdvance,
     ReaderRestart, FirstStore, SecondStore, shared, ringVars
<1>6. seq' \in Frames
  <2>1. 0 \in Frames /\ (seq + wn) % SEQ \in Frames
    BY <1>1, Remainder DEF Frames
  <2> QED
    BY <1>1, <2>1 DEF RingNext, Writer, Reader, WriterStart, WriterFrame, ClearDown,
       ClearFirst, ClearSecond, WriteDown, ResetFirst, ResetSecond, WriteCopyEnd,
       WriteCopyBegin, WriteAdvance, WriterStop, ReadAgain, ReadDown, ReadCopy,
       ReadAdvance, ReaderRestart, writer, ringVars
<1>7. rbuf' \in Seq(F)
  <2>1. <<>> \in Seq(F)
    BY EmptySeq
  <2>2. \A k \in 1 .. rn : slots[SlotOf(out, k - 1)] \in F
    <3>1. \A k \in 1 .. rn : k - 1 \in Indices
      BY <1>1 DEF Indices
    <3> QED
      BY <1>1, <3>1, SlotInRange
  <2>3. [k \in 1 .. rn |-> slots[SlotOf(out, k - 1)]] \in Seq(F)
    BY <1>1, <2>2
  <2> QED
    BY <1>1, <2>1, <2>3 DEF RingNext, Writer, Reader, WriterStart, WriterFrame, ClearDown,
       ClearFirst, ClearSecond, WriteDown, ResetFirst, ResetSecond, WriteCopyEnd,
       WriteCopyBegin, WriteAdvance, WriterStop, ReadAgain, ReadDown, ReadCopy,
       ReadAdvance, ReaderRestart, reader, ringVars
<1>8. unread' \in Seq(Frames)
  <2>1. <<>> \in Seq(Frames)
    BY EmptySeq
  <2>2. \A k \in 1 .. wn : Frame(k - 1) \in Frames
    BY <1>1, Remainder DEF Frame, Frames
  <2>3. [k \in 1 .. wn |-> Frame(k - 1)] \in Seq(Frames)
    BY <1>1, <2>2
  <2>4. unread \o [k \in 1 .. wn |-> Frame(k - 1)] \in Seq(Frames)
    BY <1>1, <2>3, ConcatProperties
  <2>5. SubSeq(unread, rn + 1, Len(unread)) \in Seq(Frames)
    BY <1>1, LenProperties, SubSeqProperties
  <2> QED
    BY <1>1, <2>1, <2>4, <2>5 DEF RingNext, Writer, Reader, WriterStart, WriterFrame,
       ClearDown, ClearFirst, ClearSecond, WriteDown, ResetFirst, ResetSecond, WriteCopyEnd,
       WriteCopyBegin, WriteAdvance, WriterStop, ReadAgain, ReadDown, ReadCopy, ReadAdvance,
       ReaderRestart, FirstStore, SecondStore, shared, ringVars
<1> HIDE DEF F
<1> QED
  BY <1>2, <1>3, <1>4, <1>5, <1>6, <1>7, <1>8 DEF RingTypeOK, F, Blank

\* The semaphore lets one of them in.
LEMMA OneInsideStep ==
  ASSUME RingTypeOK, OneInside, RingNext
  PROVE  OneInside'
  BY DEF RingTypeOK, OneInside, RingNext, Writer, Reader, WriterStart, WriterFrame, ClearDown,
     ClearFirst, ClearSecond, WriteDown, ResetFirst, ResetSecond, WriteCopyEnd, WriteCopyBegin,
     WriteAdvance, WriterStop, ReadAgain, ReadDown, ReadCopy, ReadAdvance, ReaderRestart,
     WriterGoto, SemFree, WriterInside, ReaderInside, Resetting, writer, reader, ringVars

\* Steps that leave the counters, the slots and the frames as they are.
LEMMA ContentsQuiet ==
  ASSUME RingInv, Contiguous, UNCHANGED <<in, out, slots, unread, wrapped>>,
         \/ WriterStart \/ (\E n \in WriteCounts : WriterFrame(n))
         \/ ClearDown \/ WriterStop \/ ReaderRestart
  PROVE  Contents'
  BY DEF RingInv, Contents, OneInside, ReadCovered, WriteFits, WrittenSoFar, Unwrapped,
     RingHoldsUnread, ReadsInOrder, WriterStart, WriterFrame, ClearDown, WriterStop, ReaderRestart, WriterGoto,
     SemFree, WriterInside, ReaderInside, Resetting, Used, InPlace, ToTheEnd, Frame,
     shared, writer, reader

\* The two stores of a reset, from the clearing ioctl and from a write.
LEMMA ContentsReset ==
  ASSUME RingInv, ClearFirst \/ ClearSecond \/ ResetFirst \/ ResetSecond
  PROVE  Contents'
<1> USE RingAssumption
<1>1. /\ wpc \in WriterInside /\ rpc \notin ReaderInside /\ rpc' = rpc /\ wn' = wn
      /\ wn \in 1 .. SIZE
  BY DEF RingInv, RingTypeOK, OneInside, ClearFirst, ClearSecond, ResetFirst, ResetSecond,
     WriterGoto, WriterInside, Resetting, reader
<1>2. CASE ClearFirst \/ ResetFirst
  BY <1>1, <1>2 DEF Contents, ReadCovered, WriteFits, WrittenSoFar, Unwrapped,
     RingHoldsUnread, ReadsInOrder, ClearFirst, ResetFirst, WriterGoto, Resetting, ReaderInside
<1>3. CASE ClearSecond \/ ResetSecond
  <2>1. in' = 0 /\ out' = 0 /\ unread' = <<>> /\ wpc' \in {"write", "copy1"}
    BY <1>3 DEF ClearSecond, ResetSecond, SecondStore, WriterGoto
  <2>2. Used' = 0 /\ Len(unread') = 0
    <3>1. (0 - 0) % WORD = 0
      BY WrapOnce
    <3> QED
      BY <2>1, <3>1, EmptySeq DEF Used
  <2> QED
    BY <1>1, <2>1, <2>2 DEF Contents, ReadCovered, WriteFits, WrittenSoFar, Unwrapped,
       RingHoldsUnread, ReadsInOrder, ReaderInside
<1> QED
  BY <1>2, <1>3

\* down of a write, and of a read that finds its frames.
LEMMA ContentsDown ==
  ASSUME RingInv, Contiguous, WriteDown \/ (\E n \in ReadCounts : ReadDown(n))
  PROVE  Contents'
<1> USE RingAssumption
<1>1. /\ wn \in 1 .. SIZE /\ unread \in Seq(Frames) /\ Len(unread) \in Nat
      /\ UNCHANGED <<in, out, slots, unread, halfReset, wrapped, seq, wn>>
      /\ SemFree
  BY LenProperties DEF RingInv, RingTypeOK, WriteDown, ReadDown, shared, writer
<1>2. ~halfReset => Used = Len(unread) /\ Len(unread) <= SIZE
  BY <1>1 DEF RingInv, Contents, RingHoldsUnread, SemFree, WriterInside
<1>3. CASE WriteDown
  <2>1. ASSUME ~halfReset, wpc' = "copy1" PROVE Len(unread) + wn <= SIZE
    <3>1. SIZE - Len(unread) \in 0 .. WORD - 1
      BY <1>1, <1>2, <2>1
    <3>2. (SIZE - Len(unread)) % WORD = SIZE - Len(unread)
      BY <3>1, <1>1
    <3>3. ~NoRoom(wn)
      BY <1>3, <2>1 DEF WriteDown, WriterGoto
    <3> QED
      BY <1>1, <1>2, <2>1, <3>2, <3>3 DEF NoRoom
  <2> QED
    BY <1>1, <1>3, <2>1 DEF RingInv, Contents, OneInside, ReadCovered, WriteFits,
       WrittenSoFar, Unwrapped, RingHoldsUnread, ReadsInOrder, WriteDown, WriterGoto, SemFree,
       WriterInside, ReaderInside, Resetting, Used, reader
<1>4. CASE \E n \in ReadCounts : ReadDown(n)
  <2>1. PICK n \in ReadCounts : ReadDown(n)
    BY <1>4
  <2>2. rpc' = "copy" /\ rn' = n /\ n <= Used /\ wpc' = wpc
    BY <2>1 DEF ReadDown, writer
  <2> QED
    BY <1>1, <1>2, <2>2 DEF RingInv, Contents, OneInside, ReadCovered, WriteFits,
       WrittenSoFar, Unwrapped, RingHoldsUnread, ReadsInOrder, SemFree,
       WriterInside, ReaderInside, Resetting, Used
<1> QED
  BY <1>3, <1>4

\* The two copies of a write: up to the end of the buffer, then from its
\* beginning.
LEMMA ContentsCopy ==
  ASSUME Contiguous, RingInv, WriteCopyEnd \/ WriteCopyBegin
  PROVE  Contents'
<1> USE RingAssumption
<1> DEFINE rest == (0 .. wn - 1) \ ToTheEnd
<1>1. /\ wpc \in {"copy1", "copy2"} /\ wpc' \in {"copy2", "advance"}
      /\ UNCHANGED <<in, out, unread, halfReset, wrapped, seq, wn, rpc, rn, rbuf>>
      /\ rpc \notin ReaderInside
  BY DEF RingInv, OneInside, WriteCopyEnd, WriteCopyBegin, WriterGoto, WriterInside, reader
<1>2. ToTheEnd \in SUBSET (0 .. wn - 1) /\ rest \in SUBSET (0 .. wn - 1)
  BY DEF ToTheEnd
<1>3. ReadCovered' /\ ReadsInOrder' /\ WriteFits' /\ Unwrapped'
  BY <1>1 DEF RingInv, Contents, ReadCovered, ReadsInOrder, WriteFits, Unwrapped, Resetting, ReaderInside
<1>4. RingHoldsUnread'
  <2> SUFFICES ASSUME ~halfReset
               PROVE  /\ Len(unread) <= SIZE
                      /\ Used = Len(unread)
                      /\ \A k \in 1 .. Len(unread) : slots'[SlotOf(out, k - 1)] = unread[k]
    BY <1>1 DEF RingHoldsUnread, Used
  <2>1. /\ Len(unread) <= SIZE /\ Used = Len(unread) /\ Len(unread) + wn <= SIZE
        /\ \A k \in 1 .. Len(unread) : slots[SlotOf(out, k - 1)] = unread[k]
    BY <1>1 DEF RingInv, Contents, RingHoldsUnread, WriteFits, Resetting
  <2>2. slots' = Copied(ToTheEnd) \/ slots' = Copied(rest)
    BY DEF WriteCopyEnd, WriteCopyBegin
  <2>3. Divides \/ in = out + Len(unread)
    BY <1>1 DEF RingInv, Contents, Contiguous, Unwrapped, Resetting
  <2> HIDE DEF rest
  <2> QED
    BY <1>2, <2>1, <2>2, <2>3, UnreadKept DEF RingInv
<1>5. WrittenSoFar'
  <2>1. CASE WriteCopyEnd
    <3>1. \A k \in ToTheEnd : slots'[SlotOf(in, k)] = Frame(k)
      BY <1>2, <2>1, CopiedSlots DEF RingInv, WriteCopyEnd
    <3>2. ToTheEnd' = ToTheEnd /\ wpc' = "copy2"
      BY <1>1, <2>1 DEF ToTheEnd, WriteCopyEnd, WriterGoto
    <3>3. \A k : Frame(k)' = Frame(k)
      BY <1>1 DEF Frame
    <3>4. InPlace(ToTheEnd)'
      BY <1>1, <3>1, <3>2, <3>3 DEF InPlace
    <3> QED
      BY <3>2, <3>4 DEF WrittenSoFar, InPlace
  <2>2. CASE WriteCopyBegin
    <3>1. SUFFICES ASSUME ~halfReset, NEW k \in 0 .. wn - 1
                   PROVE  slots'[SlotOf(in, k)] = Frame(k)
      <4>1. \A k : Frame(k)' = Frame(k)
        BY <1>1 DEF Frame
      <4>2. wpc' = "advance"
        BY <2>2 DEF WriteCopyBegin, WriterGoto
      <4> QED
        BY <1>1, <4>1, <4>2 DEF WrittenSoFar, InPlace
    <3>2. slots' = Copied(rest) /\ wpc = "copy2"
      BY <2>2 DEF WriteCopyBegin, WriterGoto
    <3>3. CASE k \in rest
      BY <1>2, <3>2, <3>3, CopiedSlots DEF RingInv
    <3>4. CASE k \in ToTheEnd
      <4>1. slots[SlotOf(in, k)] = Frame(k)
        BY <3>1, <3>2, <3>4 DEF RingInv, Contents, WrittenSoFar, InPlace
      <4>2. /\ in \in 0 .. WORD - 1 /\ k \in Indices
            /\ \A j \in rest : j \in Indices /\ j # k
        BY <3>4 DEF RingInv, RingTypeOK, Indices
      <4>3. /\ SlotOf(in, k) \in Indices
            /\ \A j \in rest : SlotOf(in, j) # SlotOf(in, k)
        BY <4>2, SlotInRange, SlotInjective
      <4> HIDE DEF rest
      <4> QED
        BY <1>2, <3>2, <4>1, <4>3, CopiedSlots DEF RingInv
    <3> QED
      BY <3>3, <3>4
  <2> QED
    BY <2>1, <2>2
<1> QED
  BY <1>3, <1>4, <1>5 DEF Contents

\* up of a write: the frames in their slots become unread ones.
LEMMA ContentsWrite ==
  ASSUME Contiguous, RingInv, WriteAdvance
  PROVE  Contents'
<1> USE RingAssumption
<1> DEFINE new == [k \in 1 .. wn |-> Frame(k - 1)]
           l == Len(unread)
<1>1. /\ wpc = "advance" /\ wpc' = "top" /\ in' = (in + wn) % WORD
      /\ unread' = unread \o new
      /\ UNCHANGED <<out, slots, halfReset, wn, rpc, rn, rbuf>>
      /\ rpc \notin ReaderInside
  BY DEF RingInv, OneInside, WriteAdvance, WriterGoto, WriterInside, reader
<1>2. ReadCovered' /\ ReadsInOrder' /\ WriteFits' /\ WrittenSoFar'
  BY <1>1 DEF ReadCovered, ReadsInOrder, WriteFits, WrittenSoFar,
     ReaderInside, WriterInside, Resetting
<1>3. ASSUME ~halfReset PROVE RingHoldsUnread' /\ Unwrapped'
  <2>1. /\ l <= SIZE /\ Used = l /\ l + wn <= SIZE
        /\ \A k \in 1 .. l : slots[SlotOf(out, k - 1)] = unread[k]
        /\ \A k \in 0 .. wn - 1 : slots[SlotOf(in, k)] = Frame(k)
    BY <1>1, <1>3 DEF RingInv, Contents, RingHoldsUnread, WriteFits, WrittenSoFar, InPlace, Resetting
  <2>2. /\ in \in 0 .. WORD - 1 /\ out \in 0 .. WORD - 1 /\ wn \in 1 .. SIZE
        /\ seq \in Nat /\ unread \in Seq(Frames) /\ l \in Nat
    BY LenProperties DEF RingInv, RingTypeOK, Frames
  <2>3. new \in Seq(Frames) /\ Len(new) = wn
    <3>1. \A k \in 1 .. wn : Frame(k - 1) \in Frames
      BY <2>2, Remainder DEF Frame, Frames
    <3> QED
      BY <2>2, <3>1
  <2>4. \A k \in 1 .. wn : new[k] = Frame(k - 1)
    BY DEF new
  <2>5. /\ Len(unread') = l + wn
        /\ \A k \in 1 .. l + wn : unread'[k] = IF k <= l THEN unread[k] ELSE new[k - l]
    <3> HIDE DEF new
    <3>1. /\ Len(unread \o new) = Len(unread) + Len(new)
          /\ \A k \in 1 .. Len(unread) + Len(new) :
               (unread \o new)[k] = IF k <= Len(unread) THEN unread[k] ELSE new[k - Len(unread)]
      BY <2>2, <2>3, ConcatProperties
    <3> QED
      BY <1>1, <2>3, <3>1
  <2>10. (Divides \/ in = out + l) /\ (~wrapped => in = out + l)
    BY <1>1, <1>3 DEF RingInv, Contents, Contiguous, Unwrapped, Resetting
  <2> HIDE DEF l, new
  <2>6. l \in 0 .. SIZE /\ wn \in 0 .. SIZE
    BY <2>1, <2>2
  <2>7. (in - out) % WORD = l /\ l + wn <= SIZE
    BY <2>1 DEF Used
  <2>8. Used' = l + wn /\ in = (out + l) % WORD
    <3>1. (((in + wn) % WORD) - out) % WORD = l + wn
      <4>1. ((in - out) % WORD) + wn <= SIZE
        BY <2>7
      <4>2. (((in + wn) % WORD) - out) % WORD = ((in - out) % WORD) + wn
        BY <2>2, <2>6, <4>1, UsedAdds
      <4> QED
        BY <2>7, <4>2
    <3>2. in = (out + l) % WORD
      BY <2>2, <2>6, <2>7, UsedMeans
    <3> QED
      BY <1>1, <3>1, <3>2 DEF Used
  <2>9. ASSUME NEW k \in 1 .. l + wn
        PROVE  slots[SlotOf(out, k - 1)] = unread'[k]
    <3>1. CASE k <= l
      BY <2>1, <2>2, <2>5, <3>1
    <3>2. CASE k > l
      <4>1. PICK j \in 0 .. wn - 1 : k = l + j + 1
        BY <2>2, <3>2
      <4>2. j \in Nat /\ l + j < SIZE /\ k - 1 = l + j
        BY <2>2, <2>7, <4>1
      <4>3. SlotOf(in, j) = SlotOf(out, k - 1)
        <5>0. Divides \/ out + l < WORD
          BY <2>2, <2>10
        <5>1. SlotOf((out + l) % WORD, j) = SlotOf(out, l + j)
          BY <2>2, <2>6, <4>2, <5>0, SlotShift
        <5> QED
          BY <2>8, <4>2, <5>1
      <4>4. k - l \in 1 .. wn /\ (k - l) - 1 = j
        BY <2>2, <4>1
      <4>5. unread'[k] = Frame(j)
        BY <2>2, <2>4, <2>5, <3>2, <4>4
      <4> QED
        BY <2>1, <4>3, <4>5
    <3> QED
      BY <2>2, <3>1, <3>2
  <2>11. ~wrapped' => in' = out' + Len(unread')
    <3>1. ~wrapped' => ~wrapped /\ in + wn < WORD
      <4>1. ~wrapped' => ~wrapped /\ ~(in + wn >= WORD)
        BY DEF WriteAdvance
      <4> QED
        BY <2>2, <4>1
    <3>2. in + wn < WORD => in' = in + wn
      <4>1. in' \in 0 .. WORD - 1 /\ (in' = in + wn \/ in' = in + wn - WORD)
        BY <1>1, <2>2, <2>6, CounterAdds
      <4> QED
        BY <2>2, <4>1
    <3> QED
      BY <1>1, <2>2, <2>5, <2>10, <3>1, <3>2
  <2> QED
    BY <1>1, <2>5, <2>7, <2>8, <2>9, <2>11 DEF RingHoldsUnread, Unwrapped
<1> QED
  BY <1>1, <1>2, <1>3 DEF Contents, RingHoldsUnread, Unwrapped

\* The copy of a read and its up: the frames copied are the oldest ones, and
\* those that stay keep their slots.
LEMMA ContentsRead ==
  ASSUME Contiguous, RingInv, ReadCopy \/ ReadAdvance
  PROVE  Contents'
<1> USE RingAssumption
<1> DEFINE l == Len(unread)
<1>1. /\ rpc \in ReaderInside /\ wpc \notin WriterInside
      /\ UNCHANGED <<in, slots, halfReset, wrapped, rn, wpc, wn, seq>>
  BY DEF RingInv, OneInside, ReadCopy, ReadAdvance, ReaderInside, shared, writer
<1>2. WriteFits' /\ WrittenSoFar'
  BY <1>1 DEF WriteFits, WrittenSoFar, WriterInside
<1>3. /\ in \in 0 .. WORD - 1 /\ out \in 0 .. WORD - 1 /\ rn \in 1 .. SIZE
      /\ unread \in Seq(Frames) /\ l \in Nat
  BY LenProperties DEF RingInv, RingTypeOK
<1>4. ~halfReset =>
        /\ l <= SIZE /\ Used = l /\ rn <= l
        /\ \A k \in 1 .. l : slots[SlotOf(out, k - 1)] = unread[k]
        /\ Divides \/ in = out + l
        /\ ~wrapped => in = out + l
  BY <1>1 DEF RingInv, Contents, Contiguous, Unwrapped, RingHoldsUnread, ReadCovered, WriterInside, ReaderInside
<1>5. CASE ReadCopy
  <2>1. /\ UNCHANGED <<in, out, slots, unread, halfReset>> /\ rpc' = "advance"
        /\ rbuf' = [k \in 1 .. rn |-> slots[SlotOf(out, k - 1)]]
    BY <1>5 DEF ReadCopy, shared
  <2>2. RingHoldsUnread' /\ ReadCovered' /\ Unwrapped'
    BY <1>1, <1>4, <2>1 DEF RingHoldsUnread, ReadCovered, Unwrapped, Used
  <2>3. ASSUME ~halfReset PROVE rn <= l /\ rbuf' = SubSeq(unread, 1, rn)
    <3>1. rn <= l /\ \A k \in 1 .. rn : slots[SlotOf(out, k - 1)] = unread[k]
      BY <1>3, <1>4, <2>3
    <3>2. SubSeq(unread, 1, rn) = [k \in 1 .. rn |-> unread[k]]
      BY <1>3, <3>1
    <3> QED
      BY <2>1, <3>1, <3>2
  <2>4. ReadsInOrder'
    BY <1>1, <2>1, <2>3 DEF ReadsInOrder
  <2> QED
    BY <1>2, <2>2, <2>4 DEF Contents
<1>6. CASE ReadAdvance
  <2>1. /\ UNCHANGED <<in, slots, halfReset, rn, wpc>> /\ rpc' = "top"
        /\ out' = (out + rn) % WORD
        /\ unread' = SubSeq(unread, rn + 1, l)
    BY <1>6 DEF ReadAdvance, writer
  <2>2. ReadCovered' /\ ReadsInOrder'
    BY <2>1 DEF ReadCovered, ReadsInOrder, ReaderInside
  <2>3. ASSUME ~halfReset PROVE RingHoldsUnread' /\ Unwrapped'
    <3>1. /\ Len(unread') = l - rn
          /\ \A k \in 1 .. l - rn : unread'[k] = unread[rn + k]
      <4>1. rn <= l /\ rn + 1 \in Int /\ l \in Int /\ rn \in Int
        BY <1>3, <1>4, <2>3
      <4>2. \A k \in rn + 1 .. l : unread[k] \in Frames
        BY <1>3, <4>1
      <4>3. /\ Len(SubSeq(unread, rn + 1, l)) = IF rn + 1 <= l THEN l - (rn + 1) + 1 ELSE 0
            /\ \A k \in 1 .. l - (rn + 1) + 1 :
                 SubSeq(unread, rn + 1, l)[k] = unread[(rn + 1) + k - 1]
        BY <4>1, <4>2, SubSeqProperties
      <4> HIDE DEF l
      <4>4. /\ Len(unread') = IF rn + 1 <= l THEN l - (rn + 1) + 1 ELSE 0
            /\ \A k \in 1 .. l - (rn + 1) + 1 : unread'[k] = unread[(rn + 1) + k - 1]
        BY <2>1, <4>3
      <4>5. l - (rn + 1) + 1 = l - rn /\ (~(rn + 1 <= l) => l - rn = 0)
        BY <4>1
      <4>6. \A k \in 1 .. l - rn : (rn + 1) + k - 1 = rn + k
        BY <4>1
      <4> QED
        BY <4>4, <4>5, <4>6
    <3>2. Used' = l - rn
      <4>1. l \in 0 .. SIZE /\ rn \in 0 .. SIZE /\ rn <= l
        BY <1>3, <1>4, <2>3
      <4>2. l = (in - out) % WORD /\ rn <= (in - out) % WORD
        BY <1>4, <2>3 DEF Used
      <4>3. (in - ((out + rn) % WORD)) % WORD = ((in - out) % WORD) - rn
        BY <1>3, <4>1, <4>2, UsedTakes
      <4> QED
        BY <2>1, <4>2, <4>3 DEF Used
    <3>3. ASSUME NEW k \in 1 .. l - rn
          PROVE  slots[SlotOf(out', k - 1)] = unread'[k]
      <4>1. /\ rn \in 0 .. SIZE /\ k - 1 \in Nat /\ rn + k \in 1 .. l
            /\ rn + (k - 1) < SIZE /\ (rn + k) - 1 = rn + (k - 1)
        BY <1>3, <1>4, <2>3
      <4>2. SlotOf(out', k - 1) = SlotOf(out, (rn + k) - 1)
        <5>0. Divides \/ out + rn < WORD
          BY <1>3, <1>4, <2>3
        <5>1. SlotOf((out + rn) % WORD, k - 1) = SlotOf(out, rn + (k - 1))
          BY <1>3, <4>1, <5>0, SlotShift
        <5> QED
          BY <2>1, <4>1, <5>1
      <4> QED
        BY <1>4, <2>3, <3>1, <4>1, <4>2
    <3>4. Len(unread') <= SIZE
      BY <1>3, <1>4, <2>3, <3>1
    <3>5. ~wrapped => in = (out + rn) + (l - rn) /\ (out + rn) % WORD = out + rn
      <4>1. /\ (out + rn) % WORD \in 0 .. WORD - 1
            /\ (out + rn) % WORD = out + rn \/ (out + rn) % WORD = out + rn - WORD
        <5>1. rn \in 0 .. SIZE /\ out \in 0 .. WORD - 1
          BY <1>3
        <5> QED
          BY <5>1, CounterAdds
      <4> HIDE DEF l
      <4>2. ~wrapped => in = out + l /\ rn <= l
        BY <1>4, <2>3
      <4> QED
        BY <1>3, <4>1, <4>2
    <3> QED
      BY <1>1, <3>1, <3>2, <3>3, <3>4, <3>5, <2>1 DEF RingHoldsUnread, Unwrapped
  <2> QED
    BY <1>2, <2>1, <2>2, <2>3 DEF Contents, RingHoldsUnread, Unwrapped
<1> QED
  BY <1>5, <1>6

\* Every step keeps the invariant.
LEMMA RingInvStep ==
  ASSUME RingInv, [RingNext]_ringVars
  PROVE  RingInv'
<1>1. CASE UNCHANGED ringVars
  BY <1>1 DEF RingInv, RingTypeOK, Contents, Contiguous, OneInside, ReadCovered, WriteFits, WrittenSoFar,
     Unwrapped, RingHoldsUnread, ReadsInOrder, Used, InPlace, ToTheEnd, Frame, ringVars, shared,
     writer, reader
<1>2. CASE RingNext
  <2>1. RingTypeOK' /\ OneInside'
    BY <1>2, RingTypeStep, OneInsideStep DEF RingInv
  <2> SUFFICES ASSUME Contiguous' PROVE Contents'
    BY <2>1 DEF RingInv
  <2>3. CASE ClearFirst \/ ClearSecond \/ ResetFirst \/ ResetSecond
    BY <2>3, ContentsReset
  <2>4. CASE ~(ClearFirst \/ ClearSecond \/ ResetFirst \/ ResetSecond)
    <3>1. wrapped => wrapped'
      BY <1>2, <2>4 DEF RingNext, Writer, Reader, WriterStart, WriterFrame, ClearDown, WriteDown,
         WriteCopyEnd, WriteCopyBegin, WriteAdvance, WriterStop, ReadAgain, ReadDown, ReadCopy,
         ReadAdvance, ReaderRestart, shared, ringVars
    <3>2. Contiguous
      BY <3>1 DEF Contiguous
    <3>3. CASE \/ WriterStart \/ (\E n \in WriteCounts : WriterFrame(n))
               \/ ClearDown \/ WriterStop \/ ReaderRestart
      <4>1. UNCHANGED <<in, out, slots, unread, wrapped>>
        BY <3>3 DEF WriterStart, WriterFrame, ClearDown, WriterStop, ReaderRestart, shared
      <4> QED
        BY <3>2, <3>3, <4>1, ContentsQuiet
    <3>4. CASE WriteDown \/ (\E n \in ReadCounts : ReadDown(n))
      BY <3>2, <3>4, ContentsDown
    <3>5. CASE WriteCopyEnd \/ WriteCopyBegin
      BY <3>2, <3>5, ContentsCopy
    <3>6. CASE WriteAdvance
      BY <3>2, <3>6, ContentsWrite
    <3>7. CASE ReadCopy \/ ReadAdvance
      BY <3>2, <3>7, ContentsRead
    <3>8. CASE \E n \in ReadCounts : ReadAgain(n)
      <4>1. UNCHANGED ringVars
        BY <3>8 DEF ReadAgain
      <4> QED BY <1>1, <4>1 DEF RingInv
    <3> QED
      BY <1>2, <2>4, <3>3, <3>4, <3>5, <3>6, <3>7, <3>8 DEF RingNext, Writer, Reader
  <2> QED
    BY <2>3, <2>4
<1> QED
  BY <1>1, <1>2

-----------------------------------------------------------------------------
\* The invariant holds in every reachable state of the writer, the reader and
\* the segment, processes dying anywhere included.
THEOREM RingInvariant == RingSpec => []RingInv
<1>1. RingInit => RingInv
  BY RingInvInit
<1>2. RingInv /\ [RingNext]_ringVars => RingInv'
  BY RingInvStep
<1> QED
  BY <1>1, <1>2, PTL DEF RingSpec

\* local_ipc_data_shm_read and _write keep the counters below 2^32 and the
\* slots within the segment, for every size.
THEOREM RingTypes == RingSpec => []RingTypeOK
<1>1. RingInv => RingTypeOK
  BY DEF RingInv
<1> QED
  BY <1>1, RingInvariant, PTL

\* The segment holds exactly the frames written and not yet read, whatever the
\* size, counts and deaths: until a counter passes 2^32 without a reset, and
\* for ever if the size divides 2^32 (local_ipc_data_share_memory.c:272-313).
THEOREM RingKeepsUnread == RingSpec => [](Contiguous => RingHoldsUnread)
<1>1. RingInv => (Contiguous => RingHoldsUnread)
  BY DEF RingInv, Contents
<1> QED
  BY <1>1, RingInvariant, PTL

\* A read returns the oldest unread frames, in the order they were written,
\* for every size as long as no counter has wrapped since the last reset, and
\* through the wrap if the size divides 2^32.
THEOREM RingReadsInOrder == RingSpec => [](Contiguous => ReadsInOrder)
<1>1. RingInv => (Contiguous => ReadsInOrder)
  BY DEF RingInv, Contents
<1> QED
  BY <1>1, RingInvariant, PTL
=============================================================================
