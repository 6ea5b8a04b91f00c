------------------------ MODULE PlayerBuffers_proofs ------------------------
(* Proofs about one player's buffers.  SpscRing, for every ring size, word   *)
(* size and request length: the ring invariant, what the mixer hears, the    *)
(* slots the game thread keeps off, and that the ring implements ByteStream. *)
(* They hold for the discipline the code relies on, that no flush falls      *)
(* inside another thread's ring_write (CrossThreadFlush = FALSE).            *)
(* BufferLedger, for every length of the table of sizes, word, ring and      *)
(* buffer size: the account of enqueued buffers is exact, step by step, as   *)
(* long as no audio callback falls inside an Enqueue.                        *)
EXTENDS SpscRing, BufferLedger, FiniteSetTheorems, SequenceTheorems,
        WellFoundedInduction, TLAPS

-----------------------------------------------------------------------------
(* Remainders: the arithmetic of uint32_t counters and of & MASK.            *)

\* Division with remainder.
LEMMA DivMod ==
  ASSUME NEW a \in Int, NEW n \in Nat \ {0}
  PROVE  /\ a % n \in 0 .. n - 1
         /\ a \div n \in Int
         /\ a = n * (a \div n) + (a % n)
  BY Z3

\* A remainder is unique.
LEMMA Remainder ==
  \A n \in Nat \ {0} : \A q \in Int : \A r \in 0 .. n - 1 : (n * q + r) % n = r
  BY Z3

\* Taking away a multiple of n does not change the remainder.
LEMMA SubMultiple ==
  ASSUME NEW n \in Nat \ {0}, NEW m \in Int, NEW a \in Int
  PROVE  (a - n * m) % n = a % n
  <1>1. PICK q \in Int : a = n * q + (a % n)
    BY DivMod
  <1>2. a % n \in 0 .. n - 1
    BY DivMod
  <1>3. a - n * m = n * (q - m) + (a % n)
    BY <1>1, <1>2, Z3
  <1>4. q - m \in Int
    BY Z3
  <1>5. (n * (q - m) + (a % n)) % n = a % n
    BY <1>2, <1>4, Remainder, Zenon
  <1> QED BY <1>3, <1>5, Zenon

\* Adding at most one turn wraps at most once.
LEMMA AddMod ==
  ASSUME NEW n \in Nat \ {0}, NEW a \in Int, NEW k \in 0 .. n
  PROVE  (a + k) % n = IF (a % n) + k < n THEN (a % n) + k ELSE (a % n) + k - n
  <1>1. PICK q \in Int, r \in Int : a = n * q + r /\ r = a % n
    <2>1. a \div n \in Int /\ a % n \in Int /\ a = n * (a \div n) + (a % n)
      BY DivMod, Z3
    <2> QED BY <2>1, Zenon
  <1>2. r \in 0 .. n - 1
    BY <1>1, DivMod
  <1>3. CASE r + k < n
    <2>1. r + k \in 0 .. n - 1 /\ a + k = n * q + (r + k)
      BY <1>1, <1>2, <1>3, Z3
    <2>2. (n * q + (r + k)) % n = r + k
      BY <2>1, Remainder, Zenon
    <2> QED BY <1>1, <1>3, <2>1, <2>2, Zenon
  <1>4. CASE ~(r + k < n)
    <2>1. r + k - n \in 0 .. n - 1 /\ q + 1 \in Int /\ a + k = n * (q + 1) + (r + k - n)
      BY <1>1, <1>2, <1>4, Z3
    <2>2. (n * (q + 1) + (r + k - n)) % n = r + k - n
      BY <2>1, Remainder, Zenon
    <2> QED BY <1>1, <1>4, <2>1, <2>2, Zenon
  <1> QED BY <1>3, <1>4, Zenon

\* A number below n is its own remainder.
LEMMA SmallMod ==
  ASSUME NEW n \in Nat \ {0}, NEW a \in 0 .. n - 1
  PROVE  a % n = a
  BY Z3

-----------------------------------------------------------------------------
(* The word and the ring.                                                    *)

\* A word holds at least two rings, so no distance inside the ring wraps it.
LEMMA WordFacts ==
  /\ RingSize \in Nat \ {0}
  /\ Word \in Nat \ {0}
  /\ 2 * RingSize <= Word
  BY RingAssumption, Z3 DEF Word

\* A counter that wraps the word keeps its slot: the word is whole rings.
LEMMA MaskForgetsWord ==
  ASSUME NEW y \in Int
  PROVE  (y - Word) % RingSize = y % RingSize
  <1>1. Wraps \in Int /\ RingSize \in Nat \ {0}
    BY RingAssumption
  <1>2. (y - RingSize * Wraps) % RingSize = y % RingSize
    BY <1>1, SubMultiple
  <1> QED BY <1>2 DEF Word

\* Masking a counter finds a slot.
LEMMA MaskedSlot ==
  ASSUME NEW x \in 0 .. Word - 1
  PROVE  x % RingSize \in Slots
  <1>1. x \in Int
    BY WordFacts
  <1>2. x % RingSize \in 0 .. RingSize - 1
    BY <1>1, WordFacts, DivMod
  <1> QED BY <1>2 DEF Slots

\* Masking a counter that has advanced k bytes finds the slot k bytes on: the
\* counter may wrap the word, the slot may wrap the ring.
LEMMA MaskedAdvance ==
  ASSUME NEW x \in 0 .. Word - 1, NEW k \in 0 .. RingSize
  PROVE  /\ (x + k) % Word \in 0 .. Word - 1
         /\ ((x + k) % Word) % RingSize = Slot(x % RingSize, k)
  <1>1. x \in Int /\ k \in 0 .. Word /\ x + k \in Int /\ Word \in Int /\ Wraps \in Int
    BY WordFacts, RingAssumption
  <1>2. x % Word = x
    BY WordFacts, SmallMod
  <1>3. (x + k) % Word = IF x + k < Word THEN x + k ELSE x + k - Word
    BY <1>1, <1>2, WordFacts, AddMod
  <1>4. (x + k - Word) % RingSize = (x + k) % RingSize
    BY <1>1, MaskForgetsWord
  <1>5. (x + k) % RingSize = Slot(x % RingSize, k)
    BY <1>1, WordFacts, AddMod DEF Slot
  <1>6. ((x + k) % Word) % RingSize = Slot(x % RingSize, k)
    BY <1>3, <1>4, <1>5
  <1>7. (x + k) % Word \in 0 .. Word - 1
    BY <1>1, WordFacts, DivMod
  <1> QED BY <1>6, <1>7

\* Two advances of a counter are one advance by their sum.
LEMMA AdvanceTwice ==
  ASSUME NEW x \in 0 .. Word - 1, NEW j \in Nat, NEW k \in Nat, j + k <= RingSize
  PROVE  (((x + j) % Word) + k) % Word = (x + (j + k)) % Word
  <1> DEFINE y == (x + j) % Word
  <1>1. x \in Int /\ x % Word = x
    BY WordFacts, SmallMod
  <1>2. j \in 0 .. Word /\ k \in 0 .. Word /\ j + k \in 0 .. Word
    BY WordFacts
  <1>3. y = IF x + j < Word THEN x + j ELSE x + j - Word
    BY <1>1, <1>2, WordFacts, AddMod
  <1>4. (x + (j + k)) % Word = IF x + (j + k) < Word THEN x + (j + k) ELSE x + (j + k) - Word
    BY <1>1, <1>2, WordFacts, AddMod
  <1>5. y \in 0 .. Word - 1
    BY <1>3, <1>2, WordFacts
  <1>6. y % Word = y
    BY <1>5, WordFacts, SmallMod
  <1>7. (y + k) % Word = IF y + k < Word THEN y + k ELSE y + k - Word
    <2>1. y \in Int
      BY <1>5
    <2> QED BY <2>1, <1>2, <1>6, WordFacts, AddMod
  <1> HIDE DEF y
  <1>8. (y + k) % Word = (x + (j + k)) % Word
    BY <1>3, <1>4, <1>7, <1>2, WordFacts
  <1> QED BY <1>8 DEF y

\* The slot j + k bytes on is the slot k bytes on from the slot j bytes on.
LEMMA SlotShift ==
  ASSUME NEW at \in Slots, NEW j \in Nat, NEW k \in Nat, j + k <= RingSize
  PROVE  Slot(Slot(at, j), k) = Slot(at, j + k)
  BY WordFacts DEF Slot, Slots

\* Slots at different distances below the ring size are different slots.
LEMMA SlotInjective ==
  ASSUME NEW at \in Slots, NEW j \in Slots, NEW k \in Slots
  PROVE  /\ Slot(at, k) \in Slots
         /\ Slot(at, j) = Slot(at, k) => j = k
  BY WordFacts DEF Slot, Slots

-----------------------------------------------------------------------------
(* What the ring's readings of its own counters mean.                        *)

\* Under the invariant, ring_readable and ring_writable are the numbers of
\* pending bytes and of free slots, wherever the counters stand in the word.
LEMMA ReadableIsPending ==
  ASSUME TypeOK, CountersAgree
  PROVE  Readable = Pending /\ Writable = RingSize - Pending
  <1> DEFINE P == Pending
  <1>1. P \in 0 .. RingSize /\ ring_head = (ring_tail + P) % Word /\ ring_tail \in 0 .. Word - 1
    BY DEF TypeOK, CountersAgree
  <1> HIDE DEF P
  <1>2. P \in 0 .. Word /\ P \in 0 .. Word - 1 /\ P \in Int /\ ring_tail \in Int
    BY <1>1, WordFacts
  <1>3. P % Word = P /\ ring_tail % Word = ring_tail
    BY <1>1, <1>2, WordFacts, SmallMod
  <1>4. ring_head = IF ring_tail + P < Word THEN ring_tail + P ELSE ring_tail + P - Word
    BY <1>1, <1>2, <1>3, WordFacts, AddMod
  <1>5. ring_head - ring_tail = P \/ ring_head - ring_tail = P - Word
    BY <1>1, <1>2, <1>4, WordFacts
  <1>6. (P - Word) % Word = P
    <2>1. (P - Word * 1) % Word = P % Word
      BY <1>2, WordFacts, SubMultiple
    <2>2. P - Word * 1 = P - Word
      BY WordFacts
    <2> QED BY <2>1, <2>2, <1>3
  <1>7. Readable = P
    BY <1>3, <1>5, <1>6, Zenon DEF Readable
  <1>8. RingSize - P \in 0 .. Word - 1
    BY <1>1, WordFacts
  <1>9. (RingSize - P) % Word = RingSize - P
    BY <1>8, WordFacts, SmallMod
  <1> QED BY <1>7, <1>9 DEF Writable, P

\* The slot at ring_head is the slot just past the pending bytes, so the k-th
\* byte of a write goes where the (Pending + k)-th byte from the tail belongs.
LEMMA WriteSlot ==
  ASSUME TypeOK, CountersAgree, NEW k \in Nat, Pending + k <= RingSize
  PROVE  Slot(ring_head % RingSize, k) = Slot(ring_tail % RingSize, Pending + k)
  <1>1. Pending \in 0 .. RingSize /\ ring_head = (ring_tail + Pending) % Word /\ ring_tail \in 0 .. Word - 1
    BY DEF TypeOK, CountersAgree
  <1>2. ring_head % RingSize = Slot(ring_tail % RingSize, Pending) /\ ring_tail % RingSize \in Slots
    BY <1>1, MaskedAdvance, MaskedSlot
  <1>3. Pending \in Nat
    BY <1>1, WordFacts
  <1>4. Slot(Slot(ring_tail % RingSize, Pending), k) = Slot(ring_tail % RingSize, Pending + k)
    BY <1>2, <1>3, SlotShift
  <1> QED BY <1>2, <1>4

-----------------------------------------------------------------------------
(* The invariant.                                                            *)

\* The program starts with an empty ring.
LEMMA InitInv == Init => RingInv
  <1> SUFFICES ASSUME Init PROVE RingInv
    OBVIOUS
  <1>1. 0 \in 0 .. Word - 1 /\ 0 % Word = 0 /\ 0 \in Slots /\ 0 + 0 = 0
    BY WordFacts, SmallMod DEF Slots
  <1>2. TypeOK
    BY <1>1 DEF Init, TypeOK, Byte, Unwritten
  <1>3. Pending = 0 /\ FilledByWriter = 0
    BY DEF Init, Pending, FilledByWriter
  <1>4. CountersAgree
    BY <1>1, <1>3, WordFacts DEF Init, CountersAgree
  <1>5. SlotsHold
    BY <1>3 DEF SlotsHold
  <1> QED BY <1>2, <1>4, <1>5 DEF RingInv, Init, WriterLocal, ChunkInOrder, ReaderLocal

\* Every step of the game thread's ring_write keeps the invariant.
LEMMA WriteStartInv == RingInv /\ WriteStart => RingInv'
  <1> SUFFICES ASSUME RingInv, WriteStart PROVE RingInv'
    OBVIOUS
  <1>1. PICK n \in 1 .. MaxLen : 
          /\ wpc = "idle" /\ Clip(n, Writable) # 0
          /\ wlen' = Clip(n, Writable) /\ wat' = ring_head % RingSize
          /\ wdone' = 0 /\ wpc' = "copy"
          /\ UNCHANGED <<ring, counters, wreg, reader, stream>>
    BY DEF WriteStart
  <1>2. UNCHANGED <<ring, ring_head, ring_tail, wreg, rpc, rat, rlen, rbuf, sent, recvd, heard>>
    BY <1>1 DEF counters, reader, stream
  <1>3. Pending \in 0 .. RingSize /\ Pending' = Pending /\ Writable = RingSize - Pending
    BY <1>2, ReadableIsPending DEF RingInv, CountersAgree, Pending
  <1>4. wlen' \in 1 .. RingSize - Pending
    BY <1>1, <1>3, RingAssumption DEF Clip
  <1>5. wat' \in Slots
    BY <1>1, MaskedSlot DEF RingInv, TypeOK
  <1>6. TypeOK'
    BY <1>1, <1>2, <1>3, <1>4, <1>5, WordFacts DEF RingInv, TypeOK
  <1>7. CountersAgree'
    BY <1>2, <1>3 DEF RingInv, CountersAgree
  <1>8. SlotsHold'
    <2>1. FilledByWriter = 0 /\ FilledByWriter' = 0
      BY <1>1 DEF FilledByWriter
    <2> QED BY <1>2, <1>3, <2>1 DEF RingInv, SlotsHold
  <1>9. WriterLocal'
    BY <1>1, <1>2, <1>3, <1>4 DEF WriterLocal
  <1>10. ChunkInOrder' /\ ReaderLocal'
    BY <1>2, <1>3 DEF RingInv, ChunkInOrder, ReaderLocal
  <1> QED BY <1>6, <1>7, <1>8, <1>9, <1>10 DEF RingInv

\* The byte copied is the one the stream has next.
LEMMA WriteCopyInv == RingInv /\ WriteCopy => RingInv'
  <1> SUFFICES ASSUME RingInv, WriteCopy PROVE RingInv'
    OBVIOUS
  <1>1. /\ wpc = "copy" /\ wdone < wlen
        /\ ring' = [ring EXCEPT ![Slot(wat, wdone)] = sent + wdone]
        /\ wdone' = wdone + 1
        /\ UNCHANGED <<ring_head, ring_tail, wpc, wat, wlen, wreg, rpc, rat, rlen, rbuf, sent, recvd, heard>>
    BY DEF WriteCopy, counters, reader, stream
  <1>2. /\ Pending \in 0 .. RingSize /\ Pending' = Pending
        /\ sent \in Nat /\ recvd \in Nat /\ sent = recvd + Pending
        /\ wdone \in Nat /\ wlen \in Nat /\ wlen <= RingSize - Pending /\ wat = ring_head % RingSize
    BY <1>1 DEF RingInv, TypeOK, CountersAgree, WriterLocal, Pending
  <1>3. Slot(wat, wdone) = Slot(ring_tail % RingSize, Pending + wdone)
    BY <1>1, <1>2, WordFacts, WriteSlot DEF RingInv
  <1>4. ring_tail % RingSize \in Slots
    BY MaskedSlot DEF RingInv, TypeOK
  <1>5. Pending + wdone \in Slots
    BY <1>1, <1>2, WordFacts DEF Slots
  <1>6. Slot(wat, wdone) \in Slots
    BY <1>3, <1>4, <1>5, SlotInjective
  <1>7. TypeOK'
    BY <1>1, <1>2, <1>6 DEF RingInv, TypeOK, Byte
  <1>8. CountersAgree'
    BY <1>1, <1>2 DEF RingInv, CountersAgree
  <1>9. SlotsHold'
    <2> SUFFICES ASSUME NEW k \in 0 .. Pending + wdone
                 PROVE  ring'[Slot(ring_tail % RingSize, k)] = recvd + k
      BY <1>1, <1>2 DEF SlotsHold, FilledByWriter
    <2>1. k \in Slots
      BY <1>2, <1>5, WordFacts DEF Slots
    <2>2. Slot(ring_tail % RingSize, k) \in Slots
      BY <1>4, <2>1, SlotInjective
    <2>3. CASE k = Pending + wdone
      BY <1>1, <1>2, <1>3, <1>6, <2>3 DEF RingInv, TypeOK
    <2>4. CASE k # Pending + wdone
      <3>1. Slot(ring_tail % RingSize, k) # Slot(wat, wdone)
        BY <1>3, <1>4, <1>5, <2>1, <2>4, SlotInjective
      <3>2. ring[Slot(ring_tail % RingSize, k)] = recvd + k
        BY <1>1, <1>2, <2>4 DEF RingInv, SlotsHold, FilledByWriter
      <3> QED BY <1>1, <2>2, <3>1, <3>2 DEF RingInv, TypeOK
    <2> QED BY <2>3, <2>4
  <1>10. WriterLocal'
    BY <1>1, <1>2 DEF RingInv, WriterLocal
  <1>11. ChunkInOrder' /\ ReaderLocal'
    BY <1>1, <1>2 DEF RingInv, ChunkInOrder, ReaderLocal
  <1> QED BY <1>7, <1>8, <1>9, <1>10, <1>11 DEF RingInv

\* The counter is loaded when all bytes are copied.
LEMMA WriteLoadInv == RingInv /\ WriteLoad => RingInv'
  <1> SUFFICES ASSUME RingInv, WriteLoad PROVE RingInv'
    OBVIOUS
  <1>1. /\ wpc = "copy" /\ wdone = wlen /\ wreg' = ring_head /\ wpc' = "store"
        /\ UNCHANGED <<ring, ring_head, ring_tail, wat, wlen, wdone, rpc, rat, rlen, rbuf, sent, recvd, heard>>
    BY DEF WriteLoad, Copied, counters, reader, stream
  <1>2. TypeOK'
    BY <1>1 DEF RingInv, TypeOK
  <1>3. Pending' = Pending /\ FilledByWriter' = FilledByWriter
    BY <1>1 DEF Pending, FilledByWriter
  <1>4. CountersAgree' /\ SlotsHold'
    BY <1>1, <1>3 DEF RingInv, CountersAgree, SlotsHold
  <1>5. WriterLocal'
    BY <1>1, <1>3 DEF RingInv, WriterLocal
  <1>6. ChunkInOrder' /\ ReaderLocal'
    BY <1>1, <1>3 DEF RingInv, ChunkInOrder, ReaderLocal
  <1> QED BY <1>2, <1>4, <1>5, <1>6 DEF RingInv

\* The counter is published.
LEMMA WriteStoreInv == RingInv /\ WriteStore => RingInv'
  <1> SUFFICES ASSUME RingInv, WriteStore PROVE RingInv'
    OBVIOUS
  <1>1. /\ wpc = "store" /\ ring_head' = (wreg + wlen) % Word
        /\ sent' = sent + wlen /\ wpc' = "idle"
        /\ UNCHANGED <<ring, ring_tail, wat, wlen, wdone, wreg, rpc, rat, rlen, rbuf, recvd, heard>>
    BY DEF WriteStore, NextHead, reader
  <1>2. /\ Pending \in Nat /\ Pending \in 0 .. RingSize /\ sent \in Nat /\ recvd \in Nat
        /\ ring_head = (ring_tail + Pending) % Word
        /\ ring_tail \in 0 .. Word - 1
        /\ wlen \in Nat /\ Pending + wlen <= RingSize /\ wdone = wlen /\ wreg = ring_head
    BY <1>1, WordFacts DEF RingInv, TypeOK, CountersAgree, WriterLocal
  <1>3. Pending' = Pending + wlen /\ Pending' \in 0 .. RingSize
    BY <1>1, <1>2, WordFacts DEF Pending
  <1>4. ring_head' = (ring_tail + (Pending + wlen)) % Word
    BY <1>1, <1>2, AdvanceTwice
  <1>5. ring_head' \in 0 .. Word - 1
    BY <1>2, <1>3, <1>4, MaskedAdvance
  <1>6. TypeOK'
    BY <1>1, <1>2, <1>5 DEF RingInv, TypeOK
  <1>7. CountersAgree'
    BY <1>1, <1>3, <1>4 DEF CountersAgree
  <1>8. SlotsHold'
    BY <1>1, <1>2, <1>3 DEF RingInv, SlotsHold, FilledByWriter
  <1>9. WriterLocal'
    BY <1>1 DEF WriterLocal
  <1>10. ChunkInOrder' /\ ReaderLocal'
    <2>1. RingSize \in Nat /\ rlen \in Nat
      BY WordFacts DEF RingInv, TypeOK
    <2> QED BY <1>1, <1>2, <1>3, <2>1 DEF RingInv, ChunkInOrder, ReaderLocal
  <1> QED BY <1>6, <1>7, <1>8, <1>9, <1>10 DEF RingInv

\* Every step of the audio thread's ring_read keeps the invariant.
LEMMA ReadStartInv == RingInv /\ ReadStart => RingInv'
  <1> SUFFICES ASSUME RingInv, ReadStart PROVE RingInv'
    OBVIOUS
  <1>1. PICK n \in 1 .. MaxLen :
          /\ rpc = "idle" /\ Readable # 0
          /\ rlen' = Clip(n, Readable) /\ rat' = ring_tail % RingSize
          /\ rbuf' = << >> /\ rpc' = "copy"
          /\ UNCHANGED <<ring, counters, writer, stream>>
    BY DEF ReadStart, ReadLen
  <1>2. UNCHANGED <<ring, ring_head, ring_tail, wpc, wat, wlen, wdone, wreg, sent, recvd, heard>>
    BY <1>1 DEF counters, writer, stream
  <1>3. Pending \in 0 .. RingSize /\ Pending' = Pending /\ Readable = Pending
    BY <1>2, ReadableIsPending DEF RingInv, CountersAgree, Pending
  <1>4. rlen' \in 1 .. Pending
    BY <1>1, <1>3, RingAssumption DEF Clip
  <1>5. rat' \in Slots
    BY <1>1, MaskedSlot DEF RingInv, TypeOK
  <1>6. TypeOK'
    BY <1>1, <1>2, <1>3, <1>4, <1>5, WordFacts DEF RingInv, TypeOK
  <1>7. FilledByWriter' = FilledByWriter
    BY <1>2 DEF FilledByWriter
  <1>8. CountersAgree' /\ SlotsHold' /\ WriterLocal'
    BY <1>2, <1>3, <1>7 DEF RingInv, CountersAgree, SlotsHold, WriterLocal
  <1>9. ChunkInOrder' /\ ReaderLocal'
    BY <1>1, <1>2, <1>3, <1>4 DEF ChunkInOrder, ReaderLocal
  <1> QED BY <1>6, <1>8, <1>9 DEF RingInv

\* The byte heard is the oldest one.
LEMMA ReadCopyInv == RingInv /\ ReadCopy => RingInv'
  <1> SUFFICES ASSUME RingInv, ReadCopy PROVE RingInv'
    OBVIOUS
  <1>1. /\ rpc = "copy" /\ Len(rbuf) < rlen
        /\ rbuf' = Append(rbuf, ring[Slot(rat, Len(rbuf))])
        /\ UNCHANGED <<ring, ring_head, ring_tail, wpc, wat, wlen, wdone, wreg, rpc, rat, rlen, sent, recvd, heard>>
    BY DEF ReadCopy, counters, writer, stream
  <1> DEFINE k == Len(rbuf)
  <1>2. /\ k \in Nat /\ rbuf \in Seq(Byte) /\ rlen \in Nat /\ rlen <= Pending
        /\ Pending \in 0 .. RingSize /\ recvd \in Nat
        /\ rat = ring_tail % RingSize /\ rat \in Slots
    BY <1>1, MaskedSlot DEF RingInv, TypeOK, CountersAgree, ReaderLocal
  <1>3. k \in Slots /\ k \in 0 .. Pending + FilledByWriter - 1
    <2>1. FilledByWriter \in Nat
      BY DEF FilledByWriter, RingInv, TypeOK
    <2> QED BY <1>1, <1>2, <2>1, WordFacts DEF Slots
  <1>4. ring[Slot(rat, k)] = recvd + k
    BY <1>2, <1>3 DEF RingInv, SlotsHold
  <1>5. recvd + k \in Byte
    BY <1>2 DEF Byte
  <1>6. rbuf' = Append(rbuf, recvd + k)
    BY <1>1, <1>4
  <1>7. /\ rbuf' \in Seq(Byte) /\ Len(rbuf') = k + 1
        /\ \A i \in 1 .. k + 1 : rbuf'[i] = IF i = k + 1 THEN recvd + k ELSE rbuf[i]
    BY <1>2, <1>5, <1>6
  <1>8. TypeOK'
    BY <1>1, <1>7 DEF RingInv, TypeOK
  <1>9. Pending' = Pending /\ FilledByWriter' = FilledByWriter
    BY <1>1 DEF Pending, FilledByWriter
  <1>10. CountersAgree' /\ SlotsHold' /\ WriterLocal'
    BY <1>1, <1>9 DEF RingInv, CountersAgree, SlotsHold, WriterLocal
  <1>11. ChunkInOrder'
    BY <1>1, <1>2, <1>7 DEF RingInv, ChunkInOrder
  <1>12. ReaderLocal'
    BY <1>1, <1>2, <1>7, <1>9 DEF RingInv, ReaderLocal
  <1> QED BY <1>8, <1>10, <1>11, <1>12 DEF RingInv

\* The slots read are free again.
LEMMA ReadStoreInv == RingInv /\ ReadStore => RingInv'
  <1> SUFFICES ASSUME RingInv, ReadStore PROVE RingInv'
    OBVIOUS
  <1>1. /\ rpc = "copy" /\ Len(rbuf) = rlen
        /\ ring_tail' = (ring_tail + rlen) % Word
        /\ recvd' = recvd + rlen /\ heard' = rbuf /\ rpc' = "idle"
        /\ UNCHANGED <<ring, ring_head, wpc, wat, wlen, wdone, wreg, rat, rlen, rbuf, sent>>
    BY DEF ReadStore, writer
  <1> DEFINE left == Pending - rlen
             at == ring_tail % RingSize
  <1>2. /\ Pending \in 0 .. RingSize /\ Pending \in Nat /\ sent \in Nat /\ recvd \in Nat
        /\ ring_head = (ring_tail + Pending) % Word
        /\ ring_tail \in 0 .. Word - 1
        /\ rlen \in Nat /\ rlen \in 0 .. RingSize /\ rlen <= Pending
        /\ left \in Nat /\ rlen + left = Pending /\ at \in Slots
    BY <1>1, WordFacts, MaskedSlot DEF RingInv, TypeOK, CountersAgree, ReaderLocal
  <1>3. Pending' = left /\ FilledByWriter' = FilledByWriter
    BY <1>1, <1>2 DEF Pending, FilledByWriter
  <1>4. FilledByWriter \in Nat /\ Pending + FilledByWriter <= RingSize
    <2>1. wdone \in Nat /\ wlen \in Nat /\ RingSize \in Nat
      BY WordFacts DEF RingInv, TypeOK
    <2> QED BY <1>2, <2>1 DEF RingInv, FilledByWriter, WriterLocal
  <1> HIDE DEF left, at
  <1>5. ring_tail' \in 0 .. Word - 1 /\ ring_tail' % RingSize = Slot(at, rlen)
    BY <1>1, <1>2, MaskedAdvance DEF at
  <1>6. TypeOK'
    BY <1>1, <1>2, <1>5 DEF RingInv, TypeOK
  <1>7. CountersAgree'
    <2>0. rlen + left <= RingSize
      BY <1>2, WordFacts
    <2>1. (((ring_tail + rlen) % Word) + left) % Word = (ring_tail + (rlen + left)) % Word
      BY <1>2, <2>0, AdvanceTwice
    <2>2. left \in 0 .. RingSize
      BY <1>2, WordFacts
    <2> QED BY <1>1, <1>2, <1>3, <2>1, <2>2 DEF CountersAgree
  <1>8. SlotsHold'
    <2> SUFFICES ASSUME NEW k \in 0 .. left + FilledByWriter - 1
                 PROVE  ring[Slot(ring_tail' % RingSize, k)] = recvd' + k
      BY <1>1, <1>3 DEF SlotsHold
    <2>1. k \in Nat /\ rlen + k \in 0 .. Pending + FilledByWriter - 1 /\ rlen + k <= RingSize
      BY <1>2, <1>4, WordFacts
    <2>2. Slot(ring_tail' % RingSize, k) = Slot(at, rlen + k)
      BY <1>2, <1>5, <2>1, SlotShift
    <2>3. ring[Slot(at, rlen + k)] = recvd + (rlen + k)
      BY <2>1 DEF RingInv, SlotsHold, at
    <2> QED BY <1>1, <1>2, <2>1, <2>2, <2>3
  <1>9. WriterLocal'
    <2>1. wlen \in Nat /\ RingSize \in Nat
      BY WordFacts DEF RingInv, TypeOK
    <2> QED BY <1>1, <1>2, <1>3, <2>1 DEF RingInv, WriterLocal
  <1>10. ChunkInOrder' /\ ReaderLocal'
    BY <1>1 DEF ChunkInOrder, ReaderLocal
  <1> QED BY <1>6, <1>7, <1>8, <1>9, <1>10 DEF RingInv

\* A flush that waits for the writer keeps the invariant: nothing is pending.
LEMMA FlushInv == RingInv /\ CrossThreadFlush = FALSE /\ Flush => RingInv'
  <1> SUFFICES ASSUME RingInv, CrossThreadFlush = FALSE, Flush PROVE RingInv'
    OBVIOUS
  <1>1. /\ rpc = "idle" /\ wpc = "idle"
        /\ ring_head' = 0 /\ ring_tail' = 0 /\ recvd' = sent
        /\ UNCHANGED <<ring, wpc, wat, wlen, wdone, wreg, rpc, rat, rlen, rbuf, sent, heard>>
    BY DEF Flush, writer, reader
  <1>2. 0 \in 0 .. Word - 1 /\ 0 % Word = 0 /\ 0 + 0 = 0 /\ 0 \in 0 .. RingSize
    BY WordFacts, SmallMod
  <1>3. Pending' = 0 /\ FilledByWriter' = 0
    BY <1>1 DEF Pending, FilledByWriter, RingInv, TypeOK
  <1>4. TypeOK'
    BY <1>1, <1>2 DEF RingInv, TypeOK
  <1>5. CountersAgree'
    BY <1>1, <1>2, <1>3 DEF CountersAgree
  <1>6. SlotsHold'
    BY <1>3 DEF SlotsHold
  <1>7. WriterLocal' /\ ChunkInOrder' /\ ReaderLocal'
    BY <1>1 DEF WriterLocal, ChunkInOrder, ReaderLocal
  <1> QED BY <1>4, <1>5, <1>6, <1>7 DEF RingInv

\* Every step of the ring.
LEMMA NextInv == RingInv /\ CrossThreadFlush = FALSE /\ [Next]_vars => RingInv'
  <1> SUFFICES ASSUME RingInv, CrossThreadFlush = FALSE, [Next]_vars PROVE RingInv'
    OBVIOUS
  <1>1. CASE UNCHANGED vars
    <2>1. UNCHANGED <<ring, ring_head, ring_tail, wpc, wat, wlen, wdone, wreg,
                      rpc, rat, rlen, rbuf, sent, recvd, heard>>
      BY <1>1 DEF vars, counters, writer, reader, stream
    <2>2. Pending' = Pending /\ FilledByWriter' = FilledByWriter
      BY <2>1 DEF Pending, FilledByWriter
    <2>3. TypeOK' /\ CountersAgree' /\ SlotsHold'
      BY <2>1, <2>2 DEF RingInv, TypeOK, CountersAgree, SlotsHold
    <2>4. WriterLocal' /\ ChunkInOrder' /\ ReaderLocal'
      BY <2>1, <2>2 DEF RingInv, WriterLocal, ChunkInOrder, ReaderLocal
    <2> QED BY <2>3, <2>4 DEF RingInv
  <1> QED BY <1>1, WriteStartInv, WriteCopyInv, WriteLoadInv, WriteStoreInv,
             ReadStartInv, ReadCopyInv, ReadStoreInv, FlushInv DEF Next

-----------------------------------------------------------------------------
(* The theorems.                                                             *)

\* The ring invariant holds in every reachable state, for every ring size,
\* every word of at least two rings and all request lengths.
THEOREM RingCorrect == CrossThreadFlush = FALSE => (Spec => []RingInv)
  <1> SUFFICES ASSUME CrossThreadFlush = FALSE PROVE Spec => []RingInv
    OBVIOUS
  <1>1. RingInv /\ [Next]_vars => RingInv'
    BY NextInv
  <1> QED BY InitInv, <1>1, PTL DEF Spec

\* The types of the ring's state are kept.
THEOREM TypeCorrect == CrossThreadFlush = FALSE => (Spec => []TypeOK)
  <1> SUFFICES ASSUME CrossThreadFlush = FALSE PROVE Spec => []TypeOK
    OBVIOUS
  <1>1. RingInv => TypeOK
    BY DEF RingInv
  <1> QED BY RingCorrect, <1>1, PTL

\* The mixer is always copying the oldest unheard bytes, in order.
THEOREM HeardInOrder == CrossThreadFlush = FALSE => (Spec => []ChunkInOrder)
  <1> SUFFICES ASSUME CrossThreadFlush = FALSE PROVE Spec => []ChunkInOrder
    OBVIOUS
  <1>1. RingInv => ChunkInOrder
    BY DEF RingInv
  <1> QED BY RingCorrect, <1>1, PTL

\* The game thread never writes a slot the audio thread has still to read.
THEOREM UnreadSlotsAreSafe == CrossThreadFlush = FALSE => (Spec => []WriterKeepsOffUnread)
  <1> SUFFICES ASSUME CrossThreadFlush = FALSE PROVE Spec => []WriterKeepsOffUnread
    OBVIOUS
  <1>1. RingInv => WriterKeepsOffUnread
    <2> SUFFICES ASSUME RingInv, wpc = "copy", wdone < wlen, NEW k \in 0 .. Pending - 1
                 PROVE  Slot(ring_tail % RingSize, k) # Slot(wat, wdone)
      BY DEF WriterKeepsOffUnread
    <2>1. /\ Pending \in 0 .. RingSize /\ wdone \in Nat /\ wlen \in Nat
          /\ wlen <= RingSize - Pending /\ wat = ring_head % RingSize
          /\ ring_tail % RingSize \in Slots
      BY MaskedSlot DEF RingInv, TypeOK, CountersAgree, WriterLocal
    <2>2. Slot(wat, wdone) = Slot(ring_tail % RingSize, Pending + wdone)
      BY <2>1, WordFacts, WriteSlot DEF RingInv
    <2>3. k \in Slots /\ Pending + wdone \in Slots /\ k # Pending + wdone
      BY <2>1, WordFacts DEF Slots
    <2> QED BY <2>1, <2>2, <2>3, SlotInjective
  <1> QED BY RingCorrect, <1>1, PTL

\* The ring implements the bounded byte stream: publishing accepts, the end of
\* a read delivers, a flush discards, and every other step stutters.
THEOREM RingImplementsStream == CrossThreadFlush = FALSE => (Spec => RefinesByteStream)
  <1> SUFFICES ASSUME CrossThreadFlush = FALSE PROVE Spec => Stream!Spec
    BY DEF RefinesByteStream
  <1>1. Init => Stream!Init
    BY DEF Init, Stream!Init
  <1>2. RingInv /\ [Next]_vars => [Stream!Next]_stream
    <2> SUFFICES ASSUME RingInv, [Next]_vars PROVE [Stream!Next]_stream
      OBVIOUS
    <2>1. CASE WriteStore
      <3>1. sent' = sent + wlen /\ recvd' = recvd /\ heard' = heard /\ wpc = "store"
        BY <2>1 DEF WriteStore
      <3>2. wlen \in 1 .. RingSize - (sent - recvd)
        BY <3>1, WordFacts DEF RingInv, TypeOK, CountersAgree, WriterLocal, Pending
      <3>3. Stream!Accept
        BY <3>1, <3>2 DEF Stream!Accept
      <3> QED BY <3>3 DEF Stream!Next
    <2>2. CASE ReadStore
      <3>1. /\ rpc = "copy" /\ Len(rbuf) = rlen
            /\ recvd' = recvd + rlen /\ heard' = rbuf /\ sent' = sent
        BY <2>2 DEF ReadStore
      <3>2. rlen \in 1 .. sent - recvd /\ rlen \in Nat /\ rbuf \in Seq(Byte)
        BY <3>1 DEF RingInv, TypeOK, CountersAgree, ReaderLocal, Pending
      <3>3. rbuf = [i \in 1 .. rlen |-> recvd + i - 1]
        <4>1. \A i \in 1 .. rlen : rbuf[i] = recvd + i - 1
          BY <3>1 DEF RingInv, ChunkInOrder
        <4>2. rbuf = [i \in 1 .. rlen |-> rbuf[i]]
          BY <3>1, <3>2
        <4> QED BY <4>1, <4>2
      <3>4. Stream!Deliver
        BY <3>1, <3>2, <3>3 DEF Stream!Deliver
      <3> QED BY <3>4 DEF Stream!Next
    <2>3. CASE Flush
      BY <2>3 DEF Flush, Stream!Discard, Stream!Next
    <2>4. CASE WriteStart \/ WriteCopy \/ WriteLoad \/ ReadStart \/ ReadCopy \/ UNCHANGED vars
      BY <2>4 DEF WriteStart, WriteCopy, WriteLoad, ReadStart, ReadCopy, vars, stream
    <2> QED BY <2>1, <2>2, <2>3, <2>4 DEF Next
  <1> QED BY RingCorrect, <1>1, <1>2, PTL DEF Spec, Stream!Spec, stream

-----------------------------------------------------------------------------
(* BufferLedger: the table of sizes and its indexes.                         *)

\* What the proofs about the ledger need of its constants.
LEMMA LedgerConstants ==
  /\ Cap \in Nat \ {0, 1} /\ IndexWord \in Nat \ {0} /\ Cap < IndexWord
  /\ RingBytes \in Nat \ {0} /\ RingBytes < IndexWord
  /\ MaxSize \in Nat \ {0} /\ MaxRead \in Nat \ {0}
  <1>1. PICK k \in 2 .. IndexWord : IndexWord = Cap * k
    BY LedgerAssumption
  <1>2. Cap \in Nat \ {0, 1} /\ RingBytes \in 1 .. IndexWord - 1
    BY LedgerAssumption
  <1>3. k \in Nat /\ k >= 2 /\ IndexWord \in Int
    <2>1. IndexWord \in Int
      BY <1>1, <1>2
    <2> QED BY <1>1, <2>1
  <1>4. Cap < Cap * k
    BY <1>2, <1>3, Z3
  <1> QED BY <1>1, <1>2, <1>3, <1>4, LedgerAssumption

\* The word of the indexes is a whole number of tables.
LEMMA WordIsTables == \E k \in Nat : IndexWord = Cap * k
  <1>1. PICK k \in 2 .. IndexWord : IndexWord = Cap * k
    BY LedgerAssumption
  <1>2. IndexWord \in Int
    BY LedgerConstants
  <1>3. k \in Nat
    BY <1>1, <1>2
  <1> QED BY <1>1, <1>3

\* Reducing an index to its word in between changes neither what it is in the
\* word nor the entry it names.
LEMMA IndexMod ==
  ASSUME NEW a \in Int, NEW b \in Int
  PROVE  /\ ((a % IndexWord) + b) % IndexWord = (a + b) % IndexWord
         /\ ((a % IndexWord) + b) % Cap = (a + b) % Cap
  <1>1. PICK k \in Nat : IndexWord = Cap * k
    BY WordIsTables
  <1>2. IndexWord \in Nat \ {0} /\ Cap \in Nat \ {0}
    BY LedgerConstants
  <1>3. PICK q \in Int, r \in Int : a = IndexWord * q + r /\ r = a % IndexWord
    <2>1. a \div IndexWord \in Int /\ a % IndexWord \in Int
          /\ a = IndexWord * (a \div IndexWord) + (a % IndexWord)
      BY <1>2, DivMod, Z3
    <2> QED BY <2>1, Zenon
  <1>4. r + b = (a + b) - IndexWord * q
    BY <1>2, <1>3, Z3
  <1>5. ((a + b) - IndexWord * q) % IndexWord = (a + b) % IndexWord
    <2>1. a + b \in Int
      OBVIOUS
    <2> QED BY <1>2, <2>1, SubMultiple, Zenon
  <1>6. IndexWord * q = Cap * (k * q)
    BY <1>1, <1>2, Z3
  <1>7. ((a + b) - Cap * (k * q)) % Cap = (a + b) % Cap
    <2>1. a + b \in Int /\ k * q \in Int
      BY <1>1, Z3
    <2> QED BY <1>2, <2>1, SubMultiple, Zenon
  <1> QED BY <1>3, <1>4, <1>5, <1>6, <1>7, Zenon

\* The entry of the i-th oldest buffer.
Place(i) == (queued_head_index + i - 1) % Cap

\* The places of the buffers in the table are distinct.
LEMMA PlaceFacts ==
  ASSUME queued_head_index \in 0 .. IndexWord - 1
  PROVE  /\ \A i \in Nat : Place(i) \in Entries
         /\ \A i, j \in 1 .. Cap : Place(i) = Place(j) => i = j
         /\ Oldest = Place(1)
  <1>1. queued_head_index \in Nat /\ Cap \in Nat \ {0}
    BY LedgerConstants
  <1>2. ASSUME NEW i \in Nat PROVE Place(i) \in Entries
    <2>1. queued_head_index + i - 1 \in Int
      BY <1>1
    <2> QED BY <1>1, <2>1, DivMod DEF Place, Entries
  <1> DEFINE h == queued_head_index % Cap
  <1>3. h \in 0 .. Cap - 1
    BY <1>1, DivMod
  <1>4. ASSUME NEW i \in 1 .. Cap
        PROVE  Place(i) = IF h + (i - 1) < Cap THEN h + (i - 1) ELSE h + (i - 1) - Cap
    <2>1. i - 1 \in 0 .. Cap /\ queued_head_index + i - 1 = queued_head_index + (i - 1)
      BY <1>1
    <2>2. (queued_head_index + (i - 1)) % Cap = IF h + (i - 1) < Cap THEN h + (i - 1) ELSE h + (i - 1) - Cap
      <3>1. queued_head_index \in Int
        BY <1>1
      <3> QED BY <1>1, <2>1, <3>1, AddMod, Zenon
    <2> QED BY <2>1, <2>2 DEF Place
  <1> HIDE DEF h
  <1>5. ASSUME NEW i \in 1 .. Cap, NEW j \in 1 .. Cap, Place(i) = Place(j) PROVE i = j
    BY <1>1, <1>3, <1>4, <1>5
  <1>6. Oldest = Place(1)
    <2>1. queued_head_index + 1 - 1 = queued_head_index
      BY <1>1
    <2> QED BY <2>1 DEF Oldest, Place
  <1> QED BY <1>2, <1>5, <1>6

\* An interval from one has one end.
LEMMA SameLength ==
  ASSUME NEW m \in Nat, NEW n \in Nat, 1 .. m = 1 .. n
  PROVE  m = n
  <1>1. m \in 1 .. m \/ m = 0
    OBVIOUS
  <1>2. n \in 1 .. n \/ n = 0
    OBVIOUS
  <1> QED BY <1>1, <1>2

\* A list of buffers is a sequence no longer than the table.
LEMMA ListFacts ==
  ASSUME NEW list
  PROVE  list \in Lists <=> list \in Seq(1 .. RingBytes) /\ Len(list) <= Cap
  <1>1. Cap \in Nat
    BY LedgerConstants
  <1>2. list \in Lists <=> \E n \in 0 .. Cap : list \in [1 .. n -> 1 .. RingBytes]
    BY DEF Lists
  <1>3. ASSUME NEW n \in 0 .. Cap, list \in [1 .. n -> 1 .. RingBytes]
        PROVE  list \in Seq(1 .. RingBytes) /\ Len(list) <= Cap
    <2>0. n \in Nat
      BY <1>1, <1>3
    <2>1. list \in Seq(1 .. RingBytes)
      <3>1. list \in UNION {[1 .. k -> 1 .. RingBytes] : k \in Nat}
        BY <1>3, <2>0, Zenon
      <3> QED BY <3>1, SeqDef, Zenon
    <2>2. Len(list) = n
      <3>1. DOMAIN list = 1 .. Len(list) /\ Len(list) \in Nat
        BY <2>1, LenProperties, Zenon
      <3>2. DOMAIN list = 1 .. n
        BY <1>3, Zenon
      <3> QED BY <2>0, <3>1, <3>2, SameLength, Zenon
    <2> QED BY <1>1, <2>1, <2>2
  <1>4. ASSUME list \in Seq(1 .. RingBytes), Len(list) <= Cap
        PROVE  \E n \in 0 .. Cap : list \in [1 .. n -> 1 .. RingBytes]
    <2>1. Len(list) \in 0 .. Cap /\ list \in [1 .. Len(list) -> 1 .. RingBytes]
      <3>1. list \in [1 .. Len(list) -> 1 .. RingBytes] /\ Len(list) \in Nat
        BY <1>4, LenProperties, Zenon
      <3>2. Len(list) \in 0 .. Cap
        BY <1>1, <1>4, <3>1
      <3> QED BY <3>1, <3>2, Zenon
    <2> QED BY <2>1, Zenon
  <1> QED BY <1>2, <1>3, <1>4

\* A list in the order of its ends.
Ordered(list) == \A i, j \in 1 .. Len(list) : i < j => list[i] < list[j]

\* What the history makes of a buffer that ends behind all others.
LEMMA TakenInFacts ==
  ASSUME NEW list \in Lists, Ordered(list), NEW end \in 1 .. RingBytes, End(list) < end
  PROVE  LET new == TakenIn(list, end)
             last == IF Len(list) >= Cap THEN Len(list) ELSE Len(list) + 1
         IN /\ new \in Lists /\ Len(new) = last /\ new # << >>
            /\ new[last] = end /\ End(new) = end
            /\ \A i \in 1 .. last - 1 : i \in 1 .. Len(list) /\ new[i] = list[i]
            /\ Ordered(new)
  <1> DEFINE new == TakenIn(list, end)
             last == IF Len(list) >= Cap THEN Len(list) ELSE Len(list) + 1
  <1>1. list \in Seq(1 .. RingBytes) /\ Len(list) <= Cap /\ Len(list) \in Nat /\ Cap \in Nat \ {0, 1}
        /\ \A i \in 1 .. Len(list) : list[i] \in 1 .. RingBytes
    BY ListFacts, LedgerConstants
  <1>2. /\ new \in Seq(1 .. RingBytes) /\ Len(new) = last /\ last \in 1 .. Cap
        /\ new[last] = end
        /\ \A i \in 1 .. last - 1 : i \in 1 .. Len(list) /\ new[i] = list[i]
    <2>1. CASE Len(list) >= Cap
      <3>1. new = [list EXCEPT ![Len(list)] = end] /\ last = Len(list) /\ Len(list) = Cap
        BY <1>1, <2>1 DEF TakenIn
      <3> QED BY <1>1, <3>1
    <2>2. CASE ~(Len(list) >= Cap)
      <3>1. new = Append(list, end) /\ last = Len(list) + 1
        BY <2>2 DEF TakenIn
      <3> QED BY <1>1, <2>2, <3>1
    <2> QED BY <2>1, <2>2
  <1> HIDE DEF new, last
  <1>3. new # << >> /\ End(new) = end
    BY <1>2 DEF End
  <1>4. new \in Lists
    BY <1>1, <1>2, ListFacts
  <1>5. \A i \in 1 .. Len(list) : list[i] <= End(list)
    <2> TAKE i \in 1 .. Len(list)
    <2>1. End(list) = list[Len(list)] /\ Len(list) \in 1 .. Len(list)
      BY <1>1 DEF End
    <2>2. i = Len(list) \/ i < Len(list)
      BY <1>1
    <2> QED BY <1>1, <2>1, <2>2 DEF Ordered
  <1>6. Ordered(new)
    <2> SUFFICES ASSUME NEW i \in 1 .. Len(new), NEW j \in 1 .. Len(new), i < j
                 PROVE  new[i] < new[j]
      BY DEF Ordered
    <2>1. i \in 1 .. last - 1 /\ i \in 1 .. Len(list) /\ new[i] = list[i]
      BY <1>2
    <2>2. CASE j = last
      <3>1. list[i] \in Int /\ list[i] <= End(list) /\ End(list) \in Int
        <4>1. End(list) = list[Len(list)] /\ Len(list) \in 1 .. Len(list)
          BY <1>1, <2>1 DEF End
        <4> QED BY <1>1, <1>5, <2>1, <4>1
      <3> QED BY <1>2, <2>1, <2>2, <3>1
    <2>3. CASE j # last
      <3>1. j \in 1 .. last - 1 /\ j \in 1 .. Len(list) /\ new[j] = list[j]
        BY <1>2, <2>3
      <3> QED BY <2>1, <3>1 DEF Ordered
    <2> QED BY <2>2, <2>3
  <1> QED BY <1>2, <1>3, <1>4, <1>6 DEF new, last

\* What is in a list of buffers and where it ends.
LEMMA Listed ==
  ASSUME NEW list \in Lists
  PROVE  /\ list \in Seq(1 .. RingBytes) /\ Len(list) \in 0 .. Cap /\ Len(list) \in Nat
         /\ \A i \in 1 .. Len(list) : list[i] \in 1 .. RingBytes
         /\ list = << >> <=> Len(list) = 0
         /\ End(list) = IF Len(list) = 0 THEN 0 ELSE list[Len(list)]
         /\ End(list) \in 0 .. RingBytes
  <1>1. list \in Seq(1 .. RingBytes) /\ Len(list) <= Cap /\ Len(list) \in Nat /\ Cap \in Nat
    BY ListFacts, LedgerConstants
  <1>2. \A i \in 1 .. Len(list) : list[i] \in 1 .. RingBytes
    BY <1>1, ElementOfSeq
  <1>3. list = << >> <=> Len(list) = 0
    BY <1>1, EmptySeq
  <1>4. End(list) = IF Len(list) = 0 THEN 0 ELSE list[Len(list)]
    BY <1>3 DEF End
  <1>5. End(list) \in 0 .. RingBytes
    <2>1. CASE Len(list) = 0
      BY <1>4, <2>1, LedgerConstants
    <2>2. CASE Len(list) # 0
      <3>1. Len(list) \in 1 .. Len(list)
        BY <1>1, <2>2
      <3> QED BY <1>2, <1>4, <2>2, <3>1
    <2> QED BY <2>1, <2>2
  <1> QED BY <1>1, <1>2, <1>3, <1>4, <1>5

\* A function from an interval is a list.
LEMMA ListBuilt ==
  ASSUME NEW n \in 0 .. Cap, NEW f \in [1 .. n -> 1 .. RingBytes]
  PROVE  f \in Lists /\ Len(f) = n
  <1>1. n \in Nat
    BY LedgerConstants
  <1>2. f \in Lists
    BY Zenon DEF Lists
  <1>3. f \in Seq(1 .. RingBytes)
    BY <1>2, ListFacts
  <1>4. DOMAIN f = 1 .. Len(f) /\ Len(f) \in Nat
    BY <1>3, LenProperties, Zenon
  <1>5. DOMAIN f = 1 .. n
    BY Zenon
  <1> QED BY <1>1, <1>2, <1>4, <1>5, SameLength, Zenon

\* A set of numbers has a least one.
LEMMA LeastOf ==
  ASSUME NEW T \in SUBSET Nat, T # {}
  PROVE  \E x \in T : \A y \in T : x <= y
  <1> DEFINE R == OpToRel(<, Nat)
  <1>1. IsWellFoundedOn(R, Nat)
    BY NatLessThanWellFounded, Zenon
  <1>2. \A x, y \in Nat : x < y => <<x, y>> \in R
    BY DEF OpToRel
  <1> HIDE DEF R
  <1>3. \E x \in T : \A y \in T : ~ (<<y, x>> \in R)
    BY <1>1, WFMin
  <1>4. PICK x \in T : \A y \in T : ~ (<<y, x>> \in R)
    BY <1>3
  <1>5. \A y \in T : ~ (y < x)
    BY <1>2, <1>4
  <1> QED BY <1>5

\* The buffers that end within n bytes are the first ones.
LEMMA FinishedFirst ==
  ASSUME due \in Lists, Ordered(due), NEW n \in Nat
  PROVE  LET gone == Finished(n) IN
           /\ gone \in 0 .. Len(due)
           /\ \A i \in 1 .. gone : due[i] <= n
           /\ \A i \in 1 .. Len(due) : i > gone => due[i] > n
  <1> DEFINE S == {i \in 1 .. Len(due) : due[i] <= n}
             T == {k \in Nat : k + 1 \notin S}
  <1>1. Len(due) \in Nat /\ \A i \in 1 .. Len(due) : due[i] \in Nat
    BY Listed
  <1>2. Len(due) \in T
    BY <1>1
  <1>3. PICK g \in T : \A y \in T : g <= y
    BY <1>2, LeastOf
  <1>4. g \in Nat /\ g + 1 \notin S /\ g <= Len(due)
    BY <1>1, <1>2, <1>3
  <1>5. \A i \in 1 .. g : i \in S
    <2> SUFFICES ASSUME NEW i \in 1 .. g, i \notin S PROVE FALSE
      OBVIOUS
    <2>1. i - 1 \in Nat /\ (i - 1) + 1 = i
      BY <1>4
    <2>2. i - 1 \in T
      BY <2>1
    <2> QED BY <1>3, <1>4, <2>1, <2>2
  <1>6. \A i \in 1 .. Len(due) : i > g => due[i] > n
    <2> SUFFICES ASSUME NEW i \in 1 .. Len(due), i > g, due[i] <= n PROVE FALSE
      BY <1>1
    <2>1. g + 1 \in 1 .. Len(due) /\ due[g + 1] > n
      BY <1>1, <1>4
    <2>2. i = g + 1 \/ g + 1 < i
      BY <1>4
    <2>3. due[g + 1] <= due[i]
      BY <1>1, <2>1, <2>2 DEF Ordered
    <2> QED BY <1>1, <2>1, <2>3
  <1>7. S = 1 .. g
    <2>1. ASSUME NEW i PROVE i \in S <=> i \in 1 .. g
      <3>1. i \in S => i \in 1 .. g
        BY <1>1, <1>4, <1>6
      <3> QED BY <1>5, <3>1
    <2> QED BY <2>1
  <1> HIDE DEF S, T
  <1>8. Finished(n) = g
    <2>1. Cardinality(1 .. g) = IF 1 > g THEN 0 ELSE g - 1 + 1
      BY <1>4, FS_Interval
    <2>2. Finished(n) = Cardinality(S)
      BY Zenon DEF Finished, S
    <2> QED BY <1>4, <1>7, <2>1, <2>2
  <1>9. g \in 0 .. Len(due)
    BY <1>1, <1>4
  <1> QED BY <1>5, <1>6, <1>8, <1>9, Zenon DEF S

-----------------------------------------------------------------------------
(* The inductive invariant.                                                  *)

\* LedgerInv without LedgerExact, which follows.
LedgerIInv == LedgerTypeOK /\ DueInOrder /\ Registers /\ TableKnown

\* The table has `list', whatever the two threads are at.
Known(list) ==
  /\ Tables(list, IF apc = "count" THEN 0 ELSE queued_front_offset)
  /\ Quiet => list = due /\ queued_count = Len(list)
  /\ ppc \in {"push", "merge"} =>
       /\ queued_count = Len(list) /\ readable = End(list) + psize
       /\ due = TakenIn(list, readable)
  /\ ppc = "merge" => queued_count = Cap /\ preg = queued_sizes[Newest]
  /\ ppc = "count" => list = due /\ queued_count = Len(list) - 1 /\ preg = queued_count
  /\ apc = "consume" => queued_count = Len(list) /\ Leaves(list, abytes, due)
  /\ apc = "count" =>
       queued_count = Len(list) + 1 /\ areg = queued_count /\ Leaves(list, abytes, due)

\* TableKnown names such a list.
LEMMA TableKnownIs == TableKnown <=> (~raced => \E list \in Lists : Known(list))
  BY DEF TableKnown, Known

\* A list for the next state.
LEMMA KnownNext ==
  ASSUME NEW list \in Lists, Known(list)'
  PROVE  TableKnown'
  BY DEF TableKnown, Known

\* Nothing is said of a raced ledger.
LEMMA RacedNext == raced' => TableKnown'
  BY DEF TableKnown

\* The history is such a list.
LEMMA DueIsListed ==
  ASSUME LedgerTypeOK, DueInOrder
  PROVE  due \in Lists /\ Ordered(due) /\ End(due) = readable
  BY ListFacts DEF LedgerTypeOK, DueInOrder, Ordered

\* The empty ledger.
LEMMA LedgerInitInv == LedgerInit => LedgerIInv
  <1> SUFFICES ASSUME LedgerInit PROVE LedgerIInv
    OBVIOUS
  <1>1. due \in Seq(1 .. RingBytes) /\ Len(due) = 0
    BY EmptySeq DEF LedgerInit
  <1>2. due \in Lists
    <2>1. Len(due) <= Cap
      BY <1>1, LedgerConstants
    <2> QED BY <1>1, <2>1, ListFacts, Zenon
  <1>3. LedgerTypeOK
    <2>1. queued_sizes \in [Entries -> 0 .. IndexWord - 1]
      BY LedgerConstants DEF LedgerInit
    <2>2. /\ 0 \in 0 .. IndexWord - 1 /\ 0 \in 0 .. Cap /\ 0 \in 0 .. RingBytes
          /\ 0 \in 0 .. MaxSize /\ 0 \in 0 .. MaxRead /\ 0 <= RingBytes
      BY LedgerConstants
    <2>3. FALSE \in BOOLEAN
      OBVIOUS
    <2> QED BY <1>1, <2>1, <2>2, <2>3, Zenon DEF LedgerInit, LedgerTypeOK
  <1>4. DueInOrder /\ Registers
    BY <1>1, LedgerConstants DEF LedgerInit, DueInOrder, Registers, End
  <1>5. Known(due)
    <2>1. (queued_head_index + Len(due)) % IndexWord = 0
      BY <1>1, SmallMod, LedgerConstants DEF LedgerInit
    <2> QED BY <1>1, <2>1 DEF Known, Tables, Quiet, LedgerInit
  <1> QED BY <1>2, <1>3, <1>4, <1>5, TableKnownIs DEF LedgerIInv

-----------------------------------------------------------------------------
(* Enqueue.                                                                  *)

\* A buffer that fits, between calls.
LEMMA PublishInv == ASSUME LedgerIInv, Publish PROVE LedgerIInv'
  <1>1. LedgerTypeOK /\ DueInOrder /\ Registers /\ TableKnown
    BY DEF LedgerIInv
  <1>2. PICK n \in 1 .. MaxSize :
          /\ ppc = "idle" /\ Fitting(n, RingBytes - readable) # 0
          /\ psize' = Fitting(n, RingBytes - readable)
          /\ readable' = readable + psize'
          /\ due' = TakenIn(due, readable')
          /\ raced' = (raced \/ apc # "idle")
          /\ ppc' = "push"
          /\ UNCHANGED <<queued_sizes, queued_head_index, queued_tail_index, queued_count,
                         queued_front_offset, preg, apc, abytes, areg>>
    BY DEF Publish, ledger, mixer
  <1>3. psize' \in 1 .. MaxSize /\ readable' \in 1 .. RingBytes /\ readable < readable'
        /\ readable' = readable + psize' /\ readable \in Nat /\ psize' <= RingBytes
    BY <1>1, <1>2, LedgerConstants DEF Fitting, LedgerTypeOK
  <1>4. due \in Lists /\ Ordered(due) /\ End(due) = readable
    BY <1>1, DueIsListed
  <1>5. due' \in Lists /\ Ordered(due') /\ End(due') = readable'
    <2> DEFINE end == readable'
    <2>1. end \in 1 .. RingBytes /\ End(due) < end /\ due' = TakenIn(due, end)
      BY <1>2, <1>3, <1>4
    <2> HIDE DEF end
    <2>2. TakenIn(due, end) \in Lists /\ Ordered(TakenIn(due, end)) /\ End(TakenIn(due, end)) = end
      BY <1>4, <2>1, TakenInFacts
    <2> QED BY <2>1, <2>2, Zenon DEF end
  <1>6. LedgerTypeOK'
    <2>1. raced' \in BOOLEAN
      BY <1>2
    <2>2. due' \in Seq(1 .. RingBytes)
      BY <1>5, Listed
    <2>3. psize' \in 0 .. MaxSize /\ psize' <= RingBytes /\ readable' \in 0 .. RingBytes
      <3>1. \A x, m : x \in 1 .. m => x \in 0 .. m
        OBVIOUS
      <3> QED BY <1>3, <3>1, Zenon
    <2> QED BY <1>1, <1>2, <2>1, <2>2, <2>3 DEF LedgerTypeOK
  <1>7. DueInOrder'
    BY <1>5, Listed, LedgerConstants DEF DueInOrder, Ordered
  <1>8. Registers'
    <2>1. ppc' # "idle" /\ apc' # "idle" => raced'
      BY <1>2, Zenon
    <2>2. ppc' = "push" /\ apc' = apc /\ areg' = areg /\ psize' > 0
      BY <1>2, <1>3
    <2> QED BY <1>1, <2>1, <2>2 DEF Registers
  <1>9. ASSUME ~raced' PROVE TableKnown'
    <2>1. ~raced /\ apc = "idle" /\ apc' = "idle"
      BY <1>2, <1>9
    <2>2. PICK list \in Lists : Known(list)
      BY <1>1, <2>1, TableKnownIs
    <2>3. list = due /\ queued_count = Len(list)
      BY <1>2, <2>1, <2>2 DEF Known, Quiet
    <2>4. Tables(list, queued_front_offset)'
      BY <1>2, <2>1, <2>2 DEF Known, Tables
    <2>5. queued_count' = Len(list) /\ readable' = End(list) + psize' /\ due' = TakenIn(list, readable')
      BY <1>2, <1>3, <1>4, <2>3
    <2>6. Known(list)'
      BY <1>2, <2>1, <2>4, <2>5 DEF Known, Quiet
    <2> QED BY <2>6, KnownNext
  <1> QED BY <1>6, <1>7, <1>8, <1>9, RacedNext DEF LedgerIInv

\* In an Enqueue that no callback overlaps.
LEMMA MergeLoadInv == ASSUME LedgerIInv, MergeLoad PROVE LedgerIInv'
  <1>1. LedgerTypeOK /\ DueInOrder /\ Registers /\ TableKnown
    BY DEF LedgerIInv
  <1>2. /\ ppc = "push" /\ queued_count >= Cap /\ preg' = queued_sizes[Newest] /\ ppc' = "merge"
        /\ UNCHANGED <<queued_sizes, queued_head_index, queued_tail_index, queued_count,
                       queued_front_offset, readable, psize, apc, abytes, areg, due, raced>>
    BY DEF MergeLoad, TableFull, ledger, mixer, history
  <1>3. Newest \in Entries /\ Newest' = Newest
    <2>1. queued_tail_index - 1 \in Int
      BY <1>1, LedgerConstants DEF LedgerTypeOK
    <2> QED BY <1>2, <2>1, DivMod, LedgerConstants DEF Newest, Entries
  <1>4. LedgerTypeOK'
    <2>1. preg' \in 0 .. IndexWord - 1
      BY <1>1, <1>2, <1>3 DEF LedgerTypeOK
    <2> QED BY <1>1, <1>2, <2>1 DEF LedgerTypeOK
  <1>5. DueInOrder' /\ Registers'
    BY <1>1, <1>2 DEF DueInOrder, Registers
  <1>6. ASSUME ~raced' PROVE TableKnown'
    <2>1. ~raced /\ apc = "idle"
      BY <1>1, <1>2, <1>6 DEF Registers, LedgerTypeOK
    <2>2. PICK list \in Lists : Known(list)
      BY <1>1, <2>1, TableKnownIs
    <2>3. Tables(list, queued_front_offset)'
      BY <1>2, <2>1, <2>2 DEF Known, Tables
    <2>4. queued_count = Cap
      BY <1>1, <1>2, LedgerConstants DEF LedgerTypeOK
    <2>5. preg' = queued_sizes'[Newest']
      BY <1>2, <1>3
    <2>6. queued_count' = Len(list) /\ readable' = End(list) + psize' /\ due' = TakenIn(list, readable')
      BY <1>2, <2>2 DEF Known
    <2>7. Known(list)'
      BY <1>2, <2>1, <2>3, <2>4, <2>5, <2>6 DEF Known, Quiet
    <2> QED BY <2>7, KnownNext
  <1> QED BY <1>4, <1>5, <1>6, RacedNext DEF LedgerIInv

\* The newest entry takes the size in.
LEMMA MergeStoreInv == ASSUME LedgerIInv, MergeStore PROVE LedgerIInv'
  <1>1. LedgerTypeOK /\ DueInOrder /\ Registers /\ TableKnown
    BY DEF LedgerIInv
  <1>2. /\ ppc = "merge" /\ ppc' = "idle"
        /\ queued_sizes' = [queued_sizes EXCEPT ![Newest] = (preg + psize) % IndexWord]
        /\ UNCHANGED <<queued_head_index, queued_tail_index, queued_count,
                       queued_front_offset, readable, psize, preg, apc, abytes, areg, due, raced>>
    BY DEF MergeStore, mixer, history
  <1>3. (preg + psize) % IndexWord \in 0 .. IndexWord - 1
    <2>1. preg + psize \in Int
      BY <1>1, LedgerConstants DEF LedgerTypeOK
    <2> QED BY <2>1, DivMod, LedgerConstants
  <1>4. LedgerTypeOK'
    BY <1>1, <1>2, <1>3 DEF LedgerTypeOK
  <1>5. DueInOrder' /\ Registers'
    BY <1>1, <1>2 DEF DueInOrder, Registers
  <1>6. ASSUME ~raced' PROVE TableKnown'
    <2>1. ~raced /\ apc = "idle"
      BY <1>1, <1>2, <1>6 DEF Registers, LedgerTypeOK
    <2>2. PICK list \in Lists : Known(list)
      BY <1>1, <2>1, TableKnownIs
    <2>3. /\ Tables(list, queued_front_offset) /\ queued_count = Len(list) /\ queued_count = Cap
          /\ readable = End(list) + psize /\ due = TakenIn(list, readable) /\ preg = queued_sizes[Newest]
      BY <1>2, <2>1, <2>2 DEF Known
    <2>4. /\ Len(list) = Cap /\ Cap \in Nat \ {0, 1} /\ Ordered(list) /\ End(list) = list[Cap]
          /\ \A i \in 1 .. Cap : list[i] \in 1 .. RingBytes
      BY <2>3, Listed, LedgerConstants DEF Tables, Ordered
    <2>5. due \in Lists
      BY <1>1, DueIsListed
    <2>6. PICK new \in Lists : new = due
      BY <2>5
    <2>7. /\ Len(new) = Cap /\ new[Cap] = readable
          /\ \A i \in 1 .. Cap - 1 : new[i] = list[i]
          /\ readable \in 1 .. RingBytes /\ readable = list[Cap] + psize /\ psize \in Nat \ {0}
      <3>1. psize \in Nat \ {0} /\ readable \in 0 .. RingBytes
        BY <1>1, <1>2, LedgerConstants DEF LedgerTypeOK, Registers
      <3>2. readable = list[Cap] + psize /\ Cap \in 1 .. Cap
        BY <2>3, <2>4
      <3>3. readable \in 1 .. RingBytes /\ End(list) < readable
        BY <2>4, <3>1, <3>2
      <3>4. Len(list) >= Cap
        BY <2>4
      <3>5. /\ Len(TakenIn(list, readable)) = Cap /\ TakenIn(list, readable)[Cap] = readable
            /\ \A i \in 1 .. Cap - 1 : TakenIn(list, readable)[i] = list[i]
        BY <2>4, <3>3, <3>4, TakenInFacts
      <3> QED BY <2>3, <2>6, <3>1, <3>2, <3>3, <3>5
    <2>8. Newest = Place(Cap)
      <3>1. queued_tail_index = (queued_head_index + Cap) % IndexWord
        BY <2>3, <2>4 DEF Tables
      <3>2. queued_head_index + Cap \in Int /\ -1 \in Int
        BY <1>1, <2>4, LedgerConstants DEF LedgerTypeOK
      <3>3. (((queued_head_index + Cap) % IndexWord) + (-1)) % Cap = ((queued_head_index + Cap) + (-1)) % Cap
        BY <3>2, IndexMod
      <3>4. (queued_head_index + Cap) + (-1) = queued_head_index + Cap - 1
        <4>1. queued_head_index \in Int
          BY <1>1, LedgerConstants DEF LedgerTypeOK
        <4> QED BY <2>4, <4>1
      <3>5. queued_tail_index - 1 = queued_tail_index + (-1)
        BY <1>1, LedgerConstants DEF LedgerTypeOK
      <3> QED BY <3>1, <3>3, <3>4, <3>5 DEF Newest, Place
    <2>9. \A i \in 1 .. Cap : Place(i) \in Entries
      BY <1>1, <2>4, PlaceFacts DEF LedgerTypeOK
    <2>10. \A i \in 1 .. Cap - 1 : Place(i) # Place(Cap)
      BY <1>1, <2>4, PlaceFacts DEF LedgerTypeOK
    <2>11. \A i \in 1 .. Cap - 1 : queued_sizes'[Place(i)] = queued_sizes[Place(i)]
      BY <1>1, <1>2, <2>8, <2>9, <2>10 DEF LedgerTypeOK
    <2>12. \A i \in 1 .. Cap : queued_sizes[Place(i)] =
              IF i = 1 THEN list[1] + queued_front_offset ELSE list[i] - list[i - 1]
      BY <2>3, <2>4 DEF Tables, Place
    <2>13. queued_sizes'[Place(Cap)] = new[Cap] - new[Cap - 1]
      <3>1. preg = list[Cap] - list[Cap - 1]
        BY <2>3, <2>4, <2>8, <2>12
      <3>2. list[Cap - 1] \in 1 .. RingBytes /\ list[Cap] \in 1 .. RingBytes /\ list[Cap - 1] < list[Cap]
            /\ new[Cap - 1] = list[Cap - 1]
        BY <2>4, <2>7 DEF Ordered
      <3>3. preg + psize = new[Cap] - new[Cap - 1] /\ preg + psize \in 0 .. IndexWord - 1
        BY <2>7, <3>1, <3>2, LedgerConstants
      <3>4. (preg + psize) % IndexWord = preg + psize
        BY <3>3, SmallMod, LedgerConstants
      <3>5. Place(Cap) \in Entries
        BY <2>4, <2>9
      <3> QED BY <1>1, <1>2, <2>8, <3>3, <3>4, <3>5 DEF LedgerTypeOK
    <2>14. \A i \in 1 .. Cap : queued_sizes'[Place(i)] =
              IF i = 1 THEN new[1] + queued_front_offset ELSE new[i] - new[i - 1]
      <3> TAKE i \in 1 .. Cap
      <3>1. CASE i = Cap
        BY <2>4, <2>13, <3>1
      <3>2. CASE i # Cap
        <4>1. i \in 1 .. Cap - 1 /\ (i # 1 => i - 1 \in 1 .. Cap - 1)
          BY <2>4, <3>2
        <4>2. new[i] = list[i] /\ (i # 1 => new[i - 1] = list[i - 1])
          BY <2>7, <4>1
        <4> QED BY <2>11, <2>12, <4>1, <4>2
      <3> QED BY <3>1, <3>2
    <2>15. Tables(new, queued_front_offset)'
      <3>1. \A i, j \in 1 .. Len(new) : i < j => new[i] < new[j]
        BY <1>1, <2>6, DueIsListed DEF Ordered
      <3>2. \A i \in 1 .. Len(new) : queued_sizes'[(queued_head_index' + i - 1) % Cap] =
              IF i = 1 THEN new[1] + queued_front_offset' ELSE new[i] - new[i - 1]
        BY <1>2, <2>7, <2>14 DEF Place
      <3>3. queued_tail_index' = (queued_head_index' + Len(new)) % IndexWord
        BY <1>2, <2>3, <2>7 DEF Tables
      <3>4. list # << >> /\ new # << >> /\ new[1] = list[1]
        BY <2>4, <2>7, Listed
      <3>5. new[1] + queued_front_offset' <= RingBytes
        BY <1>2, <2>3, <3>4 DEF Tables
      <3> QED BY <3>1, <3>2, <3>3, <3>4, <3>5 DEF Tables
    <2>16. Known(new)'
      BY <1>2, <2>1, <2>3, <2>6, <2>7, <2>15 DEF Known, Quiet
    <2> QED BY <2>16, KnownNext
  <1> QED BY <1>4, <1>5, <1>6, RacedNext DEF LedgerIInv

\* The entry behind the newest takes the size.
LEMMA PushEntryInv == ASSUME LedgerIInv, PushEntry PROVE LedgerIInv'
  <1>1. LedgerTypeOK /\ DueInOrder /\ Registers /\ TableKnown
    BY DEF LedgerIInv
  <1>2. /\ ppc = "push" /\ ppc' = "count" /\ ~(queued_count >= Cap)
        /\ queued_sizes' = [queued_sizes EXCEPT ![queued_tail_index % Cap] = psize]
        /\ queued_tail_index' = (queued_tail_index + 1) % IndexWord
        /\ preg' = queued_count
        /\ UNCHANGED <<queued_head_index, queued_count, queued_front_offset,
                       readable, psize, apc, abytes, areg, due, raced>>
    BY DEF PushEntry, TableFull, mixer, history
  <1>3. /\ queued_count \in 0 .. Cap - 1 /\ queued_tail_index \in Int /\ queued_head_index \in Int
        /\ psize \in Nat \ {0} /\ readable \in 0 .. RingBytes
    BY <1>1, <1>2, LedgerConstants DEF LedgerTypeOK, Registers
  <1>4. (queued_tail_index + 1) % IndexWord \in 0 .. IndexWord - 1 /\ queued_tail_index % Cap \in Entries
    <2>1. queued_tail_index + 1 \in Int
      BY <1>3
    <2> QED BY <1>3, <2>1, DivMod, LedgerConstants DEF Entries
  <1>5. psize \in 0 .. IndexWord - 1
    BY <1>1, <1>3, LedgerConstants DEF LedgerTypeOK
  <1>6. LedgerTypeOK'
    <2>1. queued_sizes' \in [Entries -> 0 .. IndexWord - 1]
      BY <1>1, <1>2, <1>4, <1>5 DEF LedgerTypeOK
    <2>2. preg' \in 0 .. IndexWord - 1
      BY <1>2, <1>3, LedgerConstants
    <2> QED BY <1>1, <1>2, <1>4, <2>1, <2>2 DEF LedgerTypeOK
  <1>7. DueInOrder' /\ Registers'
    <2>1. preg' < Cap
      BY <1>2, <1>3, LedgerConstants
    <2> QED BY <1>1, <1>2, <2>1 DEF DueInOrder, Registers
  <1>8. ASSUME ~raced' PROVE TableKnown'
    <2>1. ~raced /\ apc = "idle"
      BY <1>1, <1>2, <1>8 DEF Registers, LedgerTypeOK
    <2>2. PICK list \in Lists : Known(list)
      BY <1>1, <2>1, TableKnownIs
    <2>3. /\ Tables(list, queued_front_offset) /\ queued_count = Len(list)
          /\ readable = End(list) + psize /\ due = TakenIn(list, readable)
      BY <1>2, <2>1, <2>2 DEF Known
    <2> DEFINE n == Len(list)
    <2>4. /\ n \in 0 .. Cap - 1 /\ Ordered(list) /\ End(list) = (IF n = 0 THEN 0 ELSE list[n])
          /\ \A i \in 1 .. n : list[i] \in 1 .. RingBytes
          /\ list = << >> <=> n = 0
      BY <1>3, <2>3, Listed DEF Tables, Ordered
    <2>5. PICK new \in Lists : new = due
      BY <1>1, DueIsListed
    <2>6. /\ Len(new) = n + 1 /\ new[n + 1] = readable /\ new # << >>
          /\ \A i \in 1 .. n : new[i] = list[i]
      <3>1. End(list) \in 0 .. RingBytes
        BY Listed
      <3>2. readable \in 1 .. RingBytes /\ End(list) < readable
        BY <1>3, <2>3, <3>1
      <3>3. ~(Len(list) >= Cap) /\ (n + 1) - 1 = n
        BY <2>4, LedgerConstants
      <3>4. /\ Len(TakenIn(list, readable)) = n + 1 /\ TakenIn(list, readable)[n + 1] = readable
            /\ TakenIn(list, readable) # << >>
            /\ \A i \in 1 .. (n + 1) - 1 : TakenIn(list, readable)[i] = list[i]
        BY <2>4, <3>2, <3>3, TakenInFacts
      <3> QED BY <2>3, <2>5, <3>3, <3>4
    <2> HIDE DEF n
    <2>7. queued_tail_index % Cap = Place(n + 1)
      <3>1. queued_tail_index = (queued_head_index + n) % IndexWord
        BY <2>3 DEF Tables, n
      <3>2. queued_head_index + n \in Int /\ 0 \in Int
        BY <1>3, <2>4
      <3>3. (((queued_head_index + n) % IndexWord) + 0) % Cap = ((queued_head_index + n) + 0) % Cap
        BY <3>2, IndexMod
      <3>4. (queued_head_index + n) + 0 = queued_head_index + (n + 1) - 1
        BY <1>3, <2>4
      <3>5. queued_tail_index + 0 = queued_tail_index
        BY <1>3
      <3> QED BY <3>1, <3>3, <3>4, <3>5 DEF Place
    <2>8. queued_tail_index' = (queued_head_index' + Len(new)) % IndexWord
      <3>1. queued_tail_index = (queued_head_index + n) % IndexWord
        BY <2>3 DEF Tables, n
      <3>2. queued_head_index + n \in Int /\ 1 \in Int
        BY <1>3, <2>4
      <3>3. (((queued_head_index + n) % IndexWord) + 1) % IndexWord = ((queued_head_index + n) + 1) % IndexWord
        BY <3>2, IndexMod
      <3>4. (queued_head_index + n) + 1 = queued_head_index + (n + 1)
        BY <1>3, <2>4
      <3> QED BY <1>2, <2>6, <3>1, <3>3, <3>4
    <2>9. \A i \in 1 .. n : Place(i) # Place(n + 1) /\ Place(i) \in Entries
      <3>1. n + 1 \in 1 .. Cap /\ \A i \in 1 .. n : i \in 1 .. Cap /\ i \in Nat /\ i # n + 1
        BY <2>4, LedgerConstants
      <3> QED BY <1>1, <3>1, PlaceFacts DEF LedgerTypeOK
    <2>10. \A i \in 1 .. n : queued_sizes'[Place(i)] = queued_sizes[Place(i)]
      BY <1>1, <1>2, <2>7, <2>9 DEF LedgerTypeOK
    <2>11. queued_sizes'[Place(n + 1)] = psize
      BY <1>1, <1>2, <1>4, <2>7 DEF LedgerTypeOK
    <2>12. \A i \in 1 .. n : queued_sizes[Place(i)] =
              IF i = 1 THEN list[1] + queued_front_offset ELSE list[i] - list[i - 1]
      BY <2>3 DEF Tables, Place, n
    <2>13. n = 0 => queued_front_offset = 0
      BY <2>3, <2>4 DEF Tables
    <2>14. \A i \in 1 .. n + 1 : queued_sizes'[Place(i)] =
              IF i = 1 THEN new[1] + queued_front_offset ELSE new[i] - new[i - 1]
      <3> TAKE i \in 1 .. n + 1
      <3>1. CASE i = n + 1 /\ n = 0
        BY <1>3, <2>3, <2>4, <2>6, <2>11, <2>13, <3>1
      <3>2. CASE i = n + 1 /\ n # 0
        <4>1. n \in 1 .. n /\ i # 1 /\ i - 1 = n
          BY <2>4, <3>2
        <4>2. new[i] = readable /\ new[i - 1] = list[n] /\ readable = list[n] + psize /\ list[n] \in 1 .. RingBytes
          BY <2>3, <2>4, <2>6, <3>2, <4>1
        <4> QED BY <1>3, <2>11, <3>2, <4>1, <4>2
      <3>3. CASE i # n + 1
        <4>1. i \in 1 .. n /\ (i # 1 => i - 1 \in 1 .. n)
          BY <2>4, <3>3
        <4>2. new[i] = list[i] /\ (i # 1 => new[i - 1] = list[i - 1])
          BY <2>6, <4>1
        <4> QED BY <2>10, <2>12, <4>1, <4>2
      <3> QED BY <3>1, <3>2, <3>3
    <2>15. new[1] + queued_front_offset <= RingBytes
      <3>1. CASE n = 0
        BY <1>3, <2>6, <2>13, <3>1
      <3>2. CASE n # 0
        <4>1. 1 \in 1 .. n /\ list # << >>
          BY <2>4, <3>2
        <4> QED BY <2>3, <2>6, <4>1 DEF Tables
      <3> QED BY <3>1, <3>2
    <2>16. Tables(new, queued_front_offset)'
      <3>1. \A i, j \in 1 .. Len(new) : i < j => new[i] < new[j]
        BY <1>1, <2>5, DueIsListed DEF Ordered
      <3>2. \A i \in 1 .. Len(new) : queued_sizes'[(queued_head_index' + i - 1) % Cap] =
              IF i = 1 THEN new[1] + queued_front_offset' ELSE new[i] - new[i - 1]
        BY <1>2, <2>6, <2>14 DEF Place
      <3>3. new[1] + queued_front_offset' <= RingBytes
        BY <1>2, <2>15
      <3> QED BY <2>6, <2>8, <3>1, <3>2, <3>3 DEF Tables
    <2>17. queued_count' = Len(new) - 1 /\ preg' = queued_count'
      BY <1>2, <1>3, <2>3, <2>4, <2>6 DEF n
    <2>18. Known(new)'
      BY <1>2, <2>1, <2>5, <2>16, <2>17 DEF Known, Quiet
    <2> QED BY <2>18, KnownNext
  <1> QED BY <1>6, <1>7, <1>8, RacedNext DEF LedgerIInv

\* The count follows.
LEMMA PushCountInv == ASSUME LedgerIInv, PushCount PROVE LedgerIInv'
  <1>1. LedgerTypeOK /\ DueInOrder /\ Registers /\ TableKnown
    BY DEF LedgerIInv
  <1>2. /\ ppc = "count" /\ ppc' = "idle" /\ queued_count' = (preg + 1) % IndexWord
        /\ UNCHANGED <<queued_sizes, queued_head_index, queued_tail_index,
                       queued_front_offset, readable, psize, preg, apc, abytes, areg, due, raced>>
    BY DEF PushCount, mixer, history
  <1>3. preg \in Nat /\ preg < Cap /\ preg + 1 \in 0 .. IndexWord - 1
    BY <1>1, <1>2, LedgerConstants DEF LedgerTypeOK, Registers
  <1>4. queued_count' = preg + 1
    BY <1>2, <1>3, SmallMod, LedgerConstants
  <1>5. queued_count' \in 0 .. Cap
    BY <1>3, <1>4, LedgerConstants
  <1>6. LedgerTypeOK'
    BY <1>1, <1>2, <1>5 DEF LedgerTypeOK
  <1>7. DueInOrder' /\ Registers'
    BY <1>1, <1>2 DEF DueInOrder, Registers
  <1>8. ASSUME ~raced' PROVE TableKnown'
    <2>1. ~raced /\ apc = "idle"
      BY <1>1, <1>2, <1>8 DEF Registers, LedgerTypeOK
    <2>2. PICK list \in Lists : Known(list)
      BY <1>1, <2>1, TableKnownIs
    <2>3. Tables(list, queued_front_offset)'
      BY <1>2, <2>1, <2>2 DEF Known, Tables
    <2>4. list = due /\ queued_count = Len(list) - 1 /\ preg = queued_count /\ Len(list) \in Nat
      BY <1>2, <2>2, Listed DEF Known
    <2>5. queued_count' = Len(list)
      BY <1>4, <2>4
    <2>6. Known(list)'
      BY <1>2, <2>1, <2>3, <2>4, <2>5 DEF Known, Quiet
    <2> QED BY <2>6, KnownNext
  <1> QED BY <1>6, <1>7, <1>8, RacedNext DEF LedgerIInv

-----------------------------------------------------------------------------
(* The audio callback.                                                       *)

\* The callback reads; the buffers it finishes leave the history, not yet the table.
LEMMA MixInv == ASSUME LedgerIInv, Mix PROVE LedgerIInv'
  <1>1. LedgerTypeOK /\ DueInOrder /\ Registers /\ TableKnown
    BY DEF LedgerIInv
  <1>2. /\ apc = "idle" /\ apc' = "consume"
        /\ \E n \in 1 .. MaxRead : abytes' = Fitting(n, readable) /\ Fitting(n, readable) # 0
        /\ readable' = readable - abytes'
        /\ due' = [i \in 1 .. Len(due) - Finished(abytes') |-> due[Finished(abytes') + i] - abytes']
        /\ raced' = (raced \/ ppc # "idle")
        /\ UNCHANGED <<queued_sizes, queued_head_index, queued_tail_index, queued_count,
                       queued_front_offset, ppc, psize, preg, areg>>
    BY DEF Mix, ledger, producer
  <1>3. abytes' \in 1 .. MaxRead /\ abytes' <= readable
    <2>1. PICK n \in 1 .. MaxRead : abytes' = Fitting(n, readable) /\ Fitting(n, readable) # 0
      BY <1>2
    <2> QED BY <1>1, <2>1, LedgerConstants DEF Fitting, LedgerTypeOK
  <1>4. PICK n \in Nat \ {0} : n = abytes'
    BY <1>3
  <1>5. PICK gone \in Nat : gone = Finished(n)
    BY <1>4, FinishedFirst, DueIsListed, <1>1
  <1>6. /\ due \in Lists /\ Ordered(due) /\ End(due) = readable
        /\ gone \in 0 .. Len(due) /\ Len(due) \in 0 .. Cap
        /\ \A i \in 1 .. gone : due[i] <= n
        /\ \A i \in 1 .. Len(due) : i > gone => due[i] > n
        /\ \A i \in 1 .. Len(due) : due[i] \in 1 .. RingBytes
    BY <1>1, <1>4, <1>5, DueIsListed, FinishedFirst, Listed
  <1> DEFINE left == [i \in 1 .. Len(due) - gone |-> due[gone + i] - n]
  <1>7. due' = left
    BY <1>2, <1>4, <1>5
  <1>8. /\ Len(due) - gone \in 0 .. Cap /\ left \in [1 .. Len(due) - gone -> 1 .. RingBytes]
        /\ \A i \in 1 .. Len(due) - gone : left[i] = due[gone + i] - n
    <2>1. \A i \in 1 .. Len(due) - gone : due[gone + i] - n \in 1 .. RingBytes
      <3> TAKE i \in 1 .. Len(due) - gone
      <3>1. gone + i \in 1 .. Len(due) /\ gone + i > gone
        BY <1>6
      <3>2. due[gone + i] > n /\ due[gone + i] \in 1 .. RingBytes
        BY <1>6, <3>1
      <3> QED BY <3>2, LedgerConstants
    <2>2. Len(due) - gone \in 0 .. Cap
      BY <1>6, LedgerConstants
    <2> QED BY <2>1, <2>2
  <1> HIDE DEF left
  <1>9. left \in Lists /\ Len(left) = Len(due) - gone
    BY <1>8, ListBuilt
  <1>10. Ordered(left)
    <2> SUFFICES ASSUME NEW i \in 1 .. Len(left), NEW j \in 1 .. Len(left), i < j PROVE left[i] < left[j]
      BY DEF Ordered
    <2>1. gone + i \in 1 .. Len(due) /\ gone + j \in 1 .. Len(due) /\ gone + i < gone + j
      BY <1>6, <1>9
    <2>2. due[gone + i] < due[gone + j] /\ due[gone + i] \in Nat /\ due[gone + j] \in Nat
      BY <1>6, <2>1 DEF Ordered
    <2> QED BY <1>8, <1>9, <2>2
  <1>11. End(left) = readable - n
    <2>1. CASE gone = Len(due)
      <3>1. End(left) = 0
        BY <1>6, <1>9, <2>1, Listed
      <3>2. readable <= n
        <4>1. CASE Len(due) = 0
          BY <1>1, <1>6, <4>1, Listed
        <4>2. CASE Len(due) # 0
          <5>1. Len(due) \in 1 .. gone /\ End(due) = due[Len(due)]
            BY <1>6, <2>1, <4>2, Listed
          <5> QED BY <1>6, <5>1
        <4> QED BY <4>1, <4>2
      <3>3. n <= readable
        BY <1>3, <1>4
      <3>4. readable \in Nat /\ n \in Nat
        BY <1>1, <1>4, LedgerConstants DEF LedgerTypeOK
      <3> QED BY <3>1, <3>2, <3>3, <3>4
    <2>2. CASE gone # Len(due)
      <3>1. Len(due) - gone \in 1 .. Len(due) - gone /\ gone + (Len(due) - gone) = Len(due)
            /\ Len(due) # 0 /\ Len(left) # 0
        BY <1>6, <1>9, <2>2
      <3>2. left[Len(left)] = due[Len(due)] - n
        BY <1>8, <1>9, <3>1
      <3>3. End(left) = left[Len(left)] /\ End(due) = due[Len(due)]
        BY <1>6, <1>9, <3>1, Listed
      <3> QED BY <1>6, <3>2, <3>3
    <2> QED BY <2>1, <2>2
  <1>12. LedgerTypeOK'
    <2>1. raced' \in BOOLEAN
      BY <1>2
    <2>2. due' \in Seq(1 .. RingBytes)
      BY <1>7, <1>9, Listed
    <2>3. readable' \in 0 .. RingBytes /\ abytes' \in 0 .. MaxRead
      <3>1. readable' = readable - n /\ n <= readable /\ readable \in 0 .. RingBytes
        BY <1>1, <1>2, <1>3, <1>4 DEF LedgerTypeOK
      <3>2. readable' \in 0 .. RingBytes
        <4>1. readable - n \in 0 .. RingBytes
          <5>1. n \in Nat /\ n <= readable /\ readable \in 0 .. RingBytes
            BY <1>4, <3>1
          <5> QED BY <5>1, LedgerConstants
        <4> QED BY <3>1, <4>1, Zenon
      <3>3. n \in 1 .. MaxRead
        BY <1>3, <1>4
      <3>4. n \in 0 .. MaxRead
        BY <3>3
      <3> QED BY <1>4, <3>2, <3>4
    <2> QED BY <1>1, <1>2, <2>1, <2>2, <2>3 DEF LedgerTypeOK
  <1>13. DueInOrder'
    <2>1. Len(left) <= Cap /\ readable' = End(left)
      BY <1>2, <1>4, <1>9, <1>11, Listed, LedgerConstants
    <2> QED BY <1>7, <1>10, <2>1 DEF DueInOrder, Ordered
  <1>14. Registers'
    <2>1. ppc' # "idle" /\ apc' # "idle" => raced'
      BY <1>2, Zenon
    <2> QED BY <1>1, <1>2, <2>1 DEF Registers
  <1>15. ASSUME ~raced' PROVE TableKnown'
    <2>1. ~raced /\ ppc = "idle"
      BY <1>2, <1>15
    <2>2. PICK list \in Lists : Known(list)
      BY <1>1, <2>1, TableKnownIs
    <2>3. list = due /\ queued_count = Len(list) /\ Tables(list, queued_front_offset)
      BY <1>2, <2>1, <2>2 DEF Known, Quiet
    <2>4. Tables(list, queued_front_offset)'
      BY <1>2, <2>3 DEF Tables
    <2>5. Leaves(list, n, left)
      <3>1. n <= End(list)
        BY <1>3, <1>4, <1>6, <2>3
      <3>2. Len(list) - Len(left) = gone
        BY <1>6, <1>9, <2>3
      <3>3. \A i \in 1 .. Len(left) : list[gone + i] = left[i] + n
        <4> TAKE i \in 1 .. Len(left)
        <4>1. left[i] = due[gone + i] - n /\ gone + i \in 1 .. Len(due)
          BY <1>6, <1>8, <1>9
        <4>2. due[gone + i] \in Nat
          BY <1>6, <4>1
        <4> QED BY <2>3, <4>1, <4>2
      <3>4. gone >= 0 /\ \A i \in 1 .. gone : list[i] <= n
        BY <1>6, <2>3
      <3> QED BY <3>1, <3>2, <3>3, <3>4, Zenon DEF Leaves
    <2>6. Leaves(list, abytes, due)'
      BY <1>4, <1>7, <2>5 DEF Leaves, End
    <2>7. Known(list)'
      BY <1>2, <2>1, <2>3, <2>4, <2>6 DEF Known, Quiet
    <2> QED BY <2>7, KnownNext
  <1> QED BY <1>12, <1>13, <1>14, <1>15, RacedNext DEF LedgerIInv

\* What Leaves says of a list and the rest of it.
LEMMA LeavesFacts ==
  ASSUME NEW list \in Lists, NEW rest \in Lists, NEW n \in Nat, Leaves(list, n, rest)
  PROVE  /\ n <= End(list) /\ Len(list) >= Len(rest)
         /\ Len(list) = Len(rest) => \A i \in 1 .. Len(list) : list[i] = rest[i] + n
         /\ Len(list) # Len(rest) => Len(list) > Len(rest) /\ Len(list) >= 1 /\ list[1] <= n
         /\ Len(list) # 0 /\ n < list[1] => Len(list) = Len(rest)
         /\ Len(list) # 0 /\ n >= list[1] => Len(list) # Len(rest)
  <1>1. /\ Len(list) \in Nat /\ Len(rest) \in Nat
        /\ \A i \in 1 .. Len(list) : list[i] \in Nat \ {0}
        /\ \A i \in 1 .. Len(rest) : rest[i] \in Nat \ {0}
    BY Listed
  <1> DEFINE gone == Len(list) - Len(rest)
  <1>2. /\ n <= End(list) /\ gone \in Nat
        /\ \A i \in 1 .. gone : list[i] <= n
        /\ \A i \in 1 .. Len(rest) : list[gone + i] = rest[i] + n
    BY <1>1 DEF Leaves
  <1>3. ASSUME Len(list) = Len(rest)
        PROVE  /\ \A i \in 1 .. Len(list) : list[i] = rest[i] + n
               /\ Len(list) # 0 => list[1] > n
    <2>1. gone = 0 /\ \A i \in Nat : gone + i = i
      BY <1>1, <1>3
    <2>2. \A i \in 1 .. Len(list) : list[i] = rest[i] + n
      BY <1>1, <1>2, <1>3, <2>1
    <2>3. Len(list) # 0 => 1 \in 1 .. Len(list)
      BY <1>1
    <2> QED BY <1>1, <1>3, <2>2, <2>3
  <1>4. ASSUME Len(list) # Len(rest)
        PROVE  Len(list) > Len(rest) /\ Len(list) >= 1 /\ list[1] <= n
    <2>1. 1 \in 1 .. gone
      BY <1>1, <1>2, <1>4
    <2> QED BY <1>1, <1>2, <2>1
  <1>5. Len(list) >= Len(rest)
    BY <1>1, <1>2
  <1>6. Len(list) # 0 => list[1] \in Nat
    BY <1>1
  <1> HIDE DEF gone
  <1> QED BY <1>1, <1>2, <1>3, <1>4, <1>5, <1>6

\* The loop ends with table and history agreed.
LEMMA ConsumeEndInv == ASSUME LedgerIInv, ConsumeEnd PROVE LedgerIInv'
  <1>1. LedgerTypeOK /\ DueInOrder /\ Registers /\ TableKnown
    BY DEF LedgerIInv
  <1>2. /\ apc = "consume" /\ apc' = "idle" /\ (abytes = 0 \/ queued_count = 0)
        /\ UNCHANGED <<queued_sizes, queued_head_index, queued_tail_index, queued_count,
                       queued_front_offset, readable, ppc, psize, preg, abytes, areg, due, raced>>
    BY DEF ConsumeEnd, ledger, producer, history
  <1>3. LedgerTypeOK' /\ DueInOrder' /\ Registers'
    BY <1>1, <1>2 DEF LedgerTypeOK, DueInOrder, Registers
  <1>4. ASSUME ~raced' PROVE TableKnown'
    <2>1. ~raced /\ ppc = "idle"
      BY <1>1, <1>2, <1>4 DEF Registers, LedgerTypeOK
    <2>2. PICK list \in Lists : Known(list)
      BY <1>1, <2>1, TableKnownIs
    <2>3. queued_count = Len(list) /\ Leaves(list, abytes, due) /\ Tables(list, queued_front_offset)
      BY <1>2, <2>2 DEF Known
    <2>4. due \in Lists /\ abytes \in Nat
      BY <1>1, DueIsListed DEF LedgerTypeOK
    <2>5. Len(list) = Len(due) /\ \A i \in 1 .. Len(list) : list[i] = due[i]
      <3>1. CASE abytes = 0
        <4>1. \A i \in 1 .. Len(due) : due[i] \in Nat
          BY <2>4, Listed
        <4>2. Len(list) >= 1 => list[1] \in Nat \ {0}
          BY Listed
        <4> QED BY <2>3, <2>4, <3>1, <4>1, <4>2, LeavesFacts
      <3>2. CASE queued_count = 0
        <4>1. Len(list) = 0 /\ Len(due) \in Nat
          BY <2>3, <2>4, <3>2, Listed
        <4> QED BY <2>3, <2>4, <4>1, LeavesFacts
      <3> QED BY <1>2, <3>1, <3>2
    <2>6. list = due
      BY <2>4, <2>5, Listed, SeqEqual
    <2>7. Tables(list, queued_front_offset)'
      BY <1>2, <2>3 DEF Tables
    <2>8. Known(list)'
      BY <1>2, <2>1, <2>3, <2>6, <2>7 DEF Known, Quiet
    <2> QED BY <2>8, KnownNext
  <1> QED BY <1>3, <1>4, RacedNext DEF LedgerIInv

\* The bytes the oldest buffer has left.
LEMMA RemainingIs ==
  ASSUME LedgerTypeOK, NEW list \in Lists, Tables(list, queued_front_offset), Len(list) # 0
  PROVE  Remaining = list[1] /\ list[1] \in 1 .. RingBytes
         /\ queued_front_offset + list[1] <= RingBytes
  <1>1. 1 \in 1 .. Len(list) /\ list # << >> /\ list[1] \in 1 .. RingBytes
    BY Listed
  <1>2. Oldest = Place(1)
    BY PlaceFacts DEF LedgerTypeOK
  <1>3. queued_sizes[Place(1)] = list[1] + queued_front_offset /\ list[1] + queued_front_offset <= RingBytes
    BY <1>1 DEF Tables, Place
  <1>4. queued_front_offset \in Nat
    BY LedgerConstants DEF LedgerTypeOK
  <1>5. queued_sizes[Oldest] - queued_front_offset = list[1] /\ list[1] \in 0 .. IndexWord - 1
    BY <1>1, <1>2, <1>3, <1>4, LedgerConstants
  <1>6. list[1] % IndexWord = list[1]
    BY <1>5, SmallMod, LedgerConstants
  <1> QED BY <1>1, <1>3, <1>4, <1>5, <1>6 DEF Remaining

\* The oldest buffer is played in part.
LEMMA ConsumePartInv == ASSUME LedgerIInv, ConsumePart PROVE LedgerIInv'
  <1>1. LedgerTypeOK /\ DueInOrder /\ Registers /\ TableKnown
    BY DEF LedgerIInv
  <1>2. /\ apc = "consume" /\ apc' = "idle" /\ abytes > 0 /\ queued_count > 0 /\ abytes < Remaining
        /\ queued_front_offset' = (queued_front_offset + abytes) % IndexWord
        /\ UNCHANGED <<queued_sizes, queued_head_index, queued_tail_index, queued_count,
                       readable, ppc, psize, preg, abytes, areg, due, raced>>
    BY DEF ConsumePart, producer, history
  <1>3. queued_front_offset + abytes \in Int
    BY <1>1, LedgerConstants DEF LedgerTypeOK
  <1>4. LedgerTypeOK'
    <2>1. queued_front_offset' \in 0 .. IndexWord - 1
      BY <1>2, <1>3, DivMod, LedgerConstants
    <2> QED BY <1>1, <1>2, <2>1 DEF LedgerTypeOK
  <1>5. DueInOrder' /\ Registers'
    BY <1>1, <1>2 DEF DueInOrder, Registers
  <1>6. ASSUME ~raced' PROVE TableKnown'
    <2>1. ~raced /\ ppc = "idle"
      BY <1>1, <1>2, <1>6 DEF Registers, LedgerTypeOK
    <2>2. PICK list \in Lists : Known(list)
      BY <1>1, <2>1, TableKnownIs
    <2>3. queued_count = Len(list) /\ Leaves(list, abytes, due) /\ Tables(list, queued_front_offset)
      BY <1>2, <2>2 DEF Known
    <2>4. PICK new \in Lists : new = due
      BY <1>1, DueIsListed
    <2>5. abytes \in Nat \ {0} /\ queued_front_offset \in Nat
      BY <1>1, <1>2, LedgerConstants DEF LedgerTypeOK
    <2>6. Len(list) # 0 /\ Remaining = list[1] /\ list[1] \in 1 .. RingBytes
          /\ queued_front_offset + list[1] <= RingBytes
      BY <1>1, <1>2, <2>3, RemainingIs
    <2>7. Len(list) = Len(new) /\ \A i \in 1 .. Len(list) : list[i] = new[i] + abytes
      BY <1>2, <2>3, <2>4, <2>5, <2>6, LeavesFacts
    <2>8. queued_front_offset' = queued_front_offset + abytes
      <3>1. queued_front_offset + abytes \in 0 .. IndexWord - 1
        BY <1>2, <2>5, <2>6, LedgerConstants
      <3> QED BY <1>2, <3>1, SmallMod, LedgerConstants
    <2>9. /\ \A i \in 1 .. Len(list) : new[i] \in Nat /\ list[i] \in Nat
          /\ Len(list) \in Nat /\ new # << >> /\ list # << >>
      BY <2>6, <2>7, Listed
    <2>10. Tables(new, queued_front_offset)'
      <3>1. queued_tail_index' = (queued_head_index' + Len(new)) % IndexWord
        BY <1>2, <2>3, <2>7 DEF Tables
      <3>2. \A i \in 1 .. Len(new) : queued_sizes'[(queued_head_index' + i - 1) % Cap] =
              IF i = 1 THEN new[1] + queued_front_offset' ELSE new[i] - new[i - 1]
        <4> TAKE i \in 1 .. Len(new)
        <4>1. queued_sizes'[(queued_head_index' + i - 1) % Cap] =
                IF i = 1 THEN list[1] + queued_front_offset ELSE list[i] - list[i - 1]
          BY <1>2, <2>3, <2>7 DEF Tables
        <4>2. CASE i = 1
          BY <2>5, <2>7, <2>8, <2>9, <4>1, <4>2
        <4>3. CASE i # 1
          <5>1. i \in 1 .. Len(list) /\ i - 1 \in 1 .. Len(list)
            BY <2>7, <2>9, <4>3
          <5>2. list[i] = new[i] + abytes /\ list[i - 1] = new[i - 1] + abytes
                /\ new[i] \in Nat /\ new[i - 1] \in Nat
            BY <2>7, <2>9, <5>1
          <5> QED BY <2>5, <4>1, <4>3, <5>2
        <4> QED BY <4>2, <4>3
      <3>3. \A i, j \in 1 .. Len(new) : i < j => new[i] < new[j]
        BY <1>1, <2>4, DueIsListed DEF Ordered
      <3>4. new[1] + queued_front_offset' <= RingBytes
        BY <2>5, <2>6, <2>7, <2>8, <2>9
      <3> QED BY <2>9, <3>1, <3>2, <3>3, <3>4 DEF Tables
    <2>11. Known(new)'
      BY <1>2, <2>1, <2>3, <2>4, <2>7, <2>10 DEF Known, Quiet
    <2> QED BY <2>11, KnownNext
  <1> QED BY <1>4, <1>5, <1>6, RacedNext DEF LedgerIInv

\* The oldest buffer leaves the table.
LEMMA ConsumeWholeInv == ASSUME LedgerIInv, ConsumeWhole PROVE LedgerIInv'
  <1>1. LedgerTypeOK /\ DueInOrder /\ Registers /\ TableKnown
    BY DEF LedgerIInv
  <1>2. /\ apc = "consume" /\ apc' = "count" /\ abytes > 0 /\ queued_count > 0 /\ abytes >= Remaining
        /\ abytes' = abytes - Remaining
        /\ queued_sizes' = [queued_sizes EXCEPT ![Oldest] = 0]
        /\ queued_head_index' = (queued_head_index + 1) % IndexWord
        /\ areg' = queued_count
        /\ UNCHANGED <<queued_tail_index, queued_count, queued_front_offset,
                       readable, ppc, psize, preg, due, raced>>
    BY DEF ConsumeWhole, producer, history
  <1>3. /\ abytes \in 0 .. MaxRead /\ queued_head_index \in Nat /\ queued_front_offset \in Nat
        /\ queued_count \in 1 .. Cap
    BY <1>1, <1>2, LedgerConstants DEF LedgerTypeOK
  <1>4. Oldest = Place(1) /\ Oldest \in Entries
    BY <1>1, PlaceFacts DEF LedgerTypeOK
  <1>5. Remaining \in Nat
    <2>1. queued_sizes[Oldest] - queued_front_offset \in Int
      BY <1>1, <1>3, <1>4, LedgerConstants DEF LedgerTypeOK
    <2> QED BY <2>1, DivMod, LedgerConstants DEF Remaining
  <1>6. LedgerTypeOK'
    <2>1. abytes' \in 0 .. MaxRead
      <3>1. abytes - Remaining \in 0 .. MaxRead
        BY <1>2, <1>3, <1>5, LedgerConstants
      <3> QED BY <1>2, <3>1, Zenon
    <2>2. queued_head_index' \in 0 .. IndexWord - 1
      <3>1. queued_head_index + 1 \in Int
        BY <1>3
      <3> QED BY <1>2, <3>1, DivMod, LedgerConstants
    <2>3. queued_sizes' \in [Entries -> 0 .. IndexWord - 1]
      BY <1>1, <1>2, <1>4, LedgerConstants DEF LedgerTypeOK
    <2>4. areg' \in 0 .. Cap
      BY <1>1, <1>2 DEF LedgerTypeOK
    <2> QED BY <1>1, <1>2, <2>1, <2>2, <2>3, <2>4 DEF LedgerTypeOK
  <1>7. DueInOrder'
    BY <1>1, <1>2 DEF DueInOrder
  <1>8. Registers'
    BY <1>1, <1>2 DEF Registers
  <1>9. ASSUME ~raced' PROVE TableKnown'
    <2>1. ~raced /\ ppc = "idle"
      BY <1>1, <1>2, <1>9 DEF Registers, LedgerTypeOK
    <2>2. PICK list \in Lists : Known(list)
      BY <1>1, <2>1, TableKnownIs
    <2>3. queued_count = Len(list) /\ Leaves(list, abytes, due) /\ Tables(list, queued_front_offset)
      BY <1>2, <2>2 DEF Known
    <2>4. PICK rest \in Lists : rest = due
      BY <1>1, DueIsListed
    <2> DEFINE n == Len(list)
               f == [i \in 1 .. n - 1 |-> list[i + 1] - list[1]]
    <2>5. /\ n \in 1 .. Cap /\ \A i \in 1 .. n : list[i] \in 1 .. RingBytes
          /\ \A i, j \in 1 .. n : i < j => list[i] < list[j]
          /\ End(list) = list[n]
      BY <1>3, <2>3, Listed DEF Tables
    <2>6. Remaining = list[1] /\ list[1] \in 1 .. RingBytes
      BY <1>1, <2>3, <2>5, RemainingIs
    <2>7. f \in [1 .. n - 1 -> 1 .. RingBytes] /\ n - 1 \in 0 .. Cap
          /\ \A i \in 1 .. n - 1 : f[i] = list[i + 1] - list[1]
      <3>1. \A i \in 1 .. n - 1 : list[i + 1] - list[1] \in 1 .. RingBytes
        <4> TAKE i \in 1 .. n - 1
        <4>1. i + 1 \in 1 .. n /\ 1 \in 1 .. n /\ 1 < i + 1
          BY <2>5
        <4>2. list[1] < list[i + 1] /\ list[i + 1] \in 1 .. RingBytes
          BY <2>5, <4>1
        <4> QED BY <2>6, <4>2, LedgerConstants
      <3>2. n - 1 \in 0 .. Cap
        BY <2>5, LedgerConstants
      <3> QED BY <3>1, <3>2
    <2> HIDE DEF f
    <2>8. PICK new \in Lists : new = f
      BY <2>7, ListBuilt
    <2>9. Len(new) = n - 1 /\ \A i \in 1 .. n - 1 : new[i] = list[i + 1] - list[1]
      BY <2>7, <2>8, ListBuilt
    <2> HIDE DEF n
    <2>10. \A i \in 1 .. Cap : (queued_head_index' + i - 1) % Cap = Place(i + 1)
      <3> TAKE i \in 1 .. Cap
      <3>1. queued_head_index + 1 \in Int /\ i - 1 \in Int
        BY <1>3, LedgerConstants
      <3>2. (((queued_head_index + 1) % IndexWord) + (i - 1)) % Cap = ((queued_head_index + 1) + (i - 1)) % Cap
        BY <3>1, IndexMod
      <3>3. (queued_head_index + 1) + (i - 1) = queued_head_index + (i + 1) - 1
        BY <1>3, LedgerConstants
      <3> QED BY <1>2, <3>2, <3>3 DEF Place
    <2>11. queued_tail_index' = (queued_head_index' + Len(new)) % IndexWord
      <3>1. queued_tail_index = (queued_head_index + n) % IndexWord
        BY <2>3 DEF Tables, n
      <3>2. queued_head_index + 1 \in Int /\ n - 1 \in Int
        BY <1>3, <2>5, LedgerConstants
      <3>3. (((queued_head_index + 1) % IndexWord) + (n - 1)) % IndexWord
              = ((queued_head_index + 1) + (n - 1)) % IndexWord
        BY <3>2, IndexMod
      <3>4. (queued_head_index + 1) + (n - 1) = queued_head_index + n
        BY <1>3, <2>5, LedgerConstants
      <3> QED BY <1>2, <2>9, <3>1, <3>3, <3>4
    <2>12. \A i \in 1 .. n - 1 :
             /\ Place(i + 1) \in Entries /\ Place(i + 1) # Oldest
             /\ queued_sizes'[Place(i + 1)] = list[i + 1] - list[i]
      <3> TAKE i \in 1 .. n - 1
      <3>1. i + 1 \in 1 .. Cap /\ 1 \in 1 .. Cap /\ i + 1 # 1 /\ i + 1 \in 1 .. n /\ i + 1 \in Nat
            /\ (i + 1) - 1 = i
        BY <2>5, LedgerConstants
      <3>2. Place(i + 1) \in Entries /\ Place(i + 1) # Oldest
        BY <1>1, <1>4, <3>1, PlaceFacts DEF LedgerTypeOK
      <3>3. queued_sizes[Place(i + 1)] = list[i + 1] - list[(i + 1) - 1]
        BY <2>3, <3>1 DEF Tables, Place, n
      <3> QED BY <1>1, <1>2, <3>1, <3>2, <3>3 DEF LedgerTypeOK
    <2>13. Tables(new, 0)'
      <3>1. \A i \in 1 .. Len(new) : queued_sizes'[(queued_head_index' + i - 1) % Cap] =
              IF i = 1 THEN new[1] + 0 ELSE new[i] - new[i - 1]
        <4> TAKE i \in 1 .. Len(new)
        <4>1. i \in 1 .. n - 1 /\ i \in 1 .. Cap
          BY <2>5, <2>9, LedgerConstants
        <4>2. queued_sizes'[(queued_head_index' + i - 1) % Cap] = list[i + 1] - list[i]
          BY <2>10, <2>12, <4>1
        <4>3. CASE i = 1
          BY <2>5, <2>6, <2>9, <4>1, <4>2, <4>3
        <4>4. CASE i # 1
          <5>1. i - 1 \in 1 .. n - 1 /\ (i - 1) + 1 = i /\ i \in 1 .. n /\ i + 1 \in 1 .. n
            BY <2>5, <4>1, <4>4
          <5>2. new[i] = list[i + 1] - list[1] /\ new[i - 1] = list[i] - list[1]
            BY <2>9, <4>1, <5>1
          <5>3. list[i] \in Nat /\ list[i + 1] \in Nat /\ list[1] \in Nat
            BY <2>5, <2>6, <5>1
          <5> QED BY <4>2, <4>4, <5>2, <5>3
        <4> QED BY <4>3, <4>4
      <3>2. \A i, j \in 1 .. Len(new) : i < j => new[i] < new[j]
        <4> SUFFICES ASSUME NEW i \in 1 .. Len(new), NEW j \in 1 .. Len(new), i < j PROVE new[i] < new[j]
          OBVIOUS
        <4>1. i \in 1 .. n - 1 /\ j \in 1 .. n - 1 /\ i + 1 \in 1 .. n /\ j + 1 \in 1 .. n /\ i + 1 < j + 1
          BY <2>5, <2>9
        <4>2. list[i + 1] < list[j + 1] /\ list[i + 1] \in Nat /\ list[j + 1] \in Nat
          BY <2>5, <4>1
        <4> QED BY <2>6, <2>9, <4>1, <4>2
      <3>3. new # << >> => new[1] + 0 <= RingBytes
        <4> SUFFICES ASSUME new # << >> PROVE new[1] + 0 <= RingBytes
          OBVIOUS
        <4>1. 1 \in 1 .. Len(new)
          BY <2>5, <2>9, Listed
        <4>2. new[1] \in 1 .. RingBytes
          BY <4>1, Listed
        <4> QED BY <4>2
      <3> QED BY <2>11, <3>1, <3>2, <3>3 DEF Tables
    <2>14. Leaves(new, abytes', rest)
      <3>1. /\ abytes \in Nat /\ abytes' = abytes - list[1] /\ abytes >= list[1] /\ abytes <= list[n]
        BY <1>2, <1>3, <2>3, <2>5, <2>6 DEF Leaves
      <3>2. Len(rest) \in Nat /\ n - Len(rest) \in Nat /\ n # Len(rest) /\ (n - 1) - Len(rest) \in Nat
        <4>1. Len(rest) \in Nat
          BY Listed
        <4>2. n # Len(rest) /\ n >= Len(rest)
          BY <2>3, <2>4, <2>5, <3>1, LeavesFacts DEF n
        <4> QED BY <2>5, <4>1, <4>2
      <3> DEFINE gone == n - Len(rest)
                 less == (n - 1) - Len(rest)
      <3>3. /\ \A i \in 1 .. gone : list[i] <= abytes
            /\ \A i \in 1 .. Len(rest) : list[gone + i] = rest[i] + abytes
        BY <2>3, <2>4 DEF Leaves, n
      <3>4. less \in Nat /\ gone = less + 1
        BY <2>5, <3>2
      <3> HIDE DEF gone, less
      <3>5. \A i \in 1 .. less : new[i] <= abytes'
        <4> TAKE i \in 1 .. less
        <4>1. i \in 1 .. n - 1 /\ i + 1 \in 1 .. gone /\ i + 1 \in 1 .. n
          BY <2>5, <3>2, <3>4 DEF less
        <4>2. list[i + 1] <= abytes /\ list[i + 1] \in Nat /\ new[i] = list[i + 1] - list[1]
          BY <2>5, <2>9, <3>3, <4>1
        <4> QED BY <2>6, <3>1, <4>2
      <3>6. \A i \in 1 .. Len(rest) : new[less + i] = rest[i] + abytes'
        <4> TAKE i \in 1 .. Len(rest)
        <4>1. less + i \in 1 .. n - 1 /\ (less + i) + 1 = gone + i
          BY <2>5, <3>2, <3>4 DEF less
        <4>2. new[less + i] = list[gone + i] - list[1] /\ list[gone + i] = rest[i] + abytes
          BY <2>9, <3>3, <4>1
        <4>3. rest[i] \in Nat
          BY Listed
        <4> QED BY <2>6, <3>1, <4>2, <4>3
      <3>7. abytes' <= End(new)
        <4>1. CASE n = 1
          <5>1. End(new) = 0
            BY <2>9, <4>1, Listed
          <5> QED BY <2>6, <3>1, <4>1, <5>1
        <4>2. CASE n # 1
          <5>1. n - 1 \in 1 .. n - 1 /\ (n - 1) + 1 = n /\ n - 1 # 0
            BY <2>5, <4>2
          <5>2. End(new) = new[n - 1] /\ new[n - 1] = list[n] - list[1]
            BY <2>9, <5>1, Listed
          <5>3. list[n] \in Nat
            BY <2>5
          <5> QED BY <2>6, <3>1, <5>2, <5>3
        <4> QED BY <4>1, <4>2
      <3>8. Len(new) - Len(rest) = less /\ less >= 0
        BY <2>9, <3>4 DEF less
      <3> QED BY <3>5, <3>6, <3>7, <3>8, Zenon DEF Leaves
    <2>15. queued_count' = Len(new) + 1 /\ areg' = queued_count'
      BY <1>2, <2>3, <2>5, <2>9 DEF n
    <2>16. Leaves(new, abytes, due)'
      BY <1>2, <2>4, <2>14 DEF Leaves, End
    <2>17. Tables(new, IF apc = "count" THEN 0 ELSE queued_front_offset)'
      BY <1>2, <2>13
    <2>18. Known(new)'
      BY <1>2, <2>1, <2>15, <2>16, <2>17 DEF Known, Quiet
    <2> QED BY <2>18, KnownNext
  <1> QED BY <1>6, <1>7, <1>8, <1>9, RacedNext DEF LedgerIInv

\* The count follows, and the next buffer has not been played.
LEMMA ConsumeCountInv == ASSUME LedgerIInv, ConsumeCount PROVE LedgerIInv'
  <1>1. LedgerTypeOK /\ DueInOrder /\ Registers /\ TableKnown
    BY DEF LedgerIInv
  <1>2. /\ apc = "count" /\ apc' = "consume" /\ queued_count' = (areg - 1) % IndexWord
        /\ queued_front_offset' = 0
        /\ UNCHANGED <<queued_sizes, queued_head_index, queued_tail_index,
                       readable, ppc, psize, preg, abytes, areg, due, raced>>
    BY DEF ConsumeCount, CountDown, producer, history
  <1>3. areg \in 1 .. Cap /\ areg - 1 \in 0 .. IndexWord - 1
    BY <1>1, <1>2, LedgerConstants DEF LedgerTypeOK, Registers
  <1>4. queued_count' = areg - 1
    BY <1>2, <1>3, SmallMod, LedgerConstants
  <1>5. LedgerTypeOK'
    <2>1. queued_count' \in 0 .. Cap
      BY <1>3, <1>4, LedgerConstants
    <2>2. queued_front_offset' \in 0 .. IndexWord - 1
      BY <1>2, LedgerConstants
    <2> QED BY <1>1, <1>2, <2>1, <2>2 DEF LedgerTypeOK
  <1>6. DueInOrder' /\ Registers'
    BY <1>1, <1>2 DEF DueInOrder, Registers
  <1>7. ASSUME ~raced' PROVE TableKnown'
    <2>1. ~raced /\ ppc = "idle"
      BY <1>1, <1>2, <1>7 DEF Registers, LedgerTypeOK
    <2>2. PICK list \in Lists : Known(list)
      BY <1>1, <2>1, TableKnownIs
    <2>3. /\ queued_count = Len(list) + 1 /\ areg = queued_count /\ Leaves(list, abytes, due)
          /\ Tables(list, 0) /\ Len(list) \in Nat
      BY <1>2, <2>2, Listed DEF Known
    <2>4. Tables(list, queued_front_offset)'
      BY <1>2, <2>3 DEF Tables
    <2>5. Leaves(list, abytes, due)'
      BY <1>2, <2>3 DEF Leaves, End
    <2>6. queued_count' = Len(list)
      BY <1>4, <2>3
    <2>7. Known(list)'
      BY <1>2, <2>1, <2>4, <2>5, <2>6 DEF Known, Quiet
    <2> QED BY <2>7, KnownNext
  <1> QED BY <1>5, <1>6, <1>7, RacedNext DEF LedgerIInv

-----------------------------------------------------------------------------
(* Stop and Clear, and the theorem.                                          *)

\* queue_reset leaves the table in its type and, with an empty ring and no
\* Enqueue under way, known to be empty.
LEMMA ResetInv ==
  ASSUME LedgerIInv, Reset, DueInOrder', readable' \in 0 .. RingBytes,
         due' \in Seq(1 .. RingBytes), raced' \in BOOLEAN,
         ~raced' => ppc = "idle" /\ due' = << >>
  PROVE  LedgerIInv'
  <1>1. LedgerTypeOK /\ Registers
    BY DEF LedgerIInv
  <1>2. /\ apc = "idle" /\ queued_sizes' = [e \in Entries |-> 0]
        /\ queued_head_index' = 0 /\ queued_tail_index' = 0 /\ queued_count' = 0
        /\ queued_front_offset' = 0
        /\ UNCHANGED <<ppc, psize, preg, apc, abytes, areg>>
    BY DEF Reset, producer, mixer
  <1>3. << >> \in Seq(1 .. RingBytes) /\ Len(<< >>) = 0
    BY EmptySeq
  <1>4. PICK new \in Lists : new = << >>
    <2>1. Len(<< >>) <= Cap
      BY <1>3, LedgerConstants
    <2> QED BY <1>3, <2>1, ListFacts, Zenon
  <1>5. LedgerTypeOK'
    <2>1. queued_sizes' \in [Entries -> 0 .. IndexWord - 1]
      BY <1>2, LedgerConstants
    <2>2. 0 \in 0 .. IndexWord - 1 /\ 0 \in 0 .. Cap
      BY LedgerConstants
    <2> QED BY <1>1, <1>2, <2>1, <2>2 DEF LedgerTypeOK
  <1>6. Registers'
    BY <1>1, <1>2 DEF Registers
  <1>7. ASSUME ~raced' PROVE TableKnown'
    <2>1. (0 + Len(new)) % IndexWord = 0
      BY <1>3, <1>4, SmallMod, LedgerConstants
    <2>2. ppc = "idle" /\ due' = << >>
      BY <1>7
    <2>3. Known(new)'
      BY <1>2, <1>3, <1>4, <2>1, <2>2 DEF Known, Tables, Quiet
    <2> QED BY <2>3, KnownNext
  <1> QED BY <1>5, <1>6, <1>7, RacedNext DEF LedgerIInv

\* The ledger and the ring are emptied.
LEMMA LedgerFlushInv == ASSUME LedgerIInv, LedgerFlush PROVE LedgerIInv'
  <1>1. Reset /\ readable' = 0 /\ due' = << >> /\ raced' = (ppc # "idle")
    BY DEF LedgerFlush
  <1>2. << >> \in Seq(1 .. RingBytes) /\ Len(<< >>) = 0
    BY EmptySeq
  <1>3. DueInOrder'
    BY <1>1, <1>2, LedgerConstants DEF DueInOrder, End
  <1>4. readable' \in 0 .. RingBytes /\ due' \in Seq(1 .. RingBytes)
    BY <1>1, <1>2, LedgerConstants
  <1>5. raced' \in BOOLEAN /\ (~raced' => ppc = "idle" /\ due' = << >>)
    BY <1>1
  <1> QED BY <1>1, <1>3, <1>4, <1>5, ResetInv

\* The ledger is emptied and the ring is not.
LEMMA PumpResetInv == ASSUME LedgerIInv, PumpReset PROVE LedgerIInv'
  <1>1. LedgerTypeOK /\ DueInOrder
    BY DEF LedgerIInv
  <1>2. Reset /\ readable' = readable /\ due' = due /\ raced' = (ppc # "idle" \/ readable > 0)
    BY DEF PumpReset
  <1>3. DueInOrder' /\ readable' \in 0 .. RingBytes /\ due' \in Seq(1 .. RingBytes) /\ raced' \in BOOLEAN
    BY <1>1, <1>2 DEF DueInOrder, End, LedgerTypeOK
  <1>4. ASSUME ~raced' PROVE due' = << >>
    <2>1. readable = 0
      <3>1. ~(readable > 0)
        BY <1>2, <1>4
      <3>2. readable \in 0 .. RingBytes
        BY <1>1 DEF LedgerTypeOK
      <3> QED BY <3>1, <3>2, LedgerConstants
    <2>2. End(due) = 0
      BY <1>1, <2>1 DEF DueInOrder
    <2>3. PICK list \in Lists : list = due
      BY <1>1, DueIsListed
    <2>4. ASSUME list # << >> PROVE FALSE
      <3>1. Len(list) \in 1 .. Len(list) /\ list[Len(list)] \in 1 .. RingBytes
        BY <2>4, Listed
      <3> QED BY <2>2, <2>3, <2>4, <3>1, LedgerConstants DEF End
    <2> QED BY <1>2, <2>3, <2>4
  <1> QED BY <1>2, <1>3, <1>4, ResetInv

\* Every step of the ledger.
LEMMA LedgerNextInv == LedgerIInv /\ [LedgerNext]_ledgerVars => LedgerIInv'
  <1> SUFFICES ASSUME LedgerIInv, [LedgerNext]_ledgerVars PROVE LedgerIInv'
    OBVIOUS
  <1>1. CASE UNCHANGED ledgerVars
    <2>1. UNCHANGED <<queued_sizes, queued_head_index, queued_tail_index, queued_count,
                      queued_front_offset, readable, ppc, psize, preg, apc, abytes, areg, due, raced>>
      BY <1>1 DEF ledgerVars, ledger, producer, mixer, history
    <2>2. LedgerTypeOK' /\ DueInOrder' /\ Registers'
      BY <2>1 DEF LedgerIInv, LedgerTypeOK, DueInOrder, Registers
    <2>3. ASSUME ~raced' PROVE TableKnown'
      <3>1. PICK list \in Lists : Known(list)
        BY <2>1, <2>3, TableKnownIs DEF LedgerIInv
      <3>2. Known(list)'
        BY <2>1, <3>1 DEF Known, Tables, Leaves, Quiet, Newest
      <3> QED BY <3>2, KnownNext
    <2> QED BY <2>2, <2>3, RacedNext DEF LedgerIInv
  <1> QED BY <1>1, PublishInv, MergeLoadInv, MergeStoreInv, PushEntryInv, PushCountInv, MixInv,
             ConsumeEndInv, ConsumePartInv, ConsumeWholeInv, ConsumeCountInv, LedgerFlushInv,
             PumpResetInv
          DEF LedgerNext, Consume

\* The step by step account gives the exact one between calls.
LEMMA ExactBetweenCalls == LedgerIInv => LedgerExact
  <1> SUFFICES ASSUME LedgerIInv, Quiet, ~raced
               PROVE  /\ queued_count = Len(due)
                      /\ \A i \in 1 .. Len(due) :
                           queued_sizes[(queued_head_index + i - 1) % Cap] =
                             IF i = 1 THEN due[1] + queued_front_offset ELSE due[i] - due[i - 1]
                      /\ readable = (IF due = << >> THEN 0 ELSE due[Len(due)])
    BY DEF LedgerExact
  <1>1. PICK list \in Lists : Known(list)
    BY TableKnownIs DEF LedgerIInv
  <1>2. list = due /\ queued_count = Len(list) /\ Tables(list, queued_front_offset)
    BY <1>1 DEF Known, Quiet
  <1>3. readable = (IF due = << >> THEN 0 ELSE due[Len(due)])
    BY DEF LedgerIInv, DueInOrder, End
  <1> QED BY <1>2, <1>3 DEF Tables

\* LedgerInv at any time: for every length of the table, word of its indexes,
\* ring and buffer size the account queue_push and queue_consume keep is, step
\* by step, that of the buffers the ring holds, until a callback or a reset
\* overlaps an Enqueue or the pump resets a player that has been fed again; and
\* even then its count stays within the table.
THEOREM LedgerCorrect == LedgerSpec => []LedgerInv
  <1>1. LedgerIInv => LedgerInv
    BY ExactBetweenCalls DEF LedgerIInv, LedgerInv
  <1> QED BY LedgerInitInv, LedgerNextInv, <1>1, PTL DEF LedgerSpec
=============================================================================
