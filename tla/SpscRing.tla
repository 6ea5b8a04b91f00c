------------------------------ MODULE SpscRing ------------------------------
(* The ring buffer of one AudioPlayer (src/opensles_shim.c): ring_write on   *)
(* the game thread, ring_read on SDL's audio thread with the device lock     *)
(* held, and the flush of Stop and Clear, which rewrites both counters under *)
(* the device lock only.  Counters are free-running uint32_t: the word holds *)
(* Wraps rings, and every difference of counters is taken modulo Word.       *)
(*                                                                           *)
(* A byte is its position in the stream of accepted bytes, so a slot shows   *)
(* which byte it was written with.  memcpy moves one byte per step and       *)
(* `ring_head += len' is a load and a store, so the other thread may run     *)
(* between any two of them.                                                  *)
EXTENDS Integers, Sequences

CONSTANTS RingSize,          \* RING_BUFFER_SIZE
          Wraps,             \* 2^32 \div RING_BUFFER_SIZE
          MaxLen,            \* longest Enqueue and longest read
          MaxSent,           \* bound: bytes accepted in one behaviour
          CrossThreadFlush   \* may a flush fall inside another thread's write?

ASSUME RingAssumption ==
  /\ RingSize \in Nat \ {0}
  /\ Wraps \in Nat \ {0, 1}
  /\ MaxLen \in Nat \ {0}
  /\ MaxSent \in Nat
  /\ CrossThreadFlush \in BOOLEAN

Word == RingSize * Wraps
Unwritten == -1              \* a slot no write has reached

VARIABLES
  ring,                      \* ring[]
  ring_head, ring_tail,
  wpc, wat, wlen, wdone,     \* ring_write: next step, head & MASK, len, bytes copied
  wreg,                      \* the register of ring_head += len
  rpc, rat, rlen, rbuf,      \* ring_read: next step, tail & MASK, len, dst
  sent, recvd, heard         \* the stream, as ByteStream sees it

counters == <<ring_head, ring_tail>>
writer == <<wpc, wat, wlen, wdone, wreg>>
reader == <<rpc, rat, rlen, rbuf>>
stream == <<sent, recvd, heard>>
vars == <<ring, counters, writer, reader, stream>>

Slots == 0 .. RingSize - 1

\* Mutation: every wrapped byte goes to ring[0].
SlotStuck(at, k) == IF at + k < RingSize THEN at + k ELSE 0

\* The slot k bytes on from slot `at': memcpy's second part starts at ring[0].
Slot(at, k) == IF at + k < RingSize THEN at + k ELSE at + k - RingSize

Readable == (ring_head - ring_tail) % Word

\* Mutation: one byte too many is taken for free.
WritableOffByOne == (RingSize - Readable + 1) % Word
Writable == (RingSize - Readable) % Word

Clip(len, limit) == IF len > limit THEN limit ELSE len

\* Mutation: ring_read does not clip its length.
ReadLenUnclipped(n) == n
ReadLen(n) == Clip(n, Readable)

Copied == wdone = wlen

NextHead == (wreg + wlen) % Word

Init ==
  /\ ring = [s \in Slots |-> Unwritten]
  /\ ring_head = 0 /\ ring_tail = 0
  /\ wpc = "idle" /\ wat = 0 /\ wlen = 0 /\ wdone = 0 /\ wreg = 0
  /\ rpc = "idle" /\ rat = 0 /\ rlen = 0 /\ rbuf = << >>
  /\ sent = 0 /\ recvd = 0 /\ heard = << >>

-----------------------------------------------------------------------------
(* The game thread: bq_Enqueue's ring_write.                                 *)

\* Clip the request to the free space and locate the first byte; with no
\* space the call returns 0 and changes nothing.
WriteStart ==
  \E n \in 1 .. MaxLen :
    /\ wpc = "idle"
    /\ Clip(n, Writable) # 0
    /\ sent + Clip(n, Writable) <= MaxSent
    /\ wlen' = Clip(n, Writable)
    /\ wat' = ring_head % RingSize
    /\ wdone' = 0
    /\ wpc' = "copy"
    /\ UNCHANGED <<ring, counters, wreg, reader, stream>>

WriteCopy ==
  /\ wpc = "copy"
  /\ wdone < wlen
  /\ ring' = [ring EXCEPT ![Slot(wat, wdone)] = sent + wdone]
  /\ wdone' = wdone + 1
  /\ UNCHANGED <<counters, wpc, wat, wlen, wreg, reader, stream>>

\* __sync_synchronize, then the load half of ring_head += len.
WriteLoad ==
  /\ wpc = "copy"
  /\ Copied
  /\ wreg' = ring_head
  /\ wpc' = "store"
  /\ UNCHANGED <<ring, counters, wat, wlen, wdone, reader, stream>>

\* The store half: from here on the bytes are published.
WriteStore ==
  /\ wpc = "store"
  /\ ring_head' = NextHead
  /\ sent' = sent + wlen
  /\ wpc' = "idle"
  /\ UNCHANGED <<ring, ring_tail, wat, wlen, wdone, wreg, reader, recvd, heard>>

-----------------------------------------------------------------------------
(* The audio thread: sdl_audio_callback's ring_read.  The device lock is     *)
(* held from ReadStart to ReadStore.                                         *)

ReadStart ==
  \E n \in 1 .. MaxLen :
    /\ rpc = "idle"
    /\ Readable # 0
    /\ rlen' = ReadLen(n)
    /\ rat' = ring_tail % RingSize
    /\ rbuf' = << >>
    /\ rpc' = "copy"
    /\ UNCHANGED <<ring, counters, writer, stream>>

ReadCopy ==
  /\ rpc = "copy"
  /\ Len(rbuf) < rlen
  /\ rbuf' = Append(rbuf, ring[Slot(rat, Len(rbuf))])
  /\ UNCHANGED <<ring, counters, writer, rpc, rat, rlen, stream>>

\* __sync_synchronize and ring_tail += len: nobody else moves ring_tail while
\* the device lock is held, so its load and store are one step.
ReadStore ==
  /\ rpc = "copy"
  /\ Len(rbuf) = rlen
  /\ ring_tail' = (ring_tail + rlen) % Word
  /\ recvd' = recvd + rlen
  /\ heard' = rbuf
  /\ rpc' = "idle"
  /\ UNCHANGED <<ring, ring_head, writer, rat, rlen, rbuf, sent>>

-----------------------------------------------------------------------------
\* SetPlayState(STOPPED), Clear and the recycling of a player: both counters go
\* back to zero under the device lock, which keeps the audio callback out but
\* not a writer.
Flush ==
  /\ rpc = "idle"
  /\ CrossThreadFlush \/ wpc = "idle"
  /\ ring_head' = 0
  /\ ring_tail' = 0
  /\ recvd' = sent
  /\ UNCHANGED <<ring, writer, reader, sent, heard>>

Next ==
  \/ WriteStart \/ WriteCopy \/ WriteLoad \/ WriteStore
  \/ ReadStart \/ ReadCopy \/ ReadStore
  \/ Flush

Spec == Init /\ [][Next]_vars

-----------------------------------------------------------------------------
(* Properties.                                                               *)

Byte == Nat \cup {Unwritten}

\* The type of the ring's state: counters stay inside the 32-bit word, slots
\* hold stream positions, and the copy loops stay inside their lengths.
TypeOK ==
  /\ ring \in [Slots -> Byte]
  /\ ring_head \in 0 .. Word - 1 /\ ring_tail \in 0 .. Word - 1
  /\ wpc \in {"idle", "copy", "store"}
  /\ wat \in Slots /\ wlen \in 0 .. Word - 1 /\ wdone \in Nat /\ wreg \in 0 .. Word - 1
  /\ rpc \in {"idle", "copy"}
  /\ rat \in Slots /\ rlen \in 0 .. Word - 1 /\ rbuf \in Seq(Byte)
  /\ sent \in Nat /\ recvd \in Nat /\ heard \in Seq(Byte)

Pending == sent - recvd

\* The two counters, wherever they stand in the word, are apart by exactly the
\* accepted and unheard bytes, and these never exceed the ring.
CountersAgree ==
  /\ Pending \in 0 .. RingSize
  /\ ring_head = (ring_tail + Pending) % Word

\* Every pending slot, and every slot the writer has filled so far, holds the
\* byte that belongs there: neither the writer's wrapped copy nor a flush
\* disturbs a byte the audio thread has still to read.
FilledByWriter == IF wpc = "idle" THEN 0 ELSE wdone
SlotsHold ==
  \A k \in 0 .. Pending + FilledByWriter - 1 :
    ring[Slot(ring_tail % RingSize, k)] = recvd + k

\* What the game thread remembers of the ring between its steps is still true.
WriterLocal ==
  wpc # "idle" =>
    /\ wlen <= RingSize - Pending
    /\ wlen > 0
    /\ wat = ring_head % RingSize
    /\ wdone <= wlen
    /\ wpc = "store" => wdone = wlen /\ wreg = ring_head

\* The chunk being copied for the mixer is, byte by byte, the oldest unheard
\* part of the stream, however the game thread interleaves with the copy.
ChunkInOrder ==
  rpc = "copy" =>
    \A i \in 1 .. Len(rbuf) : rbuf[i] = recvd + i - 1

\* What the audio thread remembers of the ring between its steps is still true.
ReaderLocal ==
  rpc = "copy" =>
    /\ rlen <= Pending
    /\ rlen > 0
    /\ rat = ring_tail % RingSize
    /\ Len(rbuf) <= rlen

\* The inductive invariant of the ring.
RingInv ==
  /\ TypeOK /\ CountersAgree /\ SlotsHold
  /\ WriterLocal /\ ChunkInOrder /\ ReaderLocal

\* The slot the game thread writes next never holds a byte the audio thread
\* has still to read (the copy in progress included).
WriterKeepsOffUnread ==
  wpc = "copy" /\ wdone < wlen =>
    \A k \in 0 .. Pending - 1 : Slot(ring_tail % RingSize, k) # Slot(wat, wdone)

\* src/opensles_shim.c:472 resets a player without clearing its ring because
\* "The ring head/tail tracking ensures we never read unwritten data": no byte
\* given to the mixer is a leftover, heard or discarded before this chunk.
NeverReadsLeftovers ==
  rpc = "copy" => \A i \in 1 .. Len(rbuf) : rbuf[i] >= recvd

\* The ring implements the bounded byte stream: each step accepts, delivers or
\* discards bytes as ByteStream allows, or changes nothing the stream shows.
Stream == INSTANCE ByteStream WITH Capacity <- RingSize
RefinesByteStream == Stream!Spec
=============================================================================
