---------------------------- MODULE BufferLedger ----------------------------
(* The account of enqueued buffers of one AudioPlayer                        *)
(* (src/opensles_shim.c): queue_push, called by Enqueue on the game thread   *)
(* after ring_write has published the bytes, and queue_consume, called by    *)
(* the audio callback after ring_read.  BufferQueue's GetState reports its   *)
(* count, and the pump takes a count of zero for "everything was played".    *)
(*                                                                           *)
(* The ring itself is SpscRing; here it is the number of its readable bytes. *)
(* `queued_count++' and `queued_count--' are a load and a store.             *)
EXTENDS Integers, Sequences, FiniteSets

CONSTANTS Cap,          \* length of queued_sizes[], 64 in the code
          IndexWord,    \* 2^32, the word of the free-running indexes
          RingBytes,    \* RING_BUFFER_SIZE
          MaxSize,      \* longest Enqueue
          MaxRead,      \* most bytes one audio callback takes
          FlushInEnqueue \* may another thread stop or clear inside an Enqueue?

ASSUME LedgerAssumption ==
  /\ Cap \in Nat \ {0, 1}
  /\ \E k \in 2 .. IndexWord : IndexWord = Cap * k
  /\ RingBytes \in 1 .. IndexWord - 1
  /\ MaxSize \in Nat \ {0} /\ MaxRead \in Nat \ {0}
  /\ FlushInEnqueue \in BOOLEAN

VARIABLES
  queued_sizes, queued_head_index, queued_tail_index, queued_count,
  queued_front_offset,
  readable,             \* ring_readable(p)
  ppc, psize, preg,     \* Enqueue: next step, bytes written, a loaded operand
  apc, abytes, areg,    \* queue_consume: next step, bytes left, loaded count
  due,                  \* history: for each unfinished buffer, oldest first, the
                        \* bytes still to be heard until its end
  raced                 \* history: since the table was last emptied together with
                        \* the ring, has an audio callback or a reset overlapped
                        \* an Enqueue, or a reset left bytes in the ring?

ledger == <<queued_sizes, queued_head_index, queued_tail_index, queued_count,
            queued_front_offset>>
producer == <<ppc, psize, preg>>
mixer == <<apc, abytes, areg>>
history == <<due, raced>>
ledgerVars == <<ledger, readable, producer, mixer, history>>

Entries == 0 .. Cap - 1
Fitting(len, limit) == IF len > limit THEN limit ELSE len

LedgerInit ==
  /\ queued_sizes = [e \in Entries |-> 0]
  /\ queued_head_index = 0 /\ queued_tail_index = 0 /\ queued_count = 0
  /\ queued_front_offset = 0
  /\ readable = 0
  /\ ppc = "idle" /\ psize = 0 /\ preg = 0
  /\ apc = "idle" /\ abytes = 0 /\ areg = 0
  /\ due = << >> /\ raced = FALSE

-----------------------------------------------------------------------------
(* The game thread: bq_Enqueue.                                              *)

\* The history takes a buffer in that ends `end' bytes on: a new one, or more of
\* the newest when the table of sizes is full.
TakenIn(list, end) ==
  IF Len(list) >= Cap THEN [list EXCEPT ![Len(list)] = end] ELSE Append(list, end)

\* ring_write publishes what fits.
Publish ==
  \E n \in 1 .. MaxSize :
    /\ ppc = "idle"
    /\ Fitting(n, RingBytes - readable) # 0
    /\ psize' = Fitting(n, RingBytes - readable)
    /\ readable' = readable + psize'
    /\ due' = TakenIn(due, readable')
    /\ raced' = (raced \/ apc # "idle")
    /\ ppc' = "push"
    /\ UNCHANGED <<ledger, preg, mixer>>

\* Mutation: the entry past the newest is taken for the newest.
NewestPast == queued_tail_index % Cap

TableFull == queued_count >= Cap

\* queue_push with a full table: the size is added to the newest entry.
Newest == (queued_tail_index - 1) % Cap

MergeLoad ==
  /\ ppc = "push"
  /\ TableFull
  /\ preg' = queued_sizes[Newest]
  /\ ppc' = "merge"
  /\ UNCHANGED <<ledger, readable, psize, mixer, history>>

MergeStore ==
  /\ ppc = "merge"
  /\ queued_sizes' = [queued_sizes EXCEPT ![Newest] = (preg + psize) % IndexWord]
  /\ ppc' = "idle"
  /\ UNCHANGED <<queued_head_index, queued_tail_index, queued_count,
                 queued_front_offset, readable, psize, preg, mixer, history>>

\* queue_push with room: fill the entry, advance the index, load the count.
PushEntry ==
  /\ ppc = "push"
  /\ ~TableFull
  /\ queued_sizes' = [queued_sizes EXCEPT ![queued_tail_index % Cap] = psize]
  /\ queued_tail_index' = (queued_tail_index + 1) % IndexWord
  /\ preg' = queued_count
  /\ ppc' = "count"
  /\ UNCHANGED <<queued_head_index, queued_count, queued_front_offset,
                 readable, psize, mixer, history>>

PushCount ==
  /\ ppc = "count"
  /\ queued_count' = (preg + 1) % IndexWord
  /\ ppc' = "idle"
  /\ UNCHANGED <<queued_sizes, queued_head_index, queued_tail_index,
                 queued_front_offset, readable, psize, preg, mixer, history>>

-----------------------------------------------------------------------------
(* The audio thread: sdl_audio_callback, under the device lock.              *)

\* How many of the buffers end within the next n bytes.
Finished(n) == Cardinality({i \in 1 .. Len(due) : due[i] <= n})

\* ring_read takes what there is; the history drops the buffers it finishes.
Mix ==
  \E n \in 1 .. MaxRead :
    /\ apc = "idle"
    /\ Fitting(n, readable) # 0
    /\ abytes' = Fitting(n, readable)
    /\ readable' = readable - abytes'
    /\ due' = [i \in 1 .. Len(due) - Finished(abytes') |->
                  due[Finished(abytes') + i] - abytes']
    /\ raced' = (raced \/ ppc # "idle")
    /\ apc' = "consume"
    /\ UNCHANGED <<ledger, producer, areg>>

\* The loop of queue_consume ends when the bytes or the entries run out.
ConsumeEnd ==
  /\ apc = "consume"
  /\ abytes = 0 \/ queued_count = 0
  /\ apc' = "idle"
  /\ UNCHANGED <<ledger, readable, producer, abytes, areg, history>>

Oldest == queued_head_index % Cap
Remaining == (queued_sizes[Oldest] - queued_front_offset) % IndexWord

\* The oldest buffer is played in part.
ConsumePart ==
  /\ apc = "consume"
  /\ abytes > 0 /\ queued_count > 0
  /\ abytes < Remaining
  /\ queued_front_offset' = (queued_front_offset + abytes) % IndexWord
  /\ apc' = "idle"
  /\ UNCHANGED <<queued_sizes, queued_head_index, queued_tail_index,
                 queued_count, readable, producer, abytes, areg, history>>

\* The oldest buffer is played out: clear its entry, advance, load the count.
ConsumeWhole ==
  /\ apc = "consume"
  /\ abytes > 0 /\ queued_count > 0
  /\ abytes >= Remaining
  /\ abytes' = abytes - Remaining
  /\ queued_sizes' = [queued_sizes EXCEPT ![Oldest] = 0]
  /\ queued_head_index' = (queued_head_index + 1) % IndexWord
  /\ areg' = queued_count
  /\ apc' = "count"
  /\ UNCHANGED <<queued_tail_index, queued_count, queued_front_offset,
                 readable, producer, history>>

\* Mutation: the decrement is lost.
CountDownLost == areg
CountDown == (areg - 1) % IndexWord

ConsumeCount ==
  /\ apc = "count"
  /\ queued_count' = CountDown
  /\ queued_front_offset' = 0
  /\ apc' = "consume"
  /\ UNCHANGED <<queued_sizes, queued_head_index, queued_tail_index,
                 readable, producer, abytes, areg, history>>

-----------------------------------------------------------------------------
\* queue_reset, always under the device lock and so never inside a callback.
Reset ==
  /\ apc = "idle"
  /\ queued_sizes' = [e \in Entries |-> 0]
  /\ queued_head_index' = 0 /\ queued_tail_index' = 0 /\ queued_count' = 0
  /\ queued_front_offset' = 0
  /\ UNCHANGED <<producer, mixer>>

\* SetPlayState(STOPPED) and Clear empty the ring as well.
LedgerFlush ==
  /\ ppc = "idle" \/ FlushInEnqueue
  /\ Reset
  /\ readable' = 0
  /\ due' = << >> /\ raced' = (ppc # "idle")

\* The pump, stopping the player after HEADATEND, does not: what the callback
\* or the game thread has enqueued since the pump's test stays in the ring.
PumpReset ==
  /\ Reset
  /\ raced' = (ppc # "idle" \/ readable > 0)
  /\ UNCHANGED <<readable, due>>

Consume == ConsumeEnd \/ ConsumePart \/ ConsumeWhole \/ ConsumeCount

LedgerNext ==
  \/ Publish \/ MergeLoad \/ MergeStore \/ PushEntry \/ PushCount
  \/ Mix \/ Consume
  \/ LedgerFlush \/ PumpReset

\* A callback the audio thread has begun is run to its end.
Fairness == WF_ledgerVars(Consume)

LedgerSpec == LedgerInit /\ [][LedgerNext]_ledgerVars /\ Fairness

-----------------------------------------------------------------------------
(* Properties.                                                               *)

\* The type of the ledger.  However Enqueue and the audio callback overlap,
\* the count stays between zero and the table's length: the unguarded
\* decrement never takes it below zero.
LedgerTypeOK ==
  /\ queued_sizes \in [Entries -> 0 .. IndexWord - 1]
  /\ queued_head_index \in 0 .. IndexWord - 1 /\ queued_tail_index \in 0 .. IndexWord - 1
  /\ queued_count \in 0 .. Cap
  /\ queued_front_offset \in 0 .. IndexWord - 1
  /\ readable \in 0 .. RingBytes
  /\ ppc \in {"idle", "push", "merge", "count"}
  /\ psize \in 0 .. MaxSize /\ psize <= RingBytes
  /\ preg \in 0 .. IndexWord - 1
  /\ apc \in {"idle", "consume", "count"} /\ abytes \in 0 .. MaxRead
  /\ areg \in 0 .. Cap
  /\ due \in Seq(1 .. RingBytes) /\ raced \in BOOLEAN

Quiet == ppc = "idle" /\ apc = "idle"

\* Between calls the table is the list of unfinished buffers, oldest first:
\* GetState's count is their number, and the bytes each entry has left are
\* those the ring still holds of it, through wrapped indexes, merged buffers
\* and a partly played front.  It takes an audio callback or a reset inside an
\* Enqueue, or the pump's reset of a player that has been fed again, to spoil
\* it, and a reset with an empty ring to mend it.
LedgerExact ==
  Quiet /\ ~raced =>
    /\ queued_count = Len(due)
    /\ \A i \in 1 .. Len(due) :
         queued_sizes[(queued_head_index + i - 1) % Cap] =
           IF i = 1 THEN due[1] + queued_front_offset ELSE due[i] - due[i - 1]
    /\ readable = (IF due = << >> THEN 0 ELSE due[Len(due)])

\* The lists of buffers the table has room for, each by where it ends.
Lists == UNION {[1 .. n -> 1 .. RingBytes] : n \in 0 .. Cap}

\* Where a list of buffers ends.
End(list) == IF list = << >> THEN 0 ELSE list[Len(list)]

\* The buffers to be heard end one after the other, the newest with the ring.
DueInOrder ==
  /\ Len(due) <= Cap /\ readable = End(due)
  /\ \A i, j \in 1 .. Len(due) : i < j => due[i] < due[j]

\* What the two threads have loaded, and that they overlap only if noted.
Registers ==
  /\ ppc \in {"push", "merge"} => psize > 0
  /\ ppc = "count" => preg < Cap
  /\ apc = "count" => areg > 0
  /\ ppc # "idle" /\ apc # "idle" => raced

\* The table has the buffers of `list', the oldest played up to `offset'.
Tables(list, offset) ==
  /\ queued_tail_index = (queued_head_index + Len(list)) % IndexWord
  /\ \A i \in 1 .. Len(list) :
       queued_sizes[(queued_head_index + i - 1) % Cap] =
         IF i = 1 THEN list[1] + offset ELSE list[i] - list[i - 1]
  /\ \A i, j \in 1 .. Len(list) : i < j => list[i] < list[j]
  /\ IF list = << >> THEN offset = 0 ELSE list[1] + offset <= RingBytes

\* Of the buffers of `list' the next n bytes leave `rest'.
Leaves(list, n, rest) ==
  LET gone == Len(list) - Len(rest) IN
    /\ n <= End(list) /\ gone >= 0
    /\ \A i \in 1 .. gone : list[i] <= n
    /\ \A i \in 1 .. Len(rest) : list[gone + i] = rest[i] + n

\* What the table has, at every step of an Enqueue and of an audio callback, as
\* long as neither the two nor a reset have spoiled it.
TableKnown ==
  ~raced =>
    \E list \in Lists :
      /\ Tables(list, IF apc = "count" THEN 0 ELSE queued_front_offset)
      /\ Quiet => list = due /\ queued_count = Len(list)
      /\ ppc \in {"push", "merge"} =>
           /\ queued_count = Len(list) /\ readable = End(list) + psize
           /\ due = TakenIn(list, readable)
      /\ ppc = "merge" => queued_count = Cap /\ preg = queued_sizes[Newest]
      /\ ppc = "count" => list = due /\ queued_count = Len(list) - 1 /\ preg = queued_count
      /\ apc = "consume" => queued_count = Len(list) /\ Leaves(list, abytes, due)
      /\ apc = "count" =>
           queued_count = Len(list) + 1 /\ areg = queued_count /\ Leaves(list, abytes, due)

\* The ledger, at any time: in its types, known step by step and, when it is to
\* be, exact; the inductive invariant of the proofs.
LedgerInv == LedgerTypeOK /\ DueInOrder /\ Registers /\ TableKnown /\ LedgerExact

\* An audio callback always gets out of queue_consume, whatever the game
\* thread does to the count and the sizes meanwhile.
ConsumeReturns == apc # "idle" ~> apc = "idle"

\* What the pump's end-of-stream test reads into the count (lines 1083-1084): with
\* no call in progress and no bytes in the ring, no buffer is outstanding.
DrainedMeansNoBuffers == Quiet /\ readable = 0 => queued_count = 0
=============================================================================
