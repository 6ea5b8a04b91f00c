----------------------- MODULE PlayerLifecycle_proofs -----------------------
(* Proofs about PlayerLifecycle, for any ring, tracks, buffers and number of *)
(* calls: the inductive invariant PlayerInv, and that the pump silences no   *)
(* player that has audio to play.                                            *)
EXTENDS PlayerLifecycle, TLAPS

(* TypeOK, by kind of variable.                                              *)

FlagsType ==
  /\ callback \in BOOLEAN /\ listens \in BOOLEAN /\ spoiled \in BOOLEAN
  /\ ever_enqueued \in BOOLEAN /\ decoder_done \in BOOLEAN /\ headatend_fired \in BOOLEAN
  /\ fed \in BOOLEAN
  /\ ended \in BOOLEAN /\ cleared \in BOOLEAN /\ miscounted \in BOOLEAN /\ crossed \in BOOLEAN

CountsType ==
  /\ play_state \in {"STOPPED", "PAUSED", "PLAYING"}
  /\ readable \in 0 .. RingSize
  /\ enqueuer \in {"none", "game", "pump"} /\ written \in 0 .. RingSize
  /\ last_enqueue_size \in 0 .. RingSize /\ enqueue_counter \in Nat
  /\ pc \in {"idle", "refill", "callback", "returned", "compare", "done", "drain", "drained",
             "headatend", "ring", "fire", "call", "event", "stop"}
  /\ seen \in 0 .. RingSize /\ refill \in 0 .. RingSize \div 2
  /\ before \in Nat /\ left \in 0 .. 4
  /\ pc \in {"callback", "returned", "compare"} => left > 0
  /\ source \in 0 .. MaxTrack /\ budget \in 0 .. MaxCalls

\* The flags and the numbers together are the type of the state.
LEMMA TypeParts == TypeOK <=> FlagsType /\ CountsType
  BY DEF TypeOK, FlagsType, CountsType

\* So is what an emptied queue leaves behind.
LEMMA EmptiedType == Emptied => spoiled' \in BOOLEAN /\ miscounted' \in BOOLEAN /\ crossed' \in BOOLEAN
  <1>1. (enqueuer # "none") \in BOOLEAN /\ (pc \in Deciding) \in BOOLEAN /\ FALSE \in BOOLEAN
    OBVIOUS
  <1> QED BY <1>1, Zenon DEF Emptied

-----------------------------------------------------------------------------
(* Every action preserves the invariant.                                     *)

\* A player begins stopped and empty.
LEMMA PlayerInitInv == Init => PlayerInv
  <1>1. ASSUME Init PROVE FlagsType
    BY <1>1, Zenon DEF Init, FlagsType
  <1>2. ASSUME Init PROVE CountsType
    BY <1>2, PlayerAssumption DEF Init, CountsType
  <1> QED
    BY <1>1, <1>2, TypeParts
    DEF Init, PlayerInv, EnqueuerKnown, CallbackCounts, DoneMeansEnqueued,
        NothingAfterEnd,
        HeadAtEndMeansFinished

\* A track is loaded.
LEMMA GuestLoadInv ==
  ASSUME PlayerInv, GuestLoad
  PROVE  PlayerInv'
  <1> USE DEF PlayerInv
  <1>1. TypeOK'
    <2>1. FlagsType'
      BY TypeParts, EmptiedType, Zenon DEF GuestLoad, Clear, wiring, FlagsType
    <2>2. CountsType'
      BY TypeParts, PlayerAssumption
      DEF GuestLoad, MayCall, Spend, Clear, Emptied, pump, CountsType
    <2> QED BY <2>1, <2>2 DEF FlagsType, CountsType, TypeOK
  <1>2. EnqueuerKnown'
    BY PlayerAssumption
    DEF GuestLoad, pump, MayCall, Clear, Emptied, EnqueuerKnown, InCallback, TypeOK
  <1>3. CallbackCounts'
    BY PlayerAssumption
    DEF GuestLoad, MayCall, Clear, Emptied, pump, wiring, CallbackCounts, EnqueuerKnown,
        NothingAfterEnd, InCallback, TypeOK
  <1>4. DoneMeansEnqueued'
    BY PlayerAssumption
    DEF GuestLoad, MayCall, Clear, Emptied, Deciding, pump, wiring, DoneMeansEnqueued,
        EnqueuerKnown, CallbackCounts, NothingAfterEnd, InCallback, TypeOK
  <1>5. NothingAfterEnd'
    BY PlayerAssumption
    DEF GuestLoad, MayCall, Clear, Emptied, pump, wiring, NothingAfterEnd, EnqueuerKnown,
        CallbackCounts, InCallback, TypeOK
  <1>6. HeadAtEndMeansFinished'
    BY PlayerAssumption
    DEF GuestLoad, MayCall, Clear, Emptied, Deciding, pump, wiring,
        HeadAtEndMeansFinished, DoneMeansEnqueued, TypeOK
  <1> QED BY <1>1, <1>2, <1>3, <1>4, <1>5, <1>6

\* A buffer is enqueued other than from the buffer callback.
LEMMA GuestFeedInv ==
  ASSUME PlayerInv, GuestFeed
  PROVE  PlayerInv'
  <1> USE DEF PlayerInv
  <1>1. TypeOK'
    <2>1. FlagsType'
      BY TypeParts, Zenon DEF GuestFeed, Write, Smaller, flags, wiring, history, FlagsType
    <2>2. CountsType'
      BY TypeParts, PlayerAssumption DEF GuestFeed, Write, Smaller, pump, CountsType
    <2> QED BY <2>1, <2>2 DEF FlagsType, CountsType, TypeOK
  <1>2. EnqueuerKnown'
    BY PlayerAssumption
    DEF GuestFeed, Write, Smaller, pump, wiring, EnqueuerKnown, InCallback, TypeOK
  <1>3. CallbackCounts'
    BY PlayerAssumption
    DEF GuestFeed, Write, Smaller, pump, wiring, history, CallbackCounts, EnqueuerKnown,
        NothingAfterEnd, InCallback, TypeOK
  <1>4. DoneMeansEnqueued'
    BY PlayerAssumption
    DEF GuestFeed, Write, Smaller, flags, pump, wiring, history, DoneMeansEnqueued,
        EnqueuerKnown, CallbackCounts, NothingAfterEnd, InCallback, TypeOK
  <1>5. NothingAfterEnd'
    BY PlayerAssumption
    DEF GuestFeed, Write, Smaller, pump, wiring, history, NothingAfterEnd, EnqueuerKnown,
        CallbackCounts, InCallback, TypeOK
  <1>6. HeadAtEndMeansFinished'
    BY PlayerAssumption
    DEF GuestFeed, Write, Smaller, flags, pump, wiring, history, HeadAtEndMeansFinished,
        DoneMeansEnqueued, TypeOK
  <1> QED BY <1>1, <1>2, <1>3, <1>4, <1>5, <1>6

\* The player plays, or goes on.
LEMMA GuestPlayInv ==
  ASSUME PlayerInv, GuestPlay
  PROVE  PlayerInv'
  <1> USE DEF PlayerInv
  <1>1. TypeOK'
    <2>1. FlagsType'
      BY TypeParts, Zenon
      DEF GuestPlay, MayCall, SetPlayState, queue, flags, wiring, guest, FlagsType
    <2>2. CountsType'
      BY TypeParts, PlayerAssumption
      DEF GuestPlay, MayCall, SetPlayState, queue, pump, guest, CountsType
    <2> QED BY <2>1, <2>2 DEF FlagsType, CountsType, TypeOK
  <1>2. EnqueuerKnown'
    BY PlayerAssumption
    DEF GuestPlay, pump, MayCall, SetPlayState, queue, EnqueuerKnown, InCallback, TypeOK
  <1>3. CallbackCounts'
    BY PlayerAssumption
    DEF GuestPlay, MayCall, SetPlayState, queue, pump, wiring, guest, CallbackCounts,
        EnqueuerKnown, NothingAfterEnd, InCallback, TypeOK
  <1>4. DoneMeansEnqueued'
    BY PlayerAssumption
    DEF GuestPlay, MayCall, SetPlayState, queue, flags, pump, wiring, guest,
        DoneMeansEnqueued, EnqueuerKnown, CallbackCounts, NothingAfterEnd, InCallback,
        TypeOK
  <1>5. NothingAfterEnd'
    BY PlayerAssumption
    DEF GuestPlay, MayCall, SetPlayState, queue, pump, wiring, guest, NothingAfterEnd,
        EnqueuerKnown, CallbackCounts, InCallback, TypeOK
  <1>6. HeadAtEndMeansFinished'
    BY PlayerAssumption
    DEF GuestPlay, MayCall, SetPlayState, queue, flags, pump, wiring, guest,
        HeadAtEndMeansFinished, DoneMeansEnqueued, TypeOK
  <1> QED BY <1>1, <1>2, <1>3, <1>4, <1>5, <1>6

\* The player pauses.
LEMMA GuestPauseInv ==
  ASSUME PlayerInv, GuestPause
  PROVE  PlayerInv'
  <1> USE DEF PlayerInv
  <1>1. TypeOK'
    <2>1. FlagsType'
      BY TypeParts, Zenon
      DEF GuestPause, MayCall, SetPlayState, queue, flags, wiring, FlagsType
    <2>2. CountsType'
      BY TypeParts, PlayerAssumption
      DEF GuestPause, MayCall, Spend, SetPlayState, queue, pump, CountsType
    <2> QED BY <2>1, <2>2 DEF FlagsType, CountsType, TypeOK
  <1>2. EnqueuerKnown'
    BY PlayerAssumption
    DEF GuestPause, pump, MayCall, SetPlayState, queue, EnqueuerKnown, InCallback, TypeOK
  <1>3. CallbackCounts'
    BY PlayerAssumption
    DEF GuestPause, MayCall, SetPlayState, queue, pump, wiring, CallbackCounts,
        EnqueuerKnown, NothingAfterEnd, InCallback, TypeOK
  <1>4. DoneMeansEnqueued'
    BY PlayerAssumption
    DEF GuestPause, MayCall, SetPlayState, queue, flags, pump, wiring, DoneMeansEnqueued,
        EnqueuerKnown, CallbackCounts, NothingAfterEnd, InCallback, TypeOK
  <1>5. NothingAfterEnd'
    BY PlayerAssumption
    DEF GuestPause, MayCall, SetPlayState, queue, pump, wiring, NothingAfterEnd,
        EnqueuerKnown, CallbackCounts, InCallback, TypeOK
  <1>6. HeadAtEndMeansFinished'
    BY PlayerAssumption
    DEF GuestPause, MayCall, SetPlayState, queue, flags, pump, wiring,
        HeadAtEndMeansFinished, DoneMeansEnqueued, TypeOK
  <1> QED BY <1>1, <1>2, <1>3, <1>4, <1>5, <1>6

\* The guest gives its track up.
LEMMA GuestStopInv ==
  ASSUME PlayerInv, GuestStop
  PROVE  PlayerInv'
  <1> USE DEF PlayerInv
  <1>1. TypeOK'
    <2>1. FlagsType'
      BY TypeParts, EmptiedType, Zenon
      DEF GuestStop, SetPlayState, queue, flags, wiring, FlagsType
    <2>2. CountsType'
      BY TypeParts, PlayerAssumption
      DEF GuestStop, MayCall, Spend, SetPlayState, Emptied, queue, pump, CountsType
    <2> QED BY <2>1, <2>2 DEF FlagsType, CountsType, TypeOK
  <1>2. EnqueuerKnown'
    BY PlayerAssumption
    DEF GuestStop, pump, MayCall, SetPlayState, Emptied, queue, EnqueuerKnown, InCallback,
        TypeOK
  <1>3. CallbackCounts'
    BY PlayerAssumption
    DEF GuestStop, MayCall, SetPlayState, Emptied, queue, pump, wiring, CallbackCounts,
        EnqueuerKnown, NothingAfterEnd, InCallback, TypeOK
  <1>4. DoneMeansEnqueued'
    BY PlayerAssumption
    DEF GuestStop, MayCall, SetPlayState, Emptied, Deciding, queue, flags, pump, wiring,
        DoneMeansEnqueued, EnqueuerKnown, CallbackCounts, NothingAfterEnd, InCallback,
        TypeOK
  <1>5. NothingAfterEnd'
    BY PlayerAssumption
    DEF GuestStop, MayCall, SetPlayState, Emptied, queue, pump, wiring, NothingAfterEnd,
        EnqueuerKnown, CallbackCounts, InCallback, TypeOK
  <1>6. HeadAtEndMeansFinished'
    BY PlayerAssumption
    DEF GuestStop, MayCall, SetPlayState, Emptied, Deciding, queue, flags, pump, wiring,
        HeadAtEndMeansFinished, DoneMeansEnqueued, TypeOK
  <1> QED BY <1>1, <1>2, <1>3, <1>4, <1>5, <1>6

\* The guest jumps inside its track.
LEMMA GuestSeekInv ==
  ASSUME PlayerInv, GuestSeek
  PROVE  PlayerInv'
  <1> USE DEF PlayerInv
  <1>1. TypeOK'
    <2>1. FlagsType'
      BY TypeParts, EmptiedType, Zenon DEF GuestSeek, Clear, wiring, FlagsType
    <2>2. CountsType'
      BY TypeParts, PlayerAssumption
      DEF GuestSeek, MayCall, Spend, Clear, Emptied, pump, CountsType
    <2> QED BY <2>1, <2>2 DEF FlagsType, CountsType, TypeOK
  <1>2. EnqueuerKnown'
    BY PlayerAssumption
    DEF GuestSeek, pump, MayCall, Clear, Emptied, EnqueuerKnown, InCallback, TypeOK
  <1>3. CallbackCounts'
    BY PlayerAssumption
    DEF GuestSeek, MayCall, Clear, Emptied, pump, wiring, CallbackCounts, EnqueuerKnown,
        NothingAfterEnd, InCallback, TypeOK
  <1>4. DoneMeansEnqueued'
    BY PlayerAssumption
    DEF GuestSeek, MayCall, Clear, Emptied, Deciding, pump, wiring, DoneMeansEnqueued,
        EnqueuerKnown, CallbackCounts, NothingAfterEnd, InCallback, TypeOK
  <1>5. NothingAfterEnd'
    BY PlayerAssumption
    DEF GuestSeek, MayCall, Clear, Emptied, pump, wiring, NothingAfterEnd, EnqueuerKnown,
        CallbackCounts, InCallback, TypeOK
  <1>6. HeadAtEndMeansFinished'
    BY PlayerAssumption
    DEF GuestSeek, MayCall, Clear, Emptied, Deciding, pump, wiring,
        HeadAtEndMeansFinished, DoneMeansEnqueued, TypeOK
  <1> QED BY <1>1, <1>2, <1>3, <1>4, <1>5, <1>6

\* An Enqueue is counted.
LEMMA EnqueueCountInv ==
  ASSUME PlayerInv, EnqueueCount
  PROVE  PlayerInv'
  <1> USE DEF PlayerInv
  <1>1. TypeOK'
    <2>1. FlagsType'
      BY TypeParts, Zenon DEF EnqueueCount, wiring, guest, history, FlagsType
    <2>2. CountsType'
      BY TypeParts, PlayerAssumption DEF EnqueueCount, pump, guest, CountsType
    <2> QED BY <2>1, <2>2 DEF FlagsType, CountsType, TypeOK
  <1>2. EnqueuerKnown'
    BY PlayerAssumption DEF EnqueueCount, pump, wiring, EnqueuerKnown, InCallback, TypeOK
  <1>3. CallbackCounts'
    BY PlayerAssumption
    DEF EnqueueCount, pump, wiring, guest, history, CallbackCounts, EnqueuerKnown,
        NothingAfterEnd, InCallback, TypeOK
  <1>4. DoneMeansEnqueued'
    BY PlayerAssumption
    DEF EnqueueCount, pump, wiring, guest, history, DoneMeansEnqueued, EnqueuerKnown,
        CallbackCounts, NothingAfterEnd, InCallback, TypeOK
  <1>5. NothingAfterEnd'
    BY PlayerAssumption
    DEF EnqueueCount, pump, wiring, guest, history, NothingAfterEnd, EnqueuerKnown,
        CallbackCounts, InCallback, TypeOK
  <1>6. HeadAtEndMeansFinished'
    BY PlayerAssumption
    DEF EnqueueCount, pump, wiring, guest, history, HeadAtEndMeansFinished,
        DoneMeansEnqueued, TypeOK
  <1> QED BY <1>1, <1>2, <1>3, <1>4, <1>5, <1>6

\* Audio is mixed.
LEMMA MixInv ==
  ASSUME PlayerInv, Mix
  PROVE  PlayerInv'
  <1> USE DEF PlayerInv
  <1>1. TypeOK'
    <2>1. FlagsType'
      BY TypeParts, Zenon DEF Mix, flags, wiring, guest, history, FlagsType
    <2>2. CountsType'
      BY TypeParts, PlayerAssumption DEF Mix, pump, guest, CountsType
    <2> QED BY <2>1, <2>2 DEF FlagsType, CountsType, TypeOK
  <1>2. EnqueuerKnown'
    BY PlayerAssumption DEF Mix, pump, wiring, EnqueuerKnown, InCallback, TypeOK
  <1>3. CallbackCounts'
    BY PlayerAssumption
    DEF Mix, pump, wiring, guest, history, CallbackCounts, EnqueuerKnown, NothingAfterEnd,
        InCallback, TypeOK
  <1>4. DoneMeansEnqueued'
    BY PlayerAssumption
    DEF Mix, flags, pump, wiring, guest, history, DoneMeansEnqueued, EnqueuerKnown,
        CallbackCounts, NothingAfterEnd, InCallback, TypeOK
  <1>5. NothingAfterEnd'
    BY PlayerAssumption
    DEF Mix, pump, wiring, guest, history, NothingAfterEnd, EnqueuerKnown, CallbackCounts,
        InCallback, TypeOK
  <1>6. HeadAtEndMeansFinished'
    BY PlayerAssumption
    DEF Mix, flags, pump, wiring, guest, history, HeadAtEndMeansFinished,
        DoneMeansEnqueued, TypeOK
  <1> QED BY <1>1, <1>2, <1>3, <1>4, <1>5, <1>6

\* The pump begins with a playing player.
LEMMA PumpEnterInv ==
  ASSUME PlayerInv, PumpEnter
  PROVE  PlayerInv'
  <1> USE DEF PlayerInv
  <1>1. TypeOK'
    <2>1. FlagsType'
      BY TypeParts, Zenon
      DEF PumpEnter, RefillThreshold, Smaller, queue, flags, wiring, guest, FlagsType
    <2>2. CountsType'
      BY TypeParts, PlayerAssumption
      DEF PumpEnter, RefillThreshold, Smaller, queue, guest, CountsType
    <2> QED BY <2>1, <2>2 DEF FlagsType, CountsType, TypeOK
  <1>2. EnqueuerKnown'
    BY PlayerAssumption
    DEF PumpEnter, RefillThreshold, Smaller, queue, wiring, EnqueuerKnown, InCallback,
        TypeOK
  <1>3. CallbackCounts'
    BY PlayerAssumption
    DEF PumpEnter, RefillThreshold, Smaller, queue, wiring, guest, CallbackCounts,
        EnqueuerKnown, NothingAfterEnd, InCallback, TypeOK
  <1>4. DoneMeansEnqueued'
    BY PlayerAssumption
    DEF PumpEnter, RefillThreshold, Smaller, queue, flags, wiring, guest,
        DoneMeansEnqueued, EnqueuerKnown, CallbackCounts, NothingAfterEnd, InCallback,
        TypeOK
  <1>5. NothingAfterEnd'
    BY PlayerAssumption
    DEF PumpEnter, RefillThreshold, Smaller, queue, wiring, guest, NothingAfterEnd,
        EnqueuerKnown, CallbackCounts, InCallback, TypeOK
  <1>6. HeadAtEndMeansFinished'
    BY PlayerAssumption
    DEF PumpEnter, RefillThreshold, Smaller, queue, flags, wiring, guest,
        HeadAtEndMeansFinished, DoneMeansEnqueued, TypeOK
  <1> QED BY <1>1, <1>2, <1>3, <1>4, <1>5, <1>6

\* The pump calls the guest's buffer callback.
LEMMA PumpCallInv ==
  ASSUME PlayerInv, PumpCall
  PROVE  PlayerInv'
  <1> USE DEF PlayerInv
  <1>1. TypeOK'
    <2>1. FlagsType'
      BY TypeParts, Zenon
      DEF PumpCall, WantsData, queue, flags, wiring, history, FlagsType
    <2>2. CountsType'
      BY TypeParts, PlayerAssumption DEF PumpCall, WantsData, queue, CountsType
    <2> QED BY <2>1, <2>2 DEF FlagsType, CountsType, TypeOK
  <1>2. EnqueuerKnown'
    BY PlayerAssumption
    DEF PumpCall, WantsData, queue, wiring, EnqueuerKnown, InCallback, TypeOK
  <1>3. CallbackCounts'
    BY PlayerAssumption
    DEF PumpCall, WantsData, queue, wiring, history, CallbackCounts, EnqueuerKnown,
        NothingAfterEnd, InCallback, TypeOK
  <1>4. DoneMeansEnqueued'
    BY PlayerAssumption
    DEF PumpCall, WantsData, queue, flags, wiring, history, DoneMeansEnqueued,
        EnqueuerKnown, CallbackCounts, NothingAfterEnd, InCallback, TypeOK
  <1>5. NothingAfterEnd'
    BY PlayerAssumption
    DEF PumpCall, WantsData, queue, wiring, history, NothingAfterEnd, EnqueuerKnown,
        CallbackCounts, InCallback, TypeOK
  <1>6. HeadAtEndMeansFinished'
    BY PlayerAssumption
    DEF PumpCall, WantsData, queue, flags, wiring, history, HeadAtEndMeansFinished,
        DoneMeansEnqueued, TypeOK
  <1> QED BY <1>1, <1>2, <1>3, <1>4, <1>5, <1>6

\* The callback enqueues a buffer.
LEMMA CallbackFeedInv ==
  ASSUME PlayerInv, CallbackFeed
  PROVE  PlayerInv'
  <1> USE DEF PlayerInv
  <1>1. TypeOK'
    <2>1. FlagsType'
      BY TypeParts, Zenon
      DEF CallbackFeed, Write, Smaller, flags, wiring, history, FlagsType
    <2>2. CountsType'
      BY TypeParts, PlayerAssumption DEF CallbackFeed, Write, Smaller, pump, CountsType
    <2> QED BY <2>1, <2>2 DEF FlagsType, CountsType, TypeOK
  <1>2. EnqueuerKnown'
    BY PlayerAssumption
    DEF CallbackFeed, Write, Smaller, pump, wiring, EnqueuerKnown, InCallback, TypeOK
  <1>3. CallbackCounts'
    BY PlayerAssumption
    DEF CallbackFeed, Write, Smaller, pump, wiring, history, CallbackCounts,
        EnqueuerKnown, NothingAfterEnd, InCallback, TypeOK
  <1>4. DoneMeansEnqueued'
    BY PlayerAssumption
    DEF CallbackFeed, Write, Smaller, flags, pump, wiring, history, DoneMeansEnqueued,
        EnqueuerKnown, CallbackCounts, NothingAfterEnd, InCallback, TypeOK
  <1>5. NothingAfterEnd'
    BY PlayerAssumption
    DEF CallbackFeed, Write, Smaller, pump, wiring, history, NothingAfterEnd,
        EnqueuerKnown, CallbackCounts, InCallback, TypeOK
  <1>6. HeadAtEndMeansFinished'
    BY PlayerAssumption
    DEF CallbackFeed, Write, Smaller, flags, pump, wiring, history,
        HeadAtEndMeansFinished, DoneMeansEnqueued, TypeOK
  <1> QED BY <1>1, <1>2, <1>3, <1>4, <1>5, <1>6

\* The callback returns.
LEMMA CallbackReturnInv ==
  ASSUME PlayerInv, CallbackReturn
  PROVE  PlayerInv'
  <1> USE DEF PlayerInv
  <1>1. TypeOK'
    <2>1. FlagsType'
      BY TypeParts, Zenon
      DEF CallbackReturn, queue, flags, wiring, guest, history, FlagsType
    <2>2. CountsType'
      BY TypeParts, PlayerAssumption DEF CallbackReturn, queue, pump, guest, CountsType
    <2> QED BY <2>1, <2>2 DEF FlagsType, CountsType, TypeOK
  <1>2. EnqueuerKnown'
    BY PlayerAssumption
    DEF CallbackReturn, queue, pump, wiring, EnqueuerKnown, InCallback, TypeOK
  <1>3. CallbackCounts'
    BY PlayerAssumption
    DEF CallbackReturn, queue, pump, wiring, guest, history, CallbackCounts,
        EnqueuerKnown, NothingAfterEnd, InCallback, TypeOK
  <1>4. DoneMeansEnqueued'
    BY PlayerAssumption
    DEF CallbackReturn, queue, flags, pump, wiring, guest, history, DoneMeansEnqueued,
        EnqueuerKnown, CallbackCounts, NothingAfterEnd, InCallback, TypeOK
  <1>5. NothingAfterEnd'
    BY PlayerAssumption
    DEF CallbackReturn, queue, pump, wiring, guest, history, NothingAfterEnd,
        EnqueuerKnown, CallbackCounts, InCallback, TypeOK
  <1>6. HeadAtEndMeansFinished'
    BY PlayerAssumption
    DEF CallbackReturn, queue, flags, pump, wiring, guest, history,
        HeadAtEndMeansFinished, DoneMeansEnqueued, TypeOK
  <1> QED BY <1>1, <1>2, <1>3, <1>4, <1>5, <1>6

\* The pump looks at the flags.
LEMMA PumpCheckInv ==
  ASSUME PlayerInv, PumpCheck
  PROVE  PlayerInv'
  <1> USE DEF PlayerInv
  <1>1. TypeOK'
    <2>1. FlagsType'
      BY TypeParts, Zenon DEF PumpCheck, PumpAgain, queue, flags, wiring, guest, FlagsType
    <2>2. CountsType'
      BY TypeParts, PlayerAssumption DEF PumpCheck, PumpAgain, queue, guest, CountsType
    <2> QED BY <2>1, <2>2 DEF FlagsType, CountsType, TypeOK
  <1>2. EnqueuerKnown'
    BY PlayerAssumption
    DEF PumpCheck, PumpAgain, queue, wiring, EnqueuerKnown, InCallback, TypeOK
  <1>3. CallbackCounts'
    BY PlayerAssumption
    DEF PumpCheck, PumpAgain, queue, wiring, guest, CallbackCounts, EnqueuerKnown,
        NothingAfterEnd, InCallback, TypeOK
  <1>4. DoneMeansEnqueued'
    BY PlayerAssumption
    DEF PumpCheck, PumpAgain, queue, flags, wiring, guest, DoneMeansEnqueued,
        EnqueuerKnown, CallbackCounts, NothingAfterEnd, InCallback, TypeOK
  <1>5. NothingAfterEnd'
    BY PlayerAssumption
    DEF PumpCheck, PumpAgain, queue, wiring, guest, NothingAfterEnd, EnqueuerKnown,
        CallbackCounts, InCallback, TypeOK
  <1>6. HeadAtEndMeansFinished'
    BY PlayerAssumption
    DEF PumpCheck, PumpAgain, queue, flags, wiring, guest, HeadAtEndMeansFinished,
        DoneMeansEnqueued, TypeOK
  <1> QED BY <1>1, <1>2, <1>3, <1>4, <1>5, <1>6

\* The pump looks at the counter.
LEMMA PumpCompareInv ==
  ASSUME PlayerInv, PumpCompare
  PROVE  PlayerInv'
  <1> USE DEF PlayerInv
  <1>1. TypeOK'
    <2>1. FlagsType'
      BY TypeParts, Zenon
      DEF PumpCompare, PumpAgain, queue, flags, wiring, guest, FlagsType
    <2>2. CountsType'
      BY TypeParts, PlayerAssumption DEF PumpCompare, PumpAgain, queue, guest, CountsType
    <2> QED BY <2>1, <2>2 DEF FlagsType, CountsType, TypeOK
  <1>2. EnqueuerKnown'
    BY PlayerAssumption
    DEF PumpCompare, PumpAgain, queue, wiring, EnqueuerKnown, InCallback, TypeOK
  <1>3. CallbackCounts'
    BY PlayerAssumption
    DEF PumpCompare, PumpAgain, queue, wiring, guest, CallbackCounts, EnqueuerKnown,
        NothingAfterEnd, InCallback, TypeOK
  <1>4. DoneMeansEnqueued'
    BY PlayerAssumption
    DEF PumpCompare, PumpAgain, queue, flags, wiring, guest, DoneMeansEnqueued,
        EnqueuerKnown, CallbackCounts, NothingAfterEnd, InCallback, TypeOK
  <1>5. NothingAfterEnd'
    BY PlayerAssumption
    DEF PumpCompare, PumpAgain, queue, wiring, guest, NothingAfterEnd, EnqueuerKnown,
        CallbackCounts, InCallback, TypeOK
  <1>6. HeadAtEndMeansFinished'
    BY PlayerAssumption
    DEF PumpCompare, PumpAgain, queue, flags, wiring, guest, HeadAtEndMeansFinished,
        DoneMeansEnqueued, TypeOK
  <1> QED BY <1>1, <1>2, <1>3, <1>4, <1>5, <1>6

\* The pump has called back enough.
LEMMA PumpRefilledInv ==
  ASSUME PlayerInv, PumpRefilled
  PROVE  PlayerInv'
  <1> USE DEF PlayerInv
  <1>1. TypeOK'
    <2>1. FlagsType'
      BY TypeParts, Zenon
      DEF PumpRefilled, WantsData, queue, flags, wiring, guest, history, FlagsType
    <2>2. CountsType'
      BY TypeParts, PlayerAssumption DEF PumpRefilled, WantsData, queue, guest, CountsType
    <2> QED BY <2>1, <2>2 DEF FlagsType, CountsType, TypeOK
  <1>2. EnqueuerKnown'
    BY PlayerAssumption
    DEF PumpRefilled, WantsData, queue, wiring, EnqueuerKnown, InCallback, TypeOK
  <1>3. CallbackCounts'
    BY PlayerAssumption
    DEF PumpRefilled, WantsData, queue, wiring, guest, history, CallbackCounts,
        EnqueuerKnown, NothingAfterEnd, InCallback, TypeOK
  <1>4. DoneMeansEnqueued'
    BY PlayerAssumption
    DEF PumpRefilled, WantsData, queue, flags, wiring, guest, history, DoneMeansEnqueued,
        EnqueuerKnown, CallbackCounts, NothingAfterEnd, InCallback, TypeOK
  <1>5. NothingAfterEnd'
    BY PlayerAssumption
    DEF PumpRefilled, WantsData, queue, wiring, guest, history, NothingAfterEnd,
        EnqueuerKnown, CallbackCounts, InCallback, TypeOK
  <1>6. HeadAtEndMeansFinished'
    BY PlayerAssumption
    DEF PumpRefilled, WantsData, queue, flags, wiring, guest, history,
        HeadAtEndMeansFinished, DoneMeansEnqueued, TypeOK
  <1> QED BY <1>1, <1>2, <1>3, <1>4, <1>5, <1>6

\* The pump looks whether the queue ran empty.
LEMMA PumpDrainInv ==
  ASSUME PlayerInv, PumpDrain
  PROVE  PlayerInv'
  <1> USE DEF PlayerInv
  <1>1. TypeOK'
    <2>1. FlagsType'
      BY TypeParts, Zenon DEF PumpDrain, queue, flags, wiring, guest, history, FlagsType
    <2>2. CountsType'
      BY TypeParts, PlayerAssumption DEF PumpDrain, queue, guest, CountsType
    <2> QED BY <2>1, <2>2 DEF FlagsType, CountsType, TypeOK
  <1>2. EnqueuerKnown'
    BY PlayerAssumption DEF PumpDrain, queue, wiring, EnqueuerKnown, InCallback, TypeOK
  <1>3. CallbackCounts'
    BY PlayerAssumption
    DEF PumpDrain, queue, wiring, guest, history, CallbackCounts, EnqueuerKnown,
        NothingAfterEnd, InCallback, TypeOK
  <1>4. DoneMeansEnqueued'
    BY PlayerAssumption
    DEF PumpDrain, queue, flags, wiring, guest, history, DoneMeansEnqueued, EnqueuerKnown,
        CallbackCounts, NothingAfterEnd, InCallback, TypeOK
  <1>5. NothingAfterEnd'
    BY PlayerAssumption
    DEF PumpDrain, queue, wiring, guest, history, NothingAfterEnd, EnqueuerKnown,
        CallbackCounts, InCallback, TypeOK
  <1>6. HeadAtEndMeansFinished'
    BY PlayerAssumption
    DEF PumpDrain, queue, flags, wiring, guest, history, HeadAtEndMeansFinished,
        DoneMeansEnqueued, TypeOK
  <1> QED BY <1>1, <1>2, <1>3, <1>4, <1>5, <1>6

\* The decoder is done.
LEMMA PumpDoneInv ==
  ASSUME PlayerInv, PumpDone
  PROVE  PlayerInv'
  <1> USE DEF PlayerInv
  <1>1. TypeOK'
    <2>1. FlagsType'
      BY TypeParts, Zenon DEF PumpDone, queue, wiring, guest, history, FlagsType
    <2>2. CountsType'
      BY TypeParts, PlayerAssumption DEF PumpDone, queue, guest, CountsType
    <2> QED BY <2>1, <2>2 DEF FlagsType, CountsType, TypeOK
  <1>2. EnqueuerKnown'
    BY PlayerAssumption DEF PumpDone, queue, wiring, EnqueuerKnown, InCallback, TypeOK
  <1>3. CallbackCounts'
    BY PlayerAssumption
    DEF PumpDone, queue, wiring, guest, history, CallbackCounts, EnqueuerKnown,
        NothingAfterEnd, InCallback, TypeOK
  <1>4. DoneMeansEnqueued'
    BY PlayerAssumption
    DEF PumpDone, queue, wiring, guest, history, DoneMeansEnqueued, EnqueuerKnown,
        CallbackCounts, NothingAfterEnd, InCallback, TypeOK
  <1>5. NothingAfterEnd'
    BY PlayerAssumption
    DEF PumpDone, queue, wiring, guest, history, NothingAfterEnd, EnqueuerKnown,
        CallbackCounts, InCallback, TypeOK
  <1>6. HeadAtEndMeansFinished'
    BY PlayerAssumption
    DEF PumpDone, queue, wiring, guest, history, HeadAtEndMeansFinished,
        DoneMeansEnqueued, TypeOK
  <1> QED BY <1>1, <1>2, <1>3, <1>4, <1>5, <1>6

\* The pump looks whether HEADATEND is to be raised.
LEMMA PumpHeadAtEndInv ==
  ASSUME PlayerInv, PumpHeadAtEnd
  PROVE  PlayerInv'
  <1> USE DEF PlayerInv
  <1>1. TypeOK'
    <2>1. FlagsType'
      BY TypeParts, Zenon
      DEF PumpHeadAtEnd, queue, flags, wiring, guest, history, FlagsType
    <2>2. CountsType'
      BY TypeParts, PlayerAssumption DEF PumpHeadAtEnd, queue, guest, CountsType
    <2> QED BY <2>1, <2>2 DEF FlagsType, CountsType, TypeOK
  <1>2. EnqueuerKnown'
    BY PlayerAssumption
    DEF PumpHeadAtEnd, queue, wiring, EnqueuerKnown, InCallback, TypeOK
  <1>3. CallbackCounts'
    BY PlayerAssumption
    DEF PumpHeadAtEnd, queue, wiring, guest, history, CallbackCounts, EnqueuerKnown,
        NothingAfterEnd, InCallback, TypeOK
  <1>4. DoneMeansEnqueued'
    BY PlayerAssumption
    DEF PumpHeadAtEnd, queue, flags, wiring, guest, history, DoneMeansEnqueued,
        EnqueuerKnown, CallbackCounts, NothingAfterEnd, InCallback, TypeOK
  <1>5. NothingAfterEnd'
    BY PlayerAssumption
    DEF PumpHeadAtEnd, queue, wiring, guest, history, NothingAfterEnd, EnqueuerKnown,
        CallbackCounts, InCallback, TypeOK
  <1>6. HeadAtEndMeansFinished'
    BY PlayerAssumption
    DEF PumpHeadAtEnd, queue, flags, wiring, guest, history, HeadAtEndMeansFinished,
        DoneMeansEnqueued, TypeOK
  <1> QED BY <1>1, <1>2, <1>3, <1>4, <1>5, <1>6

\* The pump looks whether the ring has drained.
LEMMA PumpRingInv ==
  ASSUME PlayerInv, PumpRing
  PROVE  PlayerInv'
  <1> USE DEF PlayerInv
  <1>1. TypeOK'
    <2>1. FlagsType'
      BY TypeParts, Zenon
      DEF PumpRing, Drained, queue, flags, wiring, guest, history, FlagsType
    <2>2. CountsType'
      BY TypeParts, PlayerAssumption DEF PumpRing, Drained, queue, guest, CountsType
    <2> QED BY <2>1, <2>2 DEF FlagsType, CountsType, TypeOK
  <1>2. EnqueuerKnown'
    BY PlayerAssumption
    DEF PumpRing, Drained, queue, wiring, EnqueuerKnown, InCallback, TypeOK
  <1>3. CallbackCounts'
    BY PlayerAssumption
    DEF PumpRing, Drained, queue, wiring, guest, history, CallbackCounts, EnqueuerKnown,
        NothingAfterEnd, InCallback, TypeOK
  <1>4. DoneMeansEnqueued'
    BY PlayerAssumption
    DEF PumpRing, Drained, queue, flags, wiring, guest, history, DoneMeansEnqueued,
        EnqueuerKnown, CallbackCounts, NothingAfterEnd, InCallback, TypeOK
  <1>5. NothingAfterEnd'
    BY PlayerAssumption
    DEF PumpRing, Drained, queue, wiring, guest, history, NothingAfterEnd, EnqueuerKnown,
        CallbackCounts, InCallback, TypeOK
  <1>6. HeadAtEndMeansFinished'
    BY PlayerAssumption
    DEF PumpRing, Drained, queue, flags, wiring, guest, history, HeadAtEndMeansFinished,
        DoneMeansEnqueued, TypeOK
  <1> QED BY <1>1, <1>2, <1>3, <1>4, <1>5, <1>6

\* HEADATEND is noted.
LEMMA PumpFireInv ==
  ASSUME PlayerInv, PumpFire
  PROVE  PlayerInv'
  <1> USE DEF PlayerInv
  <1>1. TypeOK'
    <2>1. FlagsType'
      BY TypeParts, Zenon DEF PumpFire, queue, wiring, guest, history, FlagsType
    <2>2. CountsType'
      BY TypeParts, PlayerAssumption DEF PumpFire, queue, guest, CountsType
    <2> QED BY <2>1, <2>2 DEF FlagsType, CountsType, TypeOK
  <1>2. EnqueuerKnown'
    BY PlayerAssumption DEF PumpFire, queue, wiring, EnqueuerKnown, InCallback, TypeOK
  <1>3. CallbackCounts'
    BY PlayerAssumption
    DEF PumpFire, queue, wiring, guest, history, CallbackCounts, EnqueuerKnown,
        NothingAfterEnd, InCallback, TypeOK
  <1>4. DoneMeansEnqueued'
    BY PlayerAssumption
    DEF PumpFire, queue, wiring, guest, history, DoneMeansEnqueued, EnqueuerKnown,
        CallbackCounts, NothingAfterEnd, InCallback, TypeOK
  <1>5. NothingAfterEnd'
    BY PlayerAssumption
    DEF PumpFire, queue, wiring, guest, history, NothingAfterEnd, EnqueuerKnown,
        CallbackCounts, InCallback, TypeOK
  <1>6. HeadAtEndMeansFinished'
    BY PlayerAssumption
    DEF PumpFire, queue, wiring, guest, history, HeadAtEndMeansFinished,
        DoneMeansEnqueued, TypeOK
  <1> QED BY <1>1, <1>2, <1>3, <1>4, <1>5, <1>6

\* HEADATEND is raised.
LEMMA PumpEventInv ==
  ASSUME PlayerInv, PumpEvent
  PROVE  PlayerInv'
  <1> USE DEF PlayerInv
  <1>1. TypeOK'
    <2>1. FlagsType'
      BY TypeParts, Zenon DEF PumpEvent, queue, flags, wiring, guest, FlagsType
    <2>2. CountsType'
      BY TypeParts, PlayerAssumption DEF PumpEvent, queue, guest, CountsType
    <2> QED BY <2>1, <2>2 DEF FlagsType, CountsType, TypeOK
  <1>2. EnqueuerKnown'
    BY PlayerAssumption DEF PumpEvent, queue, wiring, EnqueuerKnown, InCallback, TypeOK
  <1>3. CallbackCounts'
    BY PlayerAssumption
    DEF PumpEvent, queue, wiring, guest, CallbackCounts, EnqueuerKnown, NothingAfterEnd,
        InCallback, TypeOK
  <1>4. DoneMeansEnqueued'
    BY PlayerAssumption
    DEF PumpEvent, queue, flags, wiring, guest, DoneMeansEnqueued, EnqueuerKnown,
        CallbackCounts, NothingAfterEnd, InCallback, TypeOK
  <1>5. NothingAfterEnd'
    BY PlayerAssumption
    DEF PumpEvent, queue, wiring, guest, NothingAfterEnd, EnqueuerKnown, CallbackCounts,
        InCallback, TypeOK
  <1>6. HeadAtEndMeansFinished'
    BY PlayerAssumption
    DEF PumpEvent, queue, flags, wiring, guest, HeadAtEndMeansFinished, DoneMeansEnqueued,
        TypeOK
  <1> QED BY <1>1, <1>2, <1>3, <1>4, <1>5, <1>6

\* The HEADATEND callback returns.
LEMMA EventReturnInv ==
  ASSUME PlayerInv, EventReturn
  PROVE  PlayerInv'
  <1> USE DEF PlayerInv
  <1>1. TypeOK'
    <2>1. FlagsType'
      BY TypeParts, Zenon DEF EventReturn, queue, flags, wiring, guest, history, FlagsType
    <2>2. CountsType'
      BY TypeParts, PlayerAssumption DEF EventReturn, queue, pump, guest, CountsType
    <2> QED BY <2>1, <2>2 DEF FlagsType, CountsType, TypeOK
  <1>2. EnqueuerKnown'
    BY PlayerAssumption
    DEF EventReturn, queue, pump, wiring, EnqueuerKnown, InCallback, TypeOK
  <1>3. CallbackCounts'
    BY PlayerAssumption
    DEF EventReturn, queue, pump, wiring, guest, history, CallbackCounts, EnqueuerKnown,
        NothingAfterEnd, InCallback, TypeOK
  <1>4. DoneMeansEnqueued'
    BY PlayerAssumption
    DEF EventReturn, queue, flags, pump, wiring, guest, history, DoneMeansEnqueued,
        EnqueuerKnown, CallbackCounts, NothingAfterEnd, InCallback, TypeOK
  <1>5. NothingAfterEnd'
    BY PlayerAssumption
    DEF EventReturn, queue, pump, wiring, guest, history, NothingAfterEnd, EnqueuerKnown,
        CallbackCounts, InCallback, TypeOK
  <1>6. HeadAtEndMeansFinished'
    BY PlayerAssumption
    DEF EventReturn, queue, flags, pump, wiring, guest, history, HeadAtEndMeansFinished,
        DoneMeansEnqueued, TypeOK
  <1> QED BY <1>1, <1>2, <1>3, <1>4, <1>5, <1>6

\* The pump stops the player.
LEMMA PumpStopInv ==
  ASSUME PlayerInv, PumpStop
  PROVE  PlayerInv'
  <1> USE DEF PlayerInv
  <1>1. TypeOK'
    <2>1. FlagsType'
      BY TypeParts, Zenon DEF PumpStop, flags, wiring, guest, history, FlagsType
    <2>2. CountsType'
      BY TypeParts, PlayerAssumption DEF PumpStop, guest, CountsType
    <2> QED BY <2>1, <2>2 DEF FlagsType, CountsType, TypeOK
  <1>2. EnqueuerKnown'
    BY PlayerAssumption DEF PumpStop, wiring, EnqueuerKnown, InCallback, TypeOK
  <1>3. CallbackCounts'
    BY PlayerAssumption
    DEF PumpStop, wiring, guest, history, CallbackCounts, EnqueuerKnown, NothingAfterEnd,
        InCallback, TypeOK
  <1>4. DoneMeansEnqueued'
    BY PlayerAssumption
    DEF PumpStop, flags, wiring, guest, history, DoneMeansEnqueued, EnqueuerKnown,
        CallbackCounts, NothingAfterEnd, InCallback, TypeOK
  <1>5. NothingAfterEnd'
    BY PlayerAssumption
    DEF PumpStop, wiring, guest, history, NothingAfterEnd, EnqueuerKnown, CallbackCounts,
        InCallback, TypeOK
  <1>6. HeadAtEndMeansFinished'
    BY PlayerAssumption
    DEF PumpStop, flags, wiring, guest, history, HeadAtEndMeansFinished,
        DoneMeansEnqueued, TypeOK
  <1> QED BY <1>1, <1>2, <1>3, <1>4, <1>5, <1>6

\* Every step keeps the invariant.
LEMMA PlayerNextInv ==
  ASSUME PlayerInv, [Next]_vars
  PROVE  PlayerInv'
  <1>1. CASE UNCHANGED vars
    BY <1>1
    DEF vars, wiring, queue, flags, pump, guest, history, PlayerInv, TypeOK,
        EnqueuerKnown,
        InCallback, CallbackCounts, DoneMeansEnqueued, NothingAfterEnd, HeadAtEndMeansFinished
  <1>2. CASE Guest
    BY <1>2, GuestLoadInv, GuestFeedInv, GuestPlayInv, GuestPauseInv, GuestStopInv, GuestSeekInv
    DEF Guest
  <1>3. CASE Pump
    BY <1>3, PumpEnterInv, PumpCallInv, CallbackFeedInv, CallbackReturnInv, PumpCheckInv,
       PumpCompareInv, PumpRefilledInv, PumpDrainInv, PumpDoneInv, PumpHeadAtEndInv, PumpRingInv,
       PumpFireInv, PumpEventInv, EventReturnInv, PumpStopInv
    DEF Pump
  <1> QED BY <1>1, <1>2, <1>3, EnqueueCountInv, MixInv DEF Next

-----------------------------------------------------------------------------
(* What the invariant shows.                                                 *)

\* HEADATEND is raised for a callback-fed player only when its track was enqueued
\* to the end and mixed, unless a Clear or stop of the guest crossed the pump's
\* decision or brought its counter back: for any track and buffers, and with the
\* guest's calls, the audio callback and the two halves of an Enqueue anywhere
\* between the steps of the pump.
THEOREM PlayerCorrect == Spec => []PlayerInv
  <1>1. PlayerInv /\ [Next]_vars => PlayerInv'
    BY PlayerNextInv
  <1> QED BY <1>1, PlayerInitInv, PTL DEF Spec

\* The pump never stops a callback-fed player that has audio to play, but for one
\* that the guest cleared during that pump.
THEOREM PumpSilencesNothing == Spec => StopSilencesNothing
  <1>1. PlayerInv /\ [Next]_vars =>
          [pc = "stop" /\ pc' = "idle" /\ play_state = "PLAYING" /\ callback /\ ~cleared
             => readable = 0]_vars
    BY DEF PlayerInv, NothingAfterEnd
  <1> QED BY <1>1, PlayerCorrect, PTL DEF Spec, StopSilencesNothing
=============================================================================
