-------------------------- MODULE PlayerLifecycle --------------------------
(* One AudioPlayer (src/opensles_shim.c) from Play to HEADATEND: the play    *)
(* state and the flags that decide when a stream has ended, changed by       *)
(*   - the pump (opensles_shim_pump_callbacks), which the main loop runs once *)
(*     a frame and which calls the guest's callbacks;                        *)
(*   - SDL's audio thread, which mixes a PLAYING player under the device lock; *)
(*   - the guest, from its game thread and from inside its callbacks.        *)
(* The bytes are numbers here: SpscRing looks inside the ring.  The account   *)
(* of buffers is BufferLedger's: its count is right until `spoiled', and then *)
(* may be anything.  Enqueue is two steps, what is written and what is        *)
(* counted; a call that takes the device lock is one.                        *)
(*                                                                           *)
(* The guest is a game that plays tracks.  It loads one while the player is  *)
(* stopped, enqueues it a buffer at a time, either from its game thread or   *)
(* from its buffer callback until the track has no more, and may pause,      *)
(* resume, stop and seek, from its game thread at any step of the pump and   *)
(* from inside its callbacks.                                                *)
EXTENDS Integers

CONSTANTS RingSize,            \* RING_BUFFER_SIZE, in units of audio
          MaxTrack,            \* longest track
          MaxBuffer,           \* longest buffer the guest enqueues
          MaxCalls             \* bound: loads, stops, seeks and pauses of the guest

ASSUME PlayerAssumption ==
  /\ RingSize \in Nat \ {0, 1, 2, 3}
  /\ MaxTrack \in Nat \ {0} /\ MaxBuffer \in Nat \ {0} /\ MaxCalls \in Nat

VARIABLES
  play_state, callback, listens,       \* listens: HEADATEND callback and mask set
  readable,                            \* ring_readable(p)
  enqueuer, written,                   \* the thread between ring_write and queue_push
                                       \* of an Enqueue, and what it wrote
  spoiled,                             \* is the account of buffers off? (BufferLedger)
  last_enqueue_size, enqueue_counter, ever_enqueued,
  decoder_done, headatend_fired,
  pc, seen, refill, before, left,      \* the pump: next step and its locals readable,
                                       \* refill_threshold, counter_before, max_calls
  source, budget,                      \* guest: rest of the track, calls left
  fed,                                 \* guest: its buffer callback has enqueued
  ended,                               \* history: HEADATEND was raised for this track
  cleared,                             \* history: Clear was called since this pump began
  miscounted,                          \* history: the decoder was taken to be done in
                                       \* a pump that Clear was called in
  crossed                              \* history: the last Clear or stop fell between a
                                       \* test of the pump and what the pump does on it

flags == <<ever_enqueued, decoder_done, headatend_fired>>
queue == <<readable, enqueuer, written, spoiled, last_enqueue_size, enqueue_counter>>
pump == <<pc, seen, refill, before, left>>
wiring == <<callback, listens>>
guest == <<source, budget, fed>>
history == <<ended, cleared, miscounted, crossed>>
vars == <<play_state, wiring, queue, flags, pump, guest, history>>

Smaller(a, b) == IF a < b THEN a ELSE b

\* CreateAudioPlayer has reset the player; the guest has registered the
\* callbacks it wants.
Init ==
  /\ play_state = "STOPPED" /\ callback \in BOOLEAN /\ listens \in BOOLEAN
  /\ readable = 0 /\ enqueuer = "none" /\ written = 0 /\ spoiled = FALSE
  /\ last_enqueue_size = 0 /\ enqueue_counter = 0
  /\ ever_enqueued = FALSE /\ decoder_done = FALSE /\ headatend_fired = FALSE
  /\ pc = "idle" /\ seen = 0 /\ refill = 0 /\ before = 0 /\ left = 0
  /\ source = 0 /\ budget = MaxCalls
  /\ fed = FALSE
  /\ ended = FALSE /\ cleared = FALSE /\ miscounted = FALSE /\ crossed = FALSE

-----------------------------------------------------------------------------
(* The methods, as the guest calls them.                                     *)

\* bq_Enqueue of n units, the ring: what fits is written.  One thread at a time
\* enqueues.  It may begin inside an audio callback, which spoils the account.
Write(n, thread) ==
  /\ enqueuer = "none"
  /\ written' = Smaller(n, RingSize - readable)
  /\ readable' = readable + written'
  /\ enqueuer' = IF written' > 0 THEN thread ELSE "none"
  /\ \/ spoiled' = spoiled
     \/ play_state = "PLAYING" /\ written' > 0 /\ spoiled' = TRUE
  /\ UNCHANGED <<last_enqueue_size, enqueue_counter, flags>>

\* bq_Enqueue, the rest: queue_push and the counters.
EnqueueCount ==
  /\ enqueuer # "none"
  /\ last_enqueue_size' = written
  /\ enqueue_counter' = enqueue_counter + 1
  /\ ever_enqueued' = TRUE
  /\ enqueuer' = "none" /\ written' = 0
  /\ UNCHANGED <<play_state, wiring, readable, spoiled, decoder_done, headatend_fired,
                 pump, guest, history>>

\* The steps of the pump between a test and what it does on it.
Deciding == {"done", "drained", "ring", "fire", "call"}

\* An emptied queue: inside an Enqueue it leaves the account off.
Emptied ==
  /\ readable' = 0
  /\ spoiled' = (enqueuer # "none")
  /\ miscounted' = FALSE /\ crossed' = (pc \in Deciding)
  /\ UNCHANGED <<enqueuer, written, last_enqueue_size>>

\* Mutation: Clear forgets that the decoder was done.
ClearKeepsDone ==
  /\ Emptied /\ enqueue_counter' = 0 /\ cleared' = TRUE
  /\ ever_enqueued' = FALSE /\ headatend_fired' = FALSE
  /\ UNCHANGED decoder_done

\* Mutation: Clear forgets that HEADATEND was raised.
ClearKeepsFired ==
  /\ Emptied /\ enqueue_counter' = 0 /\ cleared' = TRUE
  /\ ever_enqueued' = FALSE /\ decoder_done' = FALSE
  /\ UNCHANGED headatend_fired

\* bq_Clear
Clear ==
  /\ Emptied /\ enqueue_counter' = 0 /\ cleared' = TRUE
  /\ ever_enqueued' = FALSE /\ decoder_done' = FALSE /\ headatend_fired' = FALSE

\* play_SetPlayState: leaving PLAYING or PAUSED for STOPPED empties the ring
\* and takes back two of the flags; STOPPED to STOPPED changes nothing.
SetPlayState(state) ==
  /\ play_state' = state
  /\ IF state = "STOPPED" /\ play_state # "STOPPED"
     THEN /\ Emptied
          /\ decoder_done' = FALSE /\ headatend_fired' = FALSE
          /\ UNCHANGED <<enqueue_counter, ever_enqueued>>
     ELSE UNCHANGED <<queue, flags, miscounted, crossed>>

-----------------------------------------------------------------------------
(* The guest.                                                                *)

\* The guest's callbacks run, on the pump's thread.
InCallback == pc \in {"callback", "event"}

\* A thread of the guest is free to call: the game thread when it is not inside
\* an Enqueue, or the pump's thread in a callback.
MayCall == enqueuer = "game" => InCallback
Spend == budget > 0 /\ budget' = budget - 1

\* The guest readies the stopped player for a track.
GuestLoad ==
  /\ MayCall /\ Spend
  /\ play_state = "STOPPED"
  /\ source' \in 1 .. MaxTrack
  /\ Clear
  /\ ended' = FALSE
  /\ UNCHANGED <<play_state, wiring, pump, fed>>

\* The guest enqueues the next buffer of its track other than from its buffer
\* callback: all of it without one, only the first buffer with one.
GuestFeed ==
  /\ source > 0
  /\ callback => play_state = "STOPPED" /\ ~ever_enqueued
  /\ \E n \in 1 .. Smaller(MaxBuffer, source) :
       /\ \/ Write(n, "game")
          \/ pc = "event" /\ Write(n, "pump")
       /\ source' = source - n
  /\ UNCHANGED <<play_state, wiring, pump, budget, fed, history>>

\* Play and resume.
GuestPlay ==
  /\ MayCall
  /\ \/ play_state = "PAUSED"
     \/ /\ play_state = "STOPPED" /\ ~ended
        /\ readable > 0 \/ (callback /\ source > 0)
  /\ SetPlayState("PLAYING")
  /\ UNCHANGED <<wiring, pump, guest, ended, cleared>>

GuestPause ==
  /\ MayCall /\ Spend
  /\ play_state = "PLAYING"
  /\ SetPlayState("PAUSED")
  /\ UNCHANGED <<wiring, pump, source, fed, ended, cleared>>

\* The guest gives its track up.
GuestStop ==
  /\ MayCall /\ Spend
  /\ play_state # "STOPPED"
  /\ SetPlayState("STOPPED")
  /\ source' = 0
  /\ UNCHANGED <<wiring, pump, fed, ended, cleared>>

\* The guest jumps inside its track: Clear, and the rest comes from elsewhere.
GuestSeek ==
  /\ MayCall /\ Spend
  /\ play_state # "STOPPED" /\ callback
  /\ Clear
  /\ source' \in 1 .. MaxTrack
  /\ ended' = FALSE
  /\ UNCHANGED <<play_state, wiring, pump, fed>>

-----------------------------------------------------------------------------
(* The audio thread: sdl_audio_callback's part for this player.              *)
Mix ==
  /\ play_state = "PLAYING"
  /\ readable > 0
  /\ \E got \in 1 .. readable : readable' = readable - got
  /\ spoiled' = (spoiled \/ enqueuer # "none")
  /\ UNCHANGED <<play_state, wiring, enqueuer, written, last_enqueue_size, enqueue_counter,
                 flags, pump, guest, history>>

-----------------------------------------------------------------------------
(* The pump.                                                                 *)

\* Twice the last buffer, kept within the ring.
RefillThreshold ==
  LET threshold == IF last_enqueue_size = 0 \/ last_enqueue_size > RingSize \div 2
                   THEN RingSize \div 4
                   ELSE last_enqueue_size
  IN Smaller(2 * threshold, RingSize \div 2)

PumpEnter ==
  /\ pc = "idle"
  /\ play_state = "PLAYING"
  /\ seen' = readable
  /\ refill' = RefillThreshold
  /\ left' = 4
  /\ pc' = "refill"
  /\ cleared' = FALSE
  /\ UNCHANGED <<play_state, wiring, queue, flags, before, guest, ended, miscounted, crossed>>

WantsData == callback /\ seen <= refill /\ left > 0

PumpCall ==
  /\ pc = "refill"
  /\ WantsData
  /\ before' = enqueue_counter
  /\ fed' = FALSE
  /\ pc' = "callback"
  /\ UNCHANGED <<play_state, wiring, queue, flags, seen, refill, left, source, budget, history>>

\* The guest's buffer callback enqueues another buffer.
CallbackFeed ==
  /\ pc = "callback"
  /\ source > 0
  /\ \E n \in 1 .. Smaller(MaxBuffer, source) :
       /\ Write(n, "pump")
       /\ source' = source - n
  /\ fed' = TRUE
  /\ UNCHANGED <<play_state, wiring, pump, budget, history>>

\* It returns, having enqueued something unless its track is at the end.
CallbackReturn ==
  /\ pc = "callback"
  /\ enqueuer # "pump"
  /\ source = 0 \/ fed
  /\ pc' = "returned"
  /\ UNCHANGED <<play_state, wiring, queue, flags, seen, refill, before, left,
                 guest, history>>

\* The loop goes on with a fresh look at the ring.
PumpAgain ==
  /\ seen' = readable
  /\ left' = left - 1
  /\ pc' = "refill"
  /\ UNCHANGED miscounted

\* A callback that enqueued nothing, as far as the counter tells, means that the
\* decoder is done: the flags are looked at, then the counter, then the flag set.
PumpCheck ==
  /\ pc = "returned"
  /\ IF ever_enqueued /\ ~decoder_done
     THEN pc' = "compare" /\ UNCHANGED <<seen, left, miscounted>>
     ELSE PumpAgain
  /\ UNCHANGED <<play_state, wiring, queue, flags, refill, before, guest, ended, cleared,
                 crossed>>

PumpCompare ==
  /\ pc = "compare"
  /\ IF enqueue_counter = before
     THEN pc' = "done" /\ miscounted' = cleared /\ UNCHANGED <<seen, left>>
     ELSE PumpAgain
  /\ UNCHANGED <<play_state, wiring, queue, flags, refill, before, guest, ended, cleared,
                 crossed>>

PumpRefilled ==
  /\ pc = "refill"
  /\ ~WantsData
  /\ pc' = "drain"
  /\ UNCHANGED <<play_state, wiring, queue, flags, seen, refill, before, left,
                 guest, history>>

\* Without a buffer callback the queue's running empty is the end.  What
\* Enqueue has written but not pushed is not in the queue.
PumpDrain ==
  /\ pc = "drain"
  /\ \/ /\ ~callback /\ ever_enqueued /\ ~decoder_done /\ seen = 0
        /\ spoiled \/ readable = written
        /\ pc' = "drained"
     \/ /\ callback \/ ~ever_enqueued \/ decoder_done \/ seen # 0
           \/ spoiled \/ readable # written
        /\ pc' = "headatend"
  /\ UNCHANGED <<play_state, wiring, queue, flags, seen, refill, before, left,
                 guest, history>>

PumpDone ==
  /\ \/ pc = "done" /\ pc' = "drain"
     \/ pc = "drained" /\ pc' = "headatend"
  /\ decoder_done' = TRUE
  /\ UNCHANGED <<play_state, wiring, queue, ever_enqueued, headatend_fired,
                 seen, refill, before, left, guest, history>>

\* HEADATEND: the flags are looked at, then the ring, then the flag is set, then
\* the guest's callback is called.
PumpHeadAtEnd ==
  /\ pc = "headatend"
  /\ pc' = IF decoder_done /\ ~headatend_fired THEN "ring" ELSE "idle"
  /\ UNCHANGED <<play_state, wiring, queue, flags, seen, refill, before, left,
                 guest, history>>

\* Mutation: the ring need not have drained.
DrainedAlways == TRUE
Drained == readable = 0

PumpRing ==
  /\ pc = "ring"
  /\ pc' = IF Drained THEN "fire" ELSE "idle"
  /\ UNCHANGED <<play_state, wiring, queue, flags, seen, refill, before, left,
                 guest, history>>

PumpFire ==
  /\ pc = "fire"
  /\ headatend_fired' = TRUE
  /\ pc' = "call"
  /\ UNCHANGED <<play_state, wiring, queue, ever_enqueued, decoder_done,
                 seen, refill, before, left, guest, history>>

PumpEvent ==
  /\ pc = "call"
  /\ ended' = TRUE
  /\ pc' = IF listens THEN "event" ELSE "stop"
  /\ UNCHANGED <<play_state, wiring, queue, flags, seen, refill, before, left,
                 guest, cleared, miscounted, crossed>>

\* The guest's HEADATEND callback returns.
EventReturn ==
  /\ pc = "event"
  /\ enqueuer # "pump"
  /\ pc' = "stop"
  /\ UNCHANGED <<play_state, wiring, queue, flags, seen, refill, before, left,
                 guest, history>>

\* The player is stopped and queue_reset, whatever it is doing by now; what is
\* in the ring stays, and the account is off if there is something.
PumpStop ==
  /\ pc = "stop"
  /\ play_state' = "STOPPED"
  /\ spoiled' = (enqueuer # "none" \/ readable > 0)
  /\ pc' = "idle"
  /\ UNCHANGED <<wiring, readable, enqueuer, written, last_enqueue_size, enqueue_counter,
                 flags, seen, refill, before, left, guest, history>>

Guest == GuestLoad \/ GuestFeed \/ GuestPlay \/ GuestPause \/ GuestStop \/ GuestSeek
Pump ==
  \/ PumpEnter \/ PumpCall \/ CallbackFeed \/ CallbackReturn \/ PumpCheck \/ PumpCompare
  \/ PumpRefilled \/ PumpDrain \/ PumpDone
  \/ PumpHeadAtEnd \/ PumpRing \/ PumpFire \/ PumpEvent \/ EventReturn \/ PumpStop

Next == Guest \/ EnqueueCount \/ Mix \/ Pump

\* The main loop pumps every frame, the device calls back while it runs, an
\* Enqueue is finished, and a guest that paused resumes.
Fairness == WF_vars(Pump) /\ WF_vars(Mix) /\ WF_vars(EnqueueCount) /\ WF_vars(GuestPlay)

Spec == Init /\ [][Next]_vars /\ Fairness

-----------------------------------------------------------------------------
(* Properties.                                                               *)

\* The type of the player's state.
TypeOK ==
  /\ play_state \in {"STOPPED", "PAUSED", "PLAYING"}
  /\ callback \in BOOLEAN /\ listens \in BOOLEAN
  /\ readable \in 0 .. RingSize
  /\ enqueuer \in {"none", "game", "pump"} /\ written \in 0 .. RingSize /\ spoiled \in BOOLEAN
  /\ last_enqueue_size \in 0 .. RingSize /\ enqueue_counter \in Nat
  /\ ever_enqueued \in BOOLEAN /\ decoder_done \in BOOLEAN /\ headatend_fired \in BOOLEAN
  /\ pc \in {"idle", "refill", "callback", "returned", "compare", "done", "drain", "drained",
             "headatend", "ring", "fire", "call", "event", "stop"}
  /\ seen \in 0 .. RingSize /\ refill \in 0 .. RingSize \div 2
  /\ before \in Nat /\ left \in 0 .. 4
  /\ pc \in {"callback", "returned", "compare"} => left > 0
  /\ source \in 0 .. MaxTrack /\ budget \in 0 .. MaxCalls
  /\ fed \in BOOLEAN
  /\ ended \in BOOLEAN /\ cleared \in BOOLEAN /\ miscounted \in BOOLEAN /\ crossed \in BOOLEAN

\* When the pump raises HEADATEND for a player with a buffer callback, its track
\* has been enqueued to the end and every byte of it has been mixed.  (Without
\* one the end of the queue is all the player can know.)  It comes early only
\* when the guest cleared or stopped the player between a test of the pump and
\* what the pump does on it, or cleared it during the pump and enqueued until
\* enqueue_counter was what it had been.
HeadAtEndMeansFinished ==
  pc \in {"fire", "call"} /\ callback /\ ~miscounted /\ ~crossed => readable = 0 /\ source = 0

\* The decoder is done, or about to be taken so, only when the track has been
\* enqueued to the end, and this is so until HEADATEND.
DoneMeansEnqueued ==
  /\ pc \in {"done", "drained", "ring"} \/ (decoder_done /\ ~headatend_fired)
  /\ callback /\ ~miscounted /\ ~crossed
  => source = 0

\* A callback that returned without having enqueued had nothing to enqueue, and
\* one that has enqueued found room and was counted, in a pump without Clear.
CallbackCounts ==
  callback /\ ~cleared =>
    /\ pc = "refill" \/ (pc = "callback" /\ ~fed) => readable <= seen
    /\ pc = "callback" => seen <= RingSize \div 2
    /\ pc \in {"returned", "compare"} => source = 0 \/ fed
    /\ pc \in {"callback", "returned", "compare"} =>
         /\ enqueue_counter >= before
         /\ fed => enqueue_counter > before \/ enqueuer = "pump"

\* Who enqueues has written, and the pump's thread does so in its callbacks.
EnqueuerKnown ==
  /\ enqueuer = "none" <=> written = 0
  /\ enqueuer = "pump" => InCallback

\* In a pump without Clear a callback-fed player that was stopped has no track
\* left, so that nothing is enqueued to it after the pump has found it drained.
NothingAfterEnd ==
  callback /\ ~cleared =>
    /\ pc # "idle" /\ play_state = "STOPPED" => source = 0
    /\ pc \in {"fire", "call", "event", "stop"} => readable = 0

\* The player, at any time: the inductive invariant of the proofs.
PlayerInv ==
  /\ TypeOK /\ EnqueuerKnown /\ CallbackCounts /\ DoneMeansEnqueued /\ NothingAfterEnd
  /\ HeadAtEndMeansFinished

\* src/opensles_shim.c:1089 stops the player "when decoder done and ring
\* drained": the pump never stops a callback-fed player that has audio to play,
\* but for one that the guest cleared for another track during that pump, in
\* its HEADATEND callback or from its game thread.
StopSilencesNothing ==
  [][pc = "stop" /\ pc' = "idle" /\ play_state = "PLAYING" /\ callback /\ ~cleared
       => readable = 0]_vars

\* src/opensles_shim.c:1089: "HEADATEND: fire play callback when decoder done
\* and ring drained".  A player that plays a track is eventually stopped, by
\* the pump at the track's end or by the guest before it, wherever the guest's
\* calls fall; but one without a buffer callback depends on the account of its
\* buffers and may play on for ever once this is spoiled.
PlaybackEnds ==
  play_state = "PLAYING" ~> play_state = "STOPPED" \/ (spoiled /\ ~callback)
=============================================================================
