------------------------------- MODULE Mixer -------------------------------
(* What sdl_audio_callback (src/opensles_shim.c) does for one player: which  *)
(* frames of the enqueued stream it takes from the ring, which of them it    *)
(* resamples into the device's buffer, and how it fades them at the edges of *)
(* the sound.  A callback is one step and an Enqueue two: SpscRing and        *)
(* BufferLedger look inside the ring and the account of buffers, PlayerLifecycle *)
(* at the play state's other effects.                                        *)
(*                                                                           *)
(* A frame heard is named by the position in the stream of its first byte;   *)
(* samples, volume, interpolation and the limiter are left out.              *)
EXTENDS Integers, Sequences, FiniteSets

CONSTANTS OutRate,      \* SDL_OUTPUT_RATE, 44100
          Samples,      \* SDL_AUDIO_SAMPLES, 4096
          One,          \* 65536, the unit of the resampler's fixed point
          SoftIn,       \* 32 output frames of fade-in
          SoftOut,      \* 64 source frames of fade-out
          RingSize,     \* RING_BUFFER_SIZE, in bytes
          Rates,        \* sample rates a player may have
          Devices,      \* frames the device may ask for at a time
          Sizes,        \* sizes of the buffers the guest enqueues, in bytes
          MaxStream     \* bound: bytes enqueued between two flushes

SampleBytes == 2        \* sizeof(int16_t)

ASSUME MixerAssumption ==
  /\ OutRate \in Nat \ {0} /\ Rates \subseteq Nat \ {0} /\ Rates # {}
  /\ Samples \in Nat \ {0} /\ Devices \subseteq Nat \ {0} /\ Devices # {}
  /\ One \in Nat /\ One > Samples /\ \A r \in Rates : r * One >= OutRate
  /\ SoftIn \in Nat \ {0} /\ SoftOut \in Nat \ {0}
  /\ RingSize \in Nat /\ RingSize % 4 = 0
  /\ Sizes \subseteq Nat \ {0} /\ MaxStream \in Nat

VARIABLES
  sample_rate, num_channels, device,   \* the player's format, the device's frames
  playing,               \* play_state = SL_PLAYSTATE_PLAYING
  enqueued, taken,       \* bytes that entered and left the ring since the last flush
  owed,                  \* bytes of the unfinished buffers in the account
  pushing,               \* bytes of an Enqueue that are in the ring and not in it yet
  played_bytes, frames_played,
  heard,                 \* what the last callback mixed: frames with their envelopes
  short,                 \* did the last callback get less than it wanted (underrun)?
  next_byte,             \* history: the stream position after the last frame heard
  torn,                  \* history: bytes of an incomplete frame left the ring
  spoiled,               \* history: a callback or a reset fell inside an Enqueue, or a
                         \* reset left bytes in the ring, since the account was emptied
  counted                \* history: what had been taken when it was

format == <<sample_rate, num_channels, device>>
counters == <<owed, played_bytes, frames_played>>
output == <<heard, short, next_byte>>
vars == <<format, playing, enqueued, taken, counters, pushing, output, torn, spoiled, counted>>

Smaller(a, b) == IF a < b THEN a ELSE b

Init ==
  /\ sample_rate \in Rates /\ num_channels \in {1, 2} /\ device \in Devices
  /\ playing = FALSE
  /\ enqueued = 0 /\ taken = 0
  /\ owed = 0 /\ played_bytes = 0 /\ frames_played = 0
  /\ heard = << >> /\ short = FALSE /\ next_byte = 0
  /\ pushing = 0 /\ torn = FALSE /\ spoiled = FALSE /\ counted = 0

Readable == enqueued - taken

-----------------------------------------------------------------------------
(* The guest.                                                                *)

\* bq_Enqueue: ring_write takes what fits.  It may begin inside a callback, which
\* spoils the account.
Write ==
  \E n \in Sizes :
    LET written == Smaller(n, RingSize - Readable) IN
      /\ pushing = 0 /\ written > 0 /\ enqueued + written <= MaxStream
      /\ enqueued' = enqueued + written
      /\ pushing' = written
      /\ spoiled' \in {spoiled, spoiled \/ playing}
      /\ UNCHANGED <<format, playing, taken, counters, output, torn, counted>>

\* bq_Enqueue: queue_push.
Push ==
  /\ pushing > 0
  /\ owed' = owed + pushing
  /\ pushing' = 0
  /\ UNCHANGED <<format, playing, enqueued, taken, played_bytes, frames_played, output,
                 torn, spoiled, counted>>

\* play_SetPlayState: PLAYING starts a new fade-in, PAUSED keeps everything.
Play ==
  /\ ~playing
  /\ playing' = TRUE
  /\ frames_played' = 0
  /\ heard' = << >> /\ short' = FALSE
  /\ UNCHANGED <<format, enqueued, taken, owed, pushing, played_bytes, next_byte, torn,
                 spoiled, counted>>

Pause ==
  /\ playing
  /\ playing' = FALSE
  /\ UNCHANGED <<format, enqueued, taken, counters, pushing, output, torn, spoiled, counted>>

\* SetPlayState(STOPPED), which also ends the playing, and Clear, which does not.
Flush ==
  /\ playing' \in {playing, FALSE}
  /\ enqueued' = 0 /\ taken' = 0 /\ owed' = 0 /\ played_bytes' = 0
  /\ heard' = << >> /\ short' = FALSE /\ next_byte' = 0
  /\ torn' = FALSE /\ spoiled' = (pushing > 0) /\ counted' = 0
  /\ UNCHANGED <<format, frames_played, pushing>>

\* The pump, after HEADATEND, stops the player and resets the account; the ring
\* keeps what it holds.
PumpReset ==
  /\ playing' = FALSE
  /\ owed' = 0 /\ played_bytes' = 0
  /\ spoiled' = (pushing > 0 \/ Readable > 0) /\ counted' = taken
  /\ UNCHANGED <<format, enqueued, taken, frames_played, pushing, output, torn>>

-----------------------------------------------------------------------------
(* The callback's arithmetic.                                                *)

out_frames == Smaller(device, Samples)
frame_size == num_channels * SampleBytes
TmpBytes == Samples * 2 * SampleBytes
Direct == sample_rate = OutRate /\ num_channels = 2

src_frames_needed ==
  IF sample_rate = OutRate THEN out_frames
  ELSE (out_frames * sample_rate) \div OutRate + 2

\* Mutation: the temporary buffer's samples are taken for its bytes.
WantInSamples ==
  (Smaller(src_frames_needed * frame_size, TmpBytes \div SampleBytes) \div frame_size) * frame_size

src_bytes_want ==
  (Smaller(src_frames_needed * frame_size, TmpBytes) \div frame_size) * frame_size

\* Mutation: the callback waits until it can have all it wants.
RingReadFull == IF Readable < src_bytes_want THEN 0 ELSE src_bytes_want

\* Bytes that ring_read returns.
RingRead == Smaller(src_bytes_want, Readable)

\* Mutation: the account is charged in frames.
ChargedFrames(got) == Smaller(got \div frame_size, owed)

\* Bytes that queue_consume takes off the account.
Charged(got) == Smaller(got, owed)

step == (sample_rate * One) \div OutRate

\* The source frame that output frame f begins with, counted from the first taken.
Source(f) == IF Direct THEN f ELSE (f * step) \div One

\* Mutation: one frame past the last.
MixedPast(src_frames_got) ==
  Cardinality({f \in 0 .. out_frames - 1 : Source(f) <= src_frames_got})

\* Output frames that src_frames_got source frames suffice for.
Mixed(src_frames_got) ==
  Cardinality({f \in 0 .. out_frames - 1 : Source(f) < src_frames_got})

\* Fractions, as pairs.
LowerOf(a, b) == IF b[1] * a[2] < a[1] * b[2] THEN b ELSE a

\* Mutation: the fade-in starts with every callback.
FadeInAgain(f) == IF f < SoftIn THEN <<f, SoftIn>> ELSE <<1, 1>>

FadeIn(f) ==
  IF frames_played + f < SoftIn THEN <<frames_played + f, SoftIn>> ELSE <<1, 1>>

\* Mutation: the fade-out of a short sound is as long as any other.
FadeOutLong(src_frames_got, f) ==
  LET src_begin == src_frames_got - Smaller(SoftOut, src_frames_got)
      mapped(n) == IF Direct THEN n ELSE (n * OutRate) \div sample_rate
      len == IF mapped(SoftOut) = 0 THEN 1 ELSE mapped(SoftOut)
      gone == f - mapped(src_begin)
  IN IF gone < 0 THEN <<1, 1>> ELSE <<IF gone > len THEN 0 ELSE len - gone, len>>

\* The fade-out over the last SoftOut source frames, in output frames.
FadeOut(src_frames_got, f) ==
  LET src_len == Smaller(SoftOut, src_frames_got)
      src_begin == src_frames_got - src_len
      mapped(n) == IF Direct THEN n ELSE (n * OutRate) \div sample_rate
      len == IF mapped(src_len) = 0 THEN 1 ELSE mapped(src_len)
      gone == f - mapped(src_begin)
  IN IF gone < 0 THEN <<1, 1>> ELSE <<IF gone > len THEN 0 ELSE len - gone, len>>

Envelope(src_frames_got, underrun, f) ==
  IF underrun THEN LowerOf(FadeIn(f), FadeOut(src_frames_got, f)) ELSE FadeIn(f)

Callback ==
  LET read == RingRead
      got == (read \div frame_size) * frame_size
      src_frames_got == got \div frame_size
      mixed == Mixed(src_frames_got)
  IN
    /\ playing /\ read > 0
    /\ taken' = taken + read
    /\ torn' = (torn \/ read % frame_size # 0)
    /\ IF src_frames_got = 0
       THEN /\ heard' = << >> /\ short' = TRUE
            /\ UNCHANGED <<counters, next_byte>>
       ELSE /\ owed' = owed - Charged(got)
            /\ played_bytes' = played_bytes + got
            /\ short' = (got < src_bytes_want)
            /\ heard' = [i \in 1 .. mixed |->
                           [at |-> taken + Source(i - 1) * frame_size,
                            env |-> Envelope(src_frames_got, short', i - 1)]]
            /\ next_byte' = heard'[mixed].at + frame_size
            /\ frames_played' = Smaller(frames_played + mixed, SoftIn)
    /\ spoiled' = (spoiled \/ pushing > 0)
    /\ UNCHANGED <<format, playing, enqueued, pushing, counted>>

Next == Write \/ Push \/ Play \/ Pause \/ Flush \/ PumpReset \/ Callback

\* The device calls back as long as it is open, and an Enqueue is finished.
Spec == Init /\ [][Next]_vars /\ WF_vars(Callback) /\ WF_vars(Push)

-----------------------------------------------------------------------------
(* Properties.                                                               *)

\* The type of the player's stream.
TypeOK ==
  /\ sample_rate \in Rates /\ num_channels \in {1, 2} /\ device \in Devices
  /\ playing \in BOOLEAN
  /\ enqueued \in 0 .. MaxStream /\ taken \in 0 .. enqueued /\ Readable <= RingSize
  /\ owed \in Nat /\ pushing \in 0 .. RingSize /\ played_bytes \in 0 .. MaxStream
  /\ frames_played \in 0 .. SoftIn
  /\ heard \in Seq([at : Nat, env : Nat \X (Nat \ {0})]) /\ Len(heard) <= out_frames
  /\ next_byte \in 0 .. taken /\ short \in BOOLEAN
  /\ torn \in BOOLEAN /\ spoiled \in BOOLEAN /\ counted \in 0 .. taken

\* Until a callback finds an incomplete frame in the ring the stream stays in step
\* with its frames, and the position GetPosition reports is what has been played
\* since the account was last emptied.  The account of buffers is, but for a
\* buffer that is being enqueued, what the ring holds, until a callback or a reset
\* falls inside an Enqueue or the pump resets a player that has been fed again.
AccountFollowsRing ==
  ~torn =>
    /\ taken % frame_size = 0 /\ played_bytes + counted = taken
    /\ ~spoiled => owed + pushing = Readable

\* Source frames one output frame steps over, rounded up.
Stride == (sample_rate + OutRate - 1) \div OutRate

\* Bytes of the frames that a callback takes and does not mix, at most.
Spared == IF Direct THEN 0 ELSE (Stride + 2) * frame_size

\* The stream is heard in order, across callbacks too: none of its frames twice
\* but for a rate below the device's, none left out but for a rate above it and
\* the frames the resampler asks to spare, Stride and two at each callback's end.
HeardInOrder ==
  [][heard' # << >> /\ taken' # taken /\ ~torn =>
       /\ heard'[1].at \in next_byte .. next_byte + Spared
       /\ \A i \in 2 .. Len(heard') :
            heard'[i].at - heard'[i - 1].at \in 0 .. Stride * frame_size
       /\ next_byte' <= taken']_vars

\* Fractions: a is at most b.
AtMost(a, b) == a[1] * b[2] <= b[1] * a[2]

\* The sound is faded in once: while callbacks get all they want the envelope
\* never falls, inside a callback or from one to the next.
NoDips ==
  [][taken' > taken /\ ~short' =>
       /\ heard # << >> /\ ~short => AtMost(heard[Len(heard)].env, heard'[1].env)
       /\ \A i \in 2 .. Len(heard') : AtMost(heard'[i - 1].env, heard'[i].env)]_vars

\* A callback that got all it wanted, if this fits the temporary buffer, leaves
\* no gap in the device's buffer exactly when the device asks for no more than
\* SDL_AUDIO_SAMPLES frames: the callback fills no more of a longer one, which
\* SDL_AUDIO_ALLOW_SAMPLES_CHANGE lets the device have.
NoGapWhenStocked ==
  heard # << >> /\ ~short /\ src_frames_needed * frame_size <= TmpBytes
    => (Len(heard) = device <=> device <= Samples)

\* No callback counts bytes that it never had, none leaves more than
\* Spared between what was heard and what comes next, and none that got all it
\* wanted ends louder than the next may begin.
HandsOver ==
  /\ played_bytes <= taken
  /\ ~torn => taken - next_byte <= Spared
  /\ heard # << >> /\ ~short => AtMost(heard[Len(heard)].env, FadeIn(0))

\* A mixed chunk, at any time: in its types, and with the gaps it must have; the
\* inductive invariant of the proofs, with AccountFollowsRing.
MixedInv == TypeOK /\ HandsOver /\ NoGapWhenStocked

\* Output frames the fade-out takes when there is that much to fade.
FadeFrames ==
  LET len == IF Direct THEN SoftOut ELSE (SoftOut * OutRate) \div sample_rate
  IN IF len = 0 THEN 1 ELSE len

\* src/opensles_shim.c:292: "got less than requested = fade out last frames to
\* avoid click".  When the sound breaks off inside the device's buffer, other than
\* at the SDL_AUDIO_SAMPLES frames the callback fills of a longer one, its last
\* frame is at the last step of the fade or below, also after resampling.
FadesBeforeSilence ==
  heard # << >> /\ Len(heard) < device /\ Len(heard) # Samples
    /\ src_frames_needed * frame_size <= TmpBytes
    => LET env == heard[Len(heard)].env
       IN AtMost(env, <<1, Smaller(FadeFrames, Len(heard))>>)

\* A player that goes on playing hears all that was enqueued, unless a frame was
\* torn, and its account gets empty, unless it was spoiled.
Drains == playing ~> (Readable = 0 /\ (owed = 0 \/ spoiled)) \/ torn \/ ~playing
=============================================================================
