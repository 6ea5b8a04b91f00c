------------------------ MODULE AudioCallback_proofs ------------------------
(* Proofs about what the audio callback works on.  Mixer, for every rate,    *)
(* device, ring and buffer size: the account of buffers and the position     *)
(* that GetPosition reports follow the ring until an incomplete frame is     *)
(* torn off, and what callbacks mix is in order, without gaps and faded at   *)
(* its edges.  PlayerPool, for every table and any number of threads: the    *)
(* count of players, the two locks and the searches of alloc_player, by      *)
(* which no two live handles name one entry while the table has room.        *)
EXTENDS Mixer, PlayerPool, FiniteSetTheorems, WellFoundedInduction, TLAPS

-----------------------------------------------------------------------------
(* Whole frames.  A frame has two bytes or four.                             *)

\* The whole frames among n bytes are at most n bytes, and all of them if no
\* frame is incomplete; less than one frame has none.
LEMMA WholeFrames ==
  ASSUME NEW size \in {2, 4}, NEW n \in Nat
  PROVE  LET whole == (n \div size) * size IN
           /\ whole \in 0 .. n /\ whole % size = 0 /\ whole \div size = n \div size
           /\ n % size = 0 => whole = n
           /\ n \div size = 0 /\ n > 0 => n % size # 0
  <1>1. CASE size = 2
    BY <1>1, Z3
  <1>2. CASE size = 4
    BY <1>2, Z3
  <1> QED BY <1>1, <1>2

\* Whole frames after whole frames are whole frames.
LEMMA FramesAdd ==
  ASSUME NEW size \in {2, 4}, NEW a \in Nat, NEW b \in Nat, a % size = 0, b % size = 0
  PROVE  (a + b) % size = 0
  <1>1. CASE size = 2
    BY <1>1, Z3
  <1>2. CASE size = 4
    BY <1>2, Z3
  <1> QED BY <1>1, <1>2

-----------------------------------------------------------------------------
(* The inductive invariant.                                                  *)

\* The types of what the account depends on.
StreamTypeOK ==
  /\ sample_rate \in Rates /\ num_channels \in {1, 2} /\ device \in Devices
  /\ enqueued \in Nat /\ taken \in Nat /\ taken <= enqueued /\ Readable <= RingSize
  /\ owed \in Nat /\ pushing \in 0 .. RingSize /\ played_bytes \in Nat
  /\ torn \in BOOLEAN /\ spoiled \in BOOLEAN /\ counted \in 0 .. taken

MixerInv == StreamTypeOK /\ AccountFollowsRing

LEMMA RingIsThere == RingSize \in Nat
  BY MixerAssumption

\* What a callback wants and what it reads are numbers of bytes.
LEMMA ReadFacts ==
  ASSUME StreamTypeOK
  PROVE  /\ frame_size \in {2, 4} /\ Readable \in Nat
         /\ RingRead \in Nat /\ RingRead <= Readable
  <1>1. frame_size \in {2, 4}
    BY DEF StreamTypeOK, frame_size, SampleBytes
  <1>2. Readable \in Nat
    BY DEF StreamTypeOK, Readable
  <1>3. out_frames \in Nat
    BY MixerAssumption DEF StreamTypeOK, out_frames, Smaller
  <1>4. src_frames_needed \in Nat
    <2>1. CASE sample_rate = OutRate
      BY <2>1, <1>3 DEF src_frames_needed
    <2>2. CASE sample_rate # OutRate
      <3>1. sample_rate \in Nat /\ OutRate \in Nat \ {0}
        BY MixerAssumption DEF StreamTypeOK
      <3>2. out_frames * sample_rate \in Nat
        BY <1>3, <3>1
      <3>3. (out_frames * sample_rate) \div OutRate \in Nat
        BY <3>1, <3>2
      <3> QED BY <2>2, <3>3 DEF src_frames_needed
    <2> QED BY <2>1, <2>2
  <1>5. Smaller(src_frames_needed * frame_size, TmpBytes) \in Nat
    <2>1. src_frames_needed * frame_size \in Nat
      BY <1>1, <1>4
    <2>2. TmpBytes \in Nat
      BY MixerAssumption DEF TmpBytes, SampleBytes
    <2> QED BY <2>1, <2>2 DEF Smaller
  <1>6. src_bytes_want \in Nat
    <2> DEFINE n == Smaller(src_frames_needed * frame_size, TmpBytes)
    <2>1. (n \div frame_size) * frame_size \in 0 .. n
      BY <1>1, <1>5, WholeFrames
    <2> QED BY <1>5, <2>1 DEF src_bytes_want
  <1> QED BY <1>1, <1>2, <1>6 DEF RingRead, Smaller

LEMMA InitInv == Init => MixerInv
  <1> SUFFICES ASSUME Init PROVE MixerInv
    OBVIOUS
  <1>1. num_channels \in {1, 2} /\ 0 % frame_size = 0 /\ Readable = 0
    BY DEF Init, frame_size, SampleBytes, Readable
  <1>2. StreamTypeOK
    <2>1. torn \in BOOLEAN /\ spoiled \in BOOLEAN
      BY DEF Init
    <2>2. Readable <= RingSize /\ 0 \in 0 .. RingSize
      BY <1>1, RingIsThere
    <2> QED BY <2>1, <2>2 DEF Init, StreamTypeOK
  <1>3. AccountFollowsRing
    BY <1>1 DEF Init, AccountFollowsRing
  <1> QED BY <1>2, <1>3 DEF MixerInv

-----------------------------------------------------------------------------
(* One lemma for each action.                                                *)

LEMMA WriteInv == MixerInv /\ Write => MixerInv'
  <1> SUFFICES ASSUME MixerInv, Write PROVE MixerInv'
    OBVIOUS
  <1>1. PICK n \in Sizes :
          LET written == Smaller(n, RingSize - Readable) IN
            /\ pushing = 0 /\ written > 0
            /\ enqueued' = enqueued + written /\ pushing' = written
            /\ spoiled' \in {spoiled, spoiled \/ playing}
            /\ UNCHANGED <<format, taken, counters, torn, counted>>
    BY DEF Write
  <1> DEFINE written == Smaller(n, RingSize - Readable)
  <1>2. written \in Nat /\ written <= RingSize - Readable /\ written \in 0 .. RingSize
    <2>1. n \in Nat /\ RingSize \in Nat /\ Readable \in Nat /\ Readable <= RingSize
      BY MixerAssumption, ReadFacts DEF MixerInv, StreamTypeOK
    <2> QED BY <2>1 DEF Smaller
  <1>3. /\ enqueued' = enqueued + written /\ pushing' = written /\ pushing = 0
        /\ UNCHANGED <<sample_rate, num_channels, device, taken, owed, played_bytes, torn, counted>>
    BY <1>1 DEF format, counters
  <1>4. spoiled' \in BOOLEAN /\ (~spoiled' => ~spoiled)
    <2>1. spoiled \in BOOLEAN /\ (spoiled \/ playing) \in BOOLEAN
      BY DEF MixerInv, StreamTypeOK
    <2> QED BY <1>1, <2>1
  <1> HIDE DEF written
  <1>5. Readable' = Readable + written
    BY <1>2, <1>3 DEF Readable, MixerInv, StreamTypeOK
  <1>6. StreamTypeOK'
    <2>1. Readable' <= RingSize
      BY <1>2, <1>5, MixerAssumption, ReadFacts DEF MixerInv
    <2>2. enqueued' \in Nat /\ taken' \in Nat /\ taken' <= enqueued' /\ pushing' \in 0 .. RingSize
      BY <1>2, <1>3 DEF MixerInv, StreamTypeOK
    <2> QED BY <1>3, <1>4, <2>1, <2>2 DEF MixerInv, StreamTypeOK
  <1>7. AccountFollowsRing'
    <2>1. frame_size' = frame_size
      BY <1>3 DEF frame_size
    <2>2. owed + 0 = Readable => owed + written = Readable + written
      BY DEF MixerInv, StreamTypeOK
    <2> QED BY <1>3, <1>4, <1>5, <2>1, <2>2 DEF MixerInv, AccountFollowsRing
  <1> QED BY <1>6, <1>7 DEF MixerInv

LEMMA PushInv == MixerInv /\ Push => MixerInv'
  <1> SUFFICES ASSUME MixerInv, Push PROVE MixerInv'
    OBVIOUS
  <1>1. /\ owed' = owed + pushing /\ pushing' = 0
        /\ UNCHANGED <<sample_rate, num_channels, device, enqueued, taken, played_bytes, torn,
                       spoiled, counted>>
    BY DEF Push, format
  <1>2. owed \in Nat /\ pushing \in Nat /\ 0 \in 0 .. RingSize
    BY RingIsThere DEF MixerInv, StreamTypeOK
  <1>3. Readable' = Readable /\ frame_size' = frame_size /\ owed' \in Nat /\ owed' + pushing' = owed + pushing
    BY <1>1, <1>2 DEF Readable, frame_size
  <1>4. StreamTypeOK'
    BY <1>1, <1>2, <1>3 DEF MixerInv, StreamTypeOK
  <1>5. AccountFollowsRing'
    BY <1>1, <1>3 DEF MixerInv, AccountFollowsRing
  <1> QED BY <1>4, <1>5 DEF MixerInv

LEMMA PlayPauseInv == MixerInv /\ (Play \/ Pause) => MixerInv'
  <1> SUFFICES ASSUME MixerInv, Play \/ Pause PROVE MixerInv'
    OBVIOUS
  <1>1. UNCHANGED <<sample_rate, num_channels, device, enqueued, taken, owed, pushing, played_bytes,
                    torn, spoiled, counted>>
    BY DEF Play, Pause, format, counters
  <1> QED BY <1>1 DEF MixerInv, StreamTypeOK, AccountFollowsRing, Readable, frame_size

LEMMA FlushInv == MixerInv /\ Flush => MixerInv'
  <1> SUFFICES ASSUME MixerInv, Flush PROVE MixerInv'
    OBVIOUS
  <1>1. /\ enqueued' = 0 /\ taken' = 0 /\ owed' = 0 /\ played_bytes' = 0 /\ torn' = FALSE
        /\ counted' = 0
        /\ UNCHANGED <<sample_rate, num_channels, device, pushing>>
    BY DEF Flush, format
  <1>2. spoiled' = (pushing > 0)
    BY DEF Flush
  <1>3. Readable' = 0 /\ 0 % frame_size' = 0
    BY <1>1 DEF Readable, frame_size, SampleBytes, MixerInv, StreamTypeOK
  <1>4. StreamTypeOK'
    <2>1. torn' \in BOOLEAN
      BY <1>1, Zenon
    <2>2. counted' \in 0 .. taken'
      <3>1. 0 \in 0 .. 0
        OBVIOUS
      <3> QED BY <1>1, <3>1, Zenon
    <2>3. spoiled' \in BOOLEAN
      <3>1. (pushing > 0) \in BOOLEAN
        OBVIOUS
      <3> QED BY <1>2, <3>1, Zenon
    <2>4. Readable' <= RingSize
      BY <1>3, RingIsThere
    <2> QED BY <1>1, <2>1, <2>2, <2>3, <2>4 DEF MixerInv, StreamTypeOK
  <1>5. AccountFollowsRing'
    <2>1. ~spoiled' => pushing' = 0
      <3>1. pushing \in Nat /\ (~(pushing > 0) => pushing = 0)
        BY RingIsThere DEF MixerInv, StreamTypeOK
      <3>2. ~spoiled' => ~(pushing > 0)
        BY <1>2, Zenon
      <3> QED BY <1>1, <3>1, <3>2
    <2> QED BY <1>1, <1>3, <2>1 DEF AccountFollowsRing
  <1> QED BY <1>4, <1>5 DEF MixerInv

LEMMA PumpResetInv == MixerInv /\ PumpReset => MixerInv'
  <1> SUFFICES ASSUME MixerInv, PumpReset PROVE MixerInv'
    OBVIOUS
  <1>1. /\ owed' = 0 /\ played_bytes' = 0
        /\ counted' = taken
        /\ UNCHANGED <<sample_rate, num_channels, device, enqueued, taken, pushing, torn>>
    BY DEF PumpReset, format
  <1>2. spoiled' = (pushing > 0 \/ Readable > 0)
    BY DEF PumpReset
  <1>3. /\ pushing \in Nat /\ taken \in Nat /\ Readable \in Nat /\ Readable' = Readable
        /\ frame_size' = frame_size
    BY <1>1, ReadFacts, RingIsThere DEF MixerInv, StreamTypeOK, Readable, frame_size
  <1>4. StreamTypeOK'
    <2>1. counted' \in 0 .. taken' /\ owed' \in Nat /\ played_bytes' \in Nat
      BY <1>1, <1>3
    <2>2. spoiled' \in BOOLEAN
      <3>1. (pushing > 0 \/ Readable > 0) \in BOOLEAN
        OBVIOUS
      <3> QED BY <1>2, <3>1, Zenon
    <2> QED BY <1>1, <1>3, <2>1, <2>2 DEF MixerInv, StreamTypeOK
  <1>5. AccountFollowsRing'
    <2>1. ~spoiled' => pushing' = 0 /\ Readable' = 0
      <3>1. ~spoiled' => ~(pushing > 0) /\ ~(Readable > 0)
        BY <1>2, Zenon
      <3>2. (~(pushing > 0) => pushing = 0) /\ (~(Readable > 0) => Readable = 0)
        BY <1>3
      <3> QED BY <1>1, <1>3, <3>1, <3>2
    <2>2. played_bytes' + counted' = taken'
      BY <1>1, <1>3
    <2> QED BY <1>1, <1>3, <2>1, <2>2 DEF MixerInv, AccountFollowsRing
  <1> QED BY <1>4, <1>5 DEF MixerInv

LEMMA CallbackInv == MixerInv /\ Callback => MixerInv'
  <1> SUFFICES ASSUME MixerInv, Callback PROVE MixerInv'
    OBVIOUS
  <1> DEFINE read == RingRead
             got == (read \div frame_size) * frame_size
  <1>1. /\ frame_size \in {2, 4} /\ Readable \in Nat
        /\ read \in Nat /\ read <= Readable /\ read > 0
    BY ReadFacts DEF MixerInv, Callback
  <1>2. /\ got \in 0 .. read /\ got \div frame_size = read \div frame_size
        /\ read % frame_size = 0 => got = read
        /\ read \div frame_size = 0 => read % frame_size # 0
    BY <1>1, WholeFrames
  <1>3. /\ taken' = taken + read /\ enqueued' = enqueued
        /\ torn' = (torn \/ read % frame_size # 0) /\ spoiled' = (spoiled \/ pushing > 0)
        /\ UNCHANGED <<sample_rate, num_channels, device, pushing, counted>>
    BY DEF Callback, format
  <1>4. \/ got \div frame_size = 0 /\ owed' = owed /\ played_bytes' = played_bytes
        \/ owed' = owed - Charged(got) /\ played_bytes' = played_bytes + got
    BY DEF Callback, counters
  <1> HIDE DEF read, got
  <1>5. Readable' = Readable - read
    BY <1>1, <1>3 DEF Readable, MixerInv, StreamTypeOK
  <1>6. Charged(got) \in 0 .. owed
    BY <1>1, <1>2 DEF Charged, Smaller, MixerInv, StreamTypeOK
  <1>7. StreamTypeOK'
    <2>1. owed' \in Nat /\ played_bytes' \in Nat
      BY <1>1, <1>2, <1>4, <1>6 DEF MixerInv, StreamTypeOK
    <2>2. taken' \in Nat /\ taken' <= enqueued' /\ Readable' <= RingSize
      BY <1>1, <1>3, <1>5, MixerAssumption DEF Readable, MixerInv, StreamTypeOK
    <2>3. torn' \in BOOLEAN /\ spoiled' \in BOOLEAN
      BY <1>3
    <2>4. counted' \in 0 .. taken' /\ pushing' \in 0 .. RingSize
      BY <1>1, <1>3 DEF MixerInv, StreamTypeOK
    <2>5. sample_rate' \in Rates /\ num_channels' \in {1, 2} /\ device' \in Devices /\ enqueued' \in Nat
      BY <1>3 DEF MixerInv, StreamTypeOK
    <2> QED BY <2>1, <2>2, <2>3, <2>4, <2>5 DEF StreamTypeOK
  <1>8. AccountFollowsRing'
    <2> SUFFICES ASSUME ~torn'
                 PROVE  /\ ~spoiled' => owed' + pushing' = Readable'
                        /\ played_bytes' + counted' = taken' /\ taken' % frame_size' = 0
      BY DEF AccountFollowsRing
    <2>1. ~torn /\ read % frame_size = 0
      BY <1>3
    <2>2. /\ played_bytes + counted = taken /\ taken % frame_size = 0
          /\ ~spoiled => owed + pushing = Readable
      BY <2>1 DEF MixerInv, AccountFollowsRing
    <2>3. got = read /\ owed' = owed - Charged(got) /\ played_bytes' = played_bytes + got
      BY <1>2, <1>4, <2>1
    <2>4. ~spoiled' => owed' + pushing' = Readable'
      <3> SUFFICES ASSUME ~spoiled' PROVE owed' + pushing' = Readable'
        OBVIOUS
      <3>1. ~spoiled /\ pushing = 0 /\ pushing' = 0
        <4>1. ~spoiled /\ ~(pushing > 0)
          BY <1>3
        <4>2. pushing \in Nat
          BY RingIsThere DEF MixerInv, StreamTypeOK
        <4> QED BY <1>3, <4>1, <4>2
      <3>2. owed \in Nat /\ owed = Readable
        BY <2>2, <3>1 DEF MixerInv, StreamTypeOK
      <3>3. Charged(got) = read
        BY <1>1, <2>3, <3>2 DEF Charged, Smaller
      <3> QED BY <1>1, <1>5, <2>3, <3>1, <3>2, <3>3
    <2>5. (taken + read) % frame_size = 0
      BY <1>1, <2>1, <2>2, FramesAdd DEF MixerInv, StreamTypeOK
    <2>6. frame_size' = frame_size
      BY <1>3 DEF frame_size
    <2>7. played_bytes' + counted' = taken'
      <3>1. played_bytes \in Nat /\ counted \in Nat /\ taken \in Nat
        BY DEF MixerInv, StreamTypeOK
      <3> QED BY <1>1, <1>3, <2>2, <2>3, <3>1
    <2> QED BY <1>3, <2>4, <2>5, <2>6, <2>7
  <1> QED BY <1>7, <1>8 DEF MixerInv

LEMMA NextInv == MixerInv /\ [Next]_vars => MixerInv'
  <1> SUFFICES ASSUME MixerInv, [Next]_vars PROVE MixerInv'
    OBVIOUS
  <1>1. CASE UNCHANGED vars
    <2>1. UNCHANGED <<sample_rate, num_channels, device, enqueued, taken, owed, pushing, played_bytes,
                      torn, spoiled, counted>>
      BY <1>1 DEF vars, format, counters
    <2> QED BY <2>1 DEF MixerInv, StreamTypeOK, AccountFollowsRing, Readable, frame_size
  <1> QED BY <1>1, WriteInv, PushInv, PlayPauseInv, FlushInv, PumpResetInv, CallbackInv DEF Next

-----------------------------------------------------------------------------
(* Products and quotients.                                                   *)

LEMMA UnscaleLess ==
  ASSUME NEW a \in Int, NEW b \in Int, NEW c \in Nat \ {0}, a * c < b * c
  PROVE  a < b
  BY Z3

LEMMA UnscaleLe ==
  ASSUME NEW a \in Int, NEW b \in Int, NEW c \in Nat \ {0}, a * c <= b * c
  PROVE  a <= b
  BY Z3

LEMMA DivFacts ==
  ASSUME NEW n \in Nat, NEW d \in Nat \ {0}
  PROVE  n \div d \in Nat /\ (n \div d) * d <= n /\ n < (n \div d) * d + d
  BY Z3

LEMMA DivLeast ==
  ASSUME NEW n \in Nat, NEW d \in Nat \ {0}, NEW q \in Nat, q * d <= n
  PROVE  q <= n \div d
  <1> DEFINE k == n \div d
  <1>1. k \in Nat /\ n < k * d + d
    BY DivFacts
  <1> HIDE DEF k
  <1>2. q * d < (k + 1) * d
    BY <1>1, Z3
  <1>3. q < k + 1
    BY <1>1, <1>2, UnscaleLess
  <1>4. q <= k
    BY <1>1, <1>3
  <1> QED BY <1>4 DEF k

\* What is asked for beyond what F frames of the fixed-point step S reach.
LEMMA SpareFrames ==
  ASSUME NEW F \in Nat \ {0}, NEW R \in Nat \ {0}, NEW O \in Nat \ {0}, NEW U \in Nat, F <= U,
         NEW st \in Nat, R * U < st * O + O,
         NEW S \in Nat, (F - 1) * st < S * U + U,
         NEW A \in Nat, A * O <= F * R, NEW W \in Nat, R <= W * O
  PROVE  A < S + 2 + W
  <1>1. (F - 1) * st * O < (S + 1) * U * O
    BY Z3
  <1>2. (F - 1) * (R * U) <= (F - 1) * (st * O + O)
    BY Z3
  <1>3. (F - 1) * O <= U * O
    BY Z3
  <1>4. (F - 1) * R * U < (S + 2) * O * U
    BY <1>1, <1>2, <1>3, Z3
  <1>5. (F - 1) * R < (S + 2) * O
    BY <1>4, Z3
  <1>6. A * O < (S + 2 + W) * O
    BY <1>5, Z3
  <1> QED BY <1>6, Z3

LEMMA LeastOf ==
  ASSUME NEW T \in SUBSET Nat, T # {}
  PROVE  \E x \in T : \A y \in T : x <= y
  <1> DEFINE R == OpToRel(<, Nat)
  <1>1. IsWellFoundedOn(R, Nat)
    BY NatLessThanWellFounded, Zenon
  <1>2. \A x, y \in Nat : x < y => <<x, y>> \in R
    BY DEF OpToRel
  <1> HIDE DEF R
  <1>3. \E x \in T : \A y \in T : ~ (<<y, x>> \in R)
    BY <1>1, WFMin
  <1>4. PICK x \in T : \A y \in T : ~ (<<y, x>> \in R)
    BY <1>3
  <1>5. \A y \in T : ~ (y < x)
    BY <1>2, <1>4
  <1> QED BY <1>5

\* A set of numbers without gaps has as many elements as its first absentee.
LEMMA WithoutGaps ==
  ASSUME NEW n \in Nat, NEW S \in SUBSET (0 .. n - 1), \A x \in S : \A y \in 0 .. x : y \in S
  PROVE  Cardinality(S) \in 0 .. n /\ \A x \in 0 .. n - 1 : x \in S <=> x < Cardinality(S)
  <1> DEFINE T == Nat \ S
  <1>1. T \in SUBSET Nat /\ n \in T
    OBVIOUS
  <1>2. PICK m \in T : \A y \in T : m <= y
    BY <1>1, LeastOf
  <1>3. m \in Nat /\ m \notin S /\ m <= n
    BY <1>1, <1>2
  <1>4. \A x \in Nat : x < m => x \in S
    BY <1>2, <1>3
  <1>5. \A x \in S : x \in Nat /\ x < m
    BY <1>3
  <1>6. S = 0 .. m - 1
    <2>1. \A x : x \in 0 .. m - 1 <=> x \in Nat /\ x < m
      BY <1>3
    <2>2. \A x : x \in S <=> x \in Nat /\ x < m
      BY <1>4, <1>5
    <2> QED BY <2>1, <2>2
  <1>7. Cardinality(0 .. m - 1) = m
    <2>1. Cardinality(0 .. m - 1) = IF 0 > m - 1 THEN 0 ELSE m - 1 - 0 + 1
      BY <1>3, FS_Interval
    <2> QED BY <2>1, <1>3
  <1> QED BY <1>3, <1>4, <1>5, <1>6, <1>7

-----------------------------------------------------------------------------
(* The resampler.                                                            *)

LEMMA RateFacts ==
  ASSUME StreamTypeOK
  PROVE  /\ sample_rate \in Nat \ {0} /\ OutRate \in Nat \ {0} /\ One \in Nat \ {0}
         /\ out_frames \in Nat \ {0} /\ out_frames < One
         /\ SoftIn \in Nat \ {0} /\ SoftOut \in Nat \ {0}
         /\ frame_size \in {2, 4} /\ TmpBytes \in Nat
         /\ step \in Nat /\ step * OutRate <= sample_rate * One
         /\ sample_rate * One < step * OutRate + OutRate
         /\ Stride \in Nat \ {0} /\ sample_rate <= Stride * OutRate
         /\ sample_rate = OutRate => step = One
         /\ num_channels \in {1, 2}
  <1>1. /\ sample_rate \in Nat \ {0} /\ OutRate \in Nat \ {0} /\ One \in Nat \ {0}
        /\ device \in Nat \ {0} /\ Samples \in Nat \ {0} /\ Samples < One
        /\ SoftIn \in Nat \ {0} /\ SoftOut \in Nat \ {0} /\ num_channels \in {1, 2}
    BY MixerAssumption DEF StreamTypeOK
  <1>2. out_frames \in Nat \ {0} /\ out_frames < One
    BY <1>1 DEF out_frames, Smaller
  <1>3. frame_size \in {2, 4} /\ TmpBytes \in Nat
    BY <1>1, ReadFacts DEF TmpBytes, SampleBytes
  <1>4. sample_rate * One \in Nat
    BY <1>1
  <1>5. step \in Nat /\ step * OutRate <= sample_rate * One /\ sample_rate * One < step * OutRate + OutRate
    BY <1>1, <1>4, DivFacts DEF step
  <1>6. Stride \in Nat \ {0} /\ sample_rate <= Stride * OutRate
    <2> DEFINE n == sample_rate + OutRate - 1
               w == n \div OutRate
    <2>1. n \in Nat
      BY <1>1
    <2> HIDE DEF n
    <2>2. w \in Nat /\ n < w * OutRate + OutRate
      BY <1>1, <2>1, DivFacts
    <2> HIDE DEF w
    <2>3. w * OutRate \in Nat
      BY <1>1, <2>2
    <2>4. sample_rate <= w * OutRate
      BY <1>1, <2>2, <2>3 DEF n
    <2>5. w # 0
      BY <1>1, <2>4
    <2>6. Stride = w
      BY DEF Stride, w, n
    <2> QED BY <2>2, <2>4, <2>5, <2>6
  <1>7. sample_rate = OutRate => step = One
    <2> SUFFICES ASSUME sample_rate = OutRate PROVE step = One
      OBVIOUS
    <2>1. step * OutRate <= One * OutRate /\ One * OutRate < (step + 1) * OutRate
      BY <1>1, <1>5, Z3
    <2>2. step <= One /\ One < step + 1
      BY <1>1, <1>5, <2>1, UnscaleLe, UnscaleLess
    <2> QED BY <1>1, <1>5, <2>2
  <1> QED BY <1>1, <1>2, <1>3, <1>5, <1>6, <1>7

\* Where an output frame begins: at no frame later than its time, and one output
\* frame steps over Stride source frames at most.
LEMMA SourceFacts ==
  ASSUME StreamTypeOK, NEW f \in Nat
  PROVE  /\ Source(f) \in Nat /\ Source(f) * OutRate <= f * sample_rate
         /\ f * step < Source(f) * One + One
         /\ sample_rate = OutRate => Source(f) = f
         /\ \A g \in Nat : f <= g => Source(f) <= Source(g)
         /\ Source(f + 1) <= Source(f) + Stride
  <1>1. /\ sample_rate \in Nat \ {0} /\ OutRate \in Nat \ {0} /\ One \in Nat \ {0}
        /\ step \in Nat /\ step * OutRate <= sample_rate * One
        /\ Stride \in Nat \ {0} /\ sample_rate <= Stride * OutRate
        /\ sample_rate = OutRate => step = One
    BY RateFacts
  <1>2. \A g \in Nat : /\ Source(g) \in Nat /\ Source(g) * One <= g * step
                       /\ g * step < Source(g) * One + One
                       /\ Source(g) = (g * step) \div One
    <2> SUFFICES ASSUME NEW g \in Nat
                 PROVE  /\ Source(g) \in Nat /\ Source(g) * One <= g * step
                        /\ g * step < Source(g) * One + One
                        /\ Source(g) = (g * step) \div One
      OBVIOUS
    <2>1. g * step \in Nat
      BY <1>1
    <2> DEFINE s == (g * step) \div One
    <2>2. s \in Nat /\ s * One <= g * step /\ g * step < s * One + One
      BY <1>1, <2>1, DivFacts
    <2>3. Source(g) = s
      <3>1. CASE Direct
        <4>1. step = One /\ Source(g) = g
          BY <1>1, <3>1 DEF Direct, Source
        <4> HIDE DEF s
        <4>2. s * One <= g * One /\ g * One < (s + 1) * One
          BY <1>1, <2>2, <4>1, Z3
        <4>3. s <= g /\ g < s + 1
          BY <1>1, <2>2, <4>2, UnscaleLe, UnscaleLess
        <4> QED BY <2>2, <4>1, <4>3
      <3>2. CASE ~Direct
        BY <3>2 DEF Source
      <3> QED BY <3>1, <3>2
    <2> QED BY <2>2, <2>3
  <1>3. Source(f) * OutRate <= f * sample_rate
    <2> DEFINE s == Source(f)
    <2>1. s \in Nat /\ s * One <= f * step
      BY <1>2
    <2> HIDE DEF s
    <2>2. s * One * OutRate <= f * step * OutRate
      BY <1>1, <2>1, Z3
    <2>3. f * (step * OutRate) <= f * (sample_rate * One)
      BY <1>1, Z3
    <2>4. (s * OutRate) * One <= (f * sample_rate) * One
      BY <1>1, <2>1, <2>2, <2>3, Z3
    <2>5. s * OutRate <= f * sample_rate
      BY <1>1, <2>1, <2>4, UnscaleLe
    <2> QED BY <2>5 DEF s
  <1>4. sample_rate = OutRate => Source(f) = f
    <2> SUFFICES ASSUME sample_rate = OutRate PROVE Source(f) = f
      OBVIOUS
    <2> DEFINE s == Source(f)
    <2>1. s \in Nat /\ s * One <= f * One /\ f * One < s * One + One
      BY <1>1, <1>2
    <2> HIDE DEF s
    <2>2. f * One < (s + 1) * One
      BY <1>1, <2>1, Z3
    <2>3. s <= f /\ f < s + 1
      BY <1>1, <2>1, <2>2, UnscaleLe, UnscaleLess
    <2>4. s = f
      BY <2>1, <2>3
    <2> QED BY <2>4 DEF s
  <1>5. ASSUME NEW g \in Nat, f <= g PROVE Source(f) <= Source(g)
    <2> DEFINE s == Source(f)
    <2>1. s \in Nat /\ s * One <= f * step
      BY <1>2
    <2> HIDE DEF s
    <2>2. f * step <= g * step
      BY <1>1, <1>5, Z3
    <2>3. g * step \in Nat /\ s * One <= g * step
      BY <1>1, <2>1, <2>2
    <2>4. s <= (g * step) \div One
      BY <1>1, <2>1, <2>3, DivLeast
    <2> QED BY <1>2, <2>4 DEF s
  <1>6. Source(f + 1) <= Source(f) + Stride
    <2> DEFINE s == Source(f)
               u == Source(f + 1)
    <2>1. s \in Nat /\ f * step < s * One + One /\ u \in Nat /\ u * One <= (f + 1) * step
      BY <1>2
    <2> HIDE DEF s, u
    <2>2. step <= Stride * One
      <3>1. sample_rate * One <= Stride * OutRate * One
        BY <1>1, Z3
      <3>2. step * OutRate <= (Stride * One) * OutRate
        BY <1>1, <3>1, Z3
      <3> QED BY <1>1, <3>2, UnscaleLe
    <2>3. u * One < (s + Stride + 1) * One
      BY <1>1, <2>1, <2>2, Z3
    <2>4. u < s + Stride + 1
      BY <1>1, <2>1, <2>3, UnscaleLess
    <2>5. u <= s + Stride
      BY <1>1, <2>1, <2>4
    <2> QED BY <2>5 DEF s, u
  <1> QED BY <1>2, <1>3, <1>4, <1>5, <1>6

LEMMA SourceBegins == StreamTypeOK => Source(0) = 0
  <1> SUFFICES ASSUME StreamTypeOK PROVE Source(0) = 0
    OBVIOUS
  <1>1. /\ Source(0) \in Nat /\ Source(0) * OutRate <= 0 * sample_rate
        /\ sample_rate \in Nat /\ OutRate \in Nat \ {0}
    BY RateFacts, SourceFacts
  <1>2. Source(0) * OutRate <= 0 * OutRate
    BY <1>1
  <1>3. Source(0) <= 0
    BY <1>1, <1>2, UnscaleLe
  <1> QED BY <1>1, <1>3

\* The frames mixed are the first ones, those whose source frames were got.
LEMMA MixedFacts ==
  ASSUME StreamTypeOK, NEW k \in Nat \ {0}
  PROVE  /\ Mixed(k) \in 1 .. out_frames
         /\ \A f \in 0 .. out_frames - 1 : Source(f) < k <=> f < Mixed(k)
  <1> DEFINE S == {f \in 0 .. out_frames - 1 : Source(f) < k}
  <1>1. out_frames \in Nat \ {0}
    BY RateFacts
  <1>2. S \in SUBSET (0 .. out_frames - 1)
    OBVIOUS
  <1>3. ASSUME NEW x \in S, NEW y \in 0 .. x PROVE y \in S
    <2>1. x \in Nat /\ y \in Nat /\ y <= x /\ y \in 0 .. out_frames - 1
      BY <1>1
    <2>2. Source(y) <= Source(x) /\ Source(y) \in Nat /\ Source(x) \in Nat /\ Source(x) < k
      BY <2>1, SourceFacts
    <2> QED BY <2>1, <2>2
  <1>4. 0 \in S
    BY <1>1, SourceBegins
  <1>5. Mixed(k) = Cardinality(S)
    BY DEF Mixed
  <1>6. \A f \in 0 .. out_frames - 1 : f \in S <=> Source(f) < k
    OBVIOUS
  <1> HIDE DEF S
  <1>7. Cardinality(S) \in 0 .. out_frames /\ \A x \in 0 .. out_frames - 1 : x \in S <=> x < Cardinality(S)
    BY <1>1, <1>2, <1>3, WithoutGaps
  <1>8. 0 < Cardinality(S)
    BY <1>1, <1>4, <1>7
  <1> QED BY <1>1, <1>5, <1>6, <1>7, <1>8

-----------------------------------------------------------------------------
(* The envelope.                                                             *)

Envelopes == Nat \X (Nat \ {0})

LEMMA AtMostFacts ==
  /\ \A a \in Envelopes : AtMost(a, a)
  /\ \A a, b, c \in Envelopes : AtMost(a, b) /\ AtMost(b, c) => AtMost(a, c)
  /\ \A a, b \in Envelopes : /\ LowerOf(a, b) \in Envelopes
                             /\ AtMost(LowerOf(a, b), b)
  <1>1. \A a \in Envelopes : /\ a[1] \in Nat /\ a[2] \in Nat \ {0}
    BY DEF Envelopes
  <1>2. ASSUME NEW a \in Envelopes PROVE AtMost(a, a)
    <2>1. a[1] \in Nat /\ a[2] \in Nat
      BY <1>1
    <2> QED BY <2>1 DEF AtMost
  <1>3. ASSUME NEW a \in Envelopes, NEW b \in Envelopes, NEW c \in Envelopes,
               AtMost(a, b), AtMost(b, c)
        PROVE  AtMost(a, c)
    <2> DEFINE a1 == a[1]
               a2 == a[2]
               b1 == b[1]
               b2 == b[2]
               c1 == c[1]
               c2 == c[2]
    <2>1. /\ a1 \in Nat /\ a2 \in Nat \ {0} /\ b1 \in Nat /\ b2 \in Nat \ {0}
          /\ c1 \in Nat /\ c2 \in Nat \ {0} /\ a1 * b2 <= b1 * a2 /\ b1 * c2 <= c1 * b2
      BY <1>1, <1>3 DEF AtMost
    <2> HIDE DEF a1, a2, b1, b2, c1, c2
    <2>2. (a1 * b2) * c2 <= (b1 * a2) * c2
      BY <2>1, Z3
    <2>3. (b1 * c2) * a2 <= (c1 * b2) * a2
      BY <2>1, Z3
    <2>4. (a1 * c2) * b2 <= (c1 * a2) * b2
      BY <2>1, <2>2, <2>3, Z3
    <2>5. a1 * c2 <= c1 * a2
      BY <2>1, <2>4, UnscaleLe
    <2> QED BY <2>5 DEF AtMost, a1, a2, c1, c2
  <1>4. ASSUME NEW a \in Envelopes, NEW b \in Envelopes
        PROVE  LowerOf(a, b) \in Envelopes /\ AtMost(LowerOf(a, b), b)
    <2>1. a[1] * b[2] \in Nat /\ b[1] * a[2] \in Nat
      BY <1>1
    <2>2. CASE b[1] * a[2] < a[1] * b[2]
      BY <2>2, <1>2 DEF LowerOf
    <2>3. CASE ~(b[1] * a[2] < a[1] * b[2])
      BY <2>1, <2>3 DEF LowerOf, AtMost
    <2> QED BY <2>2, <2>3
  <1> QED BY <1>2, <1>3, <1>4

LEMMA FadeInFacts ==
  ASSUME StreamTypeOK, frames_played \in Nat, NEW f \in Nat
  PROVE  FadeIn(f) \in Envelopes /\ AtMost(FadeIn(f), FadeIn(f + 1))
  <1>1. SoftIn \in Nat \ {0}
    BY RateFacts
  <1>2. FadeIn(f) \in Envelopes
    BY <1>1 DEF FadeIn, Envelopes
  <1>3. CASE frames_played + f + 1 < SoftIn
    <2>1. FadeIn(f) = <<frames_played + f, SoftIn>> /\ FadeIn(f + 1) = <<frames_played + (f + 1), SoftIn>>
      BY <1>1, <1>3 DEF FadeIn
    <2>2. (frames_played + f) * SoftIn <= (frames_played + (f + 1)) * SoftIn
      BY <1>1, Z3
    <2> QED BY <1>2, <2>1, <2>2 DEF AtMost
  <1>4. CASE ~(frames_played + f + 1 < SoftIn)
    <2>1. FadeIn(f + 1) = <<1, 1>>
      BY <1>1, <1>4 DEF FadeIn
    <2>2. FadeIn(f) = <<1, 1>> \/ (FadeIn(f) = <<frames_played + f, SoftIn>> /\ frames_played + f < SoftIn)
      BY DEF FadeIn
    <2>3. CASE FadeIn(f) = <<1, 1>>
      BY <1>2, <2>1, <2>3 DEF AtMost
    <2>4. CASE FadeIn(f) = <<frames_played + f, SoftIn>> /\ frames_played + f < SoftIn
      BY <1>1, <1>2, <2>1, <2>4 DEF AtMost
    <2> QED BY <2>2, <2>3, <2>4
  <1> QED BY <1>2, <1>3, <1>4

\* A place in the source, in output frames.
Mapped(n) == (n * OutRate) \div sample_rate

LEMMA FadeOutIs ==
  ASSUME StreamTypeOK, NEW k \in Nat \ {0}, NEW f \in Nat
  PROVE  LET src_len == Smaller(SoftOut, k)
             len == IF Mapped(src_len) = 0 THEN 1 ELSE Mapped(src_len)
             gone == f - Mapped(k - src_len)
         IN /\ FadeOut(k, f) = IF gone < 0 THEN <<1, 1>> ELSE <<IF gone > len THEN 0 ELSE len - gone, len>>
            /\ FadeFrames = IF Mapped(SoftOut) = 0 THEN 1 ELSE Mapped(SoftOut)
            /\ FadeOut(k, f) \in Envelopes
            /\ src_len \in 1 .. k /\ len \in Nat \ {0} /\ gone \in Int
            /\ Mapped(src_len) \in Nat /\ Mapped(k - src_len) \in Nat
  <1> DEFINE src_len == Smaller(SoftOut, k)
             direct(n) == IF Direct THEN n ELSE (n * OutRate) \div sample_rate
             len == IF Mapped(src_len) = 0 THEN 1 ELSE Mapped(src_len)
             gone == f - Mapped(k - src_len)
  <1>1. SoftOut \in Nat \ {0} /\ sample_rate \in Nat \ {0} /\ OutRate \in Nat \ {0}
    BY RateFacts
  <1>2. src_len \in 1 .. k /\ k - src_len \in Nat
    BY <1>1 DEF Smaller
  <1>3. ASSUME NEW n \in Nat PROVE Mapped(n) \in Nat /\ direct(n) = Mapped(n)
    <2>1. n * OutRate \in Nat
      BY <1>1
    <2>2. Mapped(n) \in Nat
      BY <1>1, <2>1, DivFacts DEF Mapped
    <2>3. Direct => Mapped(n) = n
      <3> SUFFICES ASSUME Direct PROVE Mapped(n) = n
        OBVIOUS
      <3> DEFINE q == (n * OutRate) \div OutRate
      <3>1. q \in Nat /\ q * OutRate <= n * OutRate /\ n * OutRate < q * OutRate + OutRate
        BY <1>1, <2>1, DivFacts
      <3>2. Mapped(n) = q
        BY DEF Mapped, Direct
      <3> HIDE DEF q
      <3>3. n * OutRate < (q + 1) * OutRate
        BY <1>1, <3>1, Z3
      <3>4. q <= n /\ n < q + 1
        BY <1>1, <3>1, <3>3, UnscaleLe, UnscaleLess
      <3> QED BY <3>1, <3>2, <3>4
    <2> QED BY <2>2, <2>3 DEF Mapped
  <1>4. FadeOut(k, f) = LET l == IF direct(src_len) = 0 THEN 1 ELSE direct(src_len)
                            g == f - direct(k - src_len)
                        IN IF g < 0 THEN <<1, 1>> ELSE <<IF g > l THEN 0 ELSE l - g, l>>
    BY DEF FadeOut
  <1>5. FadeFrames = IF direct(SoftOut) = 0 THEN 1 ELSE direct(SoftOut)
    BY DEF FadeFrames
  <1> HIDE DEF direct, src_len
  <1>6. /\ direct(src_len) = Mapped(src_len) /\ direct(k - src_len) = Mapped(k - src_len)
        /\ direct(SoftOut) = Mapped(SoftOut)
        /\ Mapped(src_len) \in Nat /\ Mapped(k - src_len) \in Nat
    BY <1>1, <1>2, <1>3
  <1>7. len \in Nat \ {0} /\ gone \in Int
    BY <1>6
  <1>8. FadeOut(k, f) = IF gone < 0 THEN <<1, 1>> ELSE <<IF gone > len THEN 0 ELSE len - gone, len>>
    BY <1>4, <1>6
  <1> HIDE DEF len, gone
  <1>9. FadeOut(k, f) \in Envelopes
    BY <1>7, <1>8 DEF Envelopes
  <1> QED BY <1>2, <1>5, <1>6, <1>7, <1>8, <1>9 DEF src_len, len, gone

LEMMA EnvelopeFacts ==
  ASSUME StreamTypeOK, frames_played \in Nat, NEW k \in Nat \ {0}, NEW u, NEW f \in Nat
  PROVE  /\ Envelope(k, u, f) \in Envelopes
         /\ ~u => Envelope(k, u, f) = FadeIn(f)
         /\ u => AtMost(Envelope(k, u, f), FadeOut(k, f))
  <1>1. FadeIn(f) \in Envelopes /\ FadeOut(k, f) \in Envelopes
    BY FadeInFacts, FadeOutIs
  <1> QED BY <1>1, AtMostFacts DEF Envelope

LEMMA FadeFramesFacts ==
  ASSUME StreamTypeOK
  PROVE  FadeFrames \in Nat \ {0}
  <1>1. FadeFrames = IF Mapped(SoftOut) = 0 THEN 1 ELSE Mapped(SoftOut)
    BY FadeOutIs
  <1>2. SoftOut * OutRate \in Nat /\ sample_rate \in Nat \ {0}
    BY RateFacts
  <1>3. Mapped(SoftOut) \in Nat
    BY <1>2, DivFacts DEF Mapped
  <1> QED BY <1>1, <1>3

\* The last of m frames, which k source frames sufficed for and one more would
\* not, is at the end of the fade-out.
LEMMA FadeEnds ==
  ASSUME StreamTypeOK, NEW k \in Nat \ {0}, NEW m \in Nat \ {0}, k <= Source(m)
  PROVE  AtMost(FadeOut(k, m - 1), <<1, Smaller(FadeFrames, m)>>)
  <1> DEFINE L == Smaller(SoftOut, k)
             B == k - L
             ml == Mapped(L)
             mb == Mapped(B)
             len == IF ml = 0 THEN 1 ELSE ml
             gone == (m - 1) - mb
  <1>1. /\ SoftOut \in Nat \ {0} /\ sample_rate \in Nat \ {0} /\ OutRate \in Nat \ {0}
        /\ m - 1 \in Nat
    BY RateFacts
  <1>2. /\ FadeOut(k, m - 1) = IF gone < 0 THEN <<1, 1>> ELSE <<IF gone > len THEN 0 ELSE len - gone, len>>
        /\ FadeFrames = IF Mapped(SoftOut) = 0 THEN 1 ELSE Mapped(SoftOut)
        /\ L \in 1 .. k /\ len \in Nat \ {0} /\ ml \in Nat /\ mb \in Nat
    BY <1>1, FadeOutIs
  <1>3. Source(m) \in Nat /\ Source(m) * OutRate <= m * sample_rate
    BY SourceFacts
  <1>4. k * OutRate <= m * sample_rate
    <2>1. k * OutRate <= Source(m) * OutRate
      BY <1>1, <1>3, Z3
    <2>2. k * OutRate \in Nat /\ Source(m) * OutRate \in Nat /\ m * sample_rate \in Nat
      BY <1>1, <1>3
    <2> QED BY <1>3, <2>1, <2>2
  <1>5. L = k \/ L = SoftOut
    BY DEF Smaller
  <1>6. k = B + L /\ B \in Nat /\ L \in Nat \ {0}
    <2> HIDE DEF L
    <2> QED BY <1>2
  <1>7. ml * sample_rate <= L * OutRate /\ mb * sample_rate <= B * OutRate
    <2> HIDE DEF L, B
    <2>1. L * OutRate \in Nat /\ B * OutRate \in Nat
      BY <1>1, <1>6
    <2> QED BY <1>1, <2>1, DivFacts DEF Mapped
  <1>8. FadeFrames = len \/ B = 0
    <2>1. L = SoftOut => FadeFrames = len
      BY <1>2
    <2> HIDE DEF len
    <2>2. L = k => B = 0
      BY <1>6
    <2> QED BY <1>5, <2>1, <2>2
  <1>9. FadeFrames \in Nat \ {0}
    <2>1. SoftOut * OutRate \in Nat
      BY <1>1
    <2>2. Mapped(SoftOut) \in Nat
      BY <1>1, <2>1, DivFacts DEF Mapped
    <2> QED BY <1>2, <2>2
  <1>10. B = 0 => mb = 0
    <2> SUFFICES ASSUME B = 0 PROVE mb = 0
      OBVIOUS
    <2> HIDE DEF mb
    <2>1. mb * sample_rate <= 0 * sample_rate
      BY <1>1, <1>7
    <2> QED BY <1>1, <1>2, <2>1, UnscaleLe
  <1> HIDE DEF L, B, ml, mb
  <1>11. mb < m
    <2>1. B * OutRate < k * OutRate
      BY <1>1, <1>6, Z3
    <2>2. mb * sample_rate < m * sample_rate
      BY <1>1, <1>2, <1>4, <1>6, <1>7, <2>1, Z3
    <2> QED BY <1>1, <1>2, <2>2, UnscaleLess
  <1>12. mb + ml <= m
    <2>1. (mb + ml) * sample_rate <= m * sample_rate
      BY <1>1, <1>2, <1>4, <1>6, <1>7, Z3
    <2> QED BY <1>1, <1>2, <2>1, UnscaleLe
  <1>13. gone \in Nat /\ gone >= len - 1
    BY <1>1, <1>2, <1>11, <1>12
  <1> HIDE DEF len
  <1>14. FadeOut(k, m - 1) = <<IF gone > len THEN 0 ELSE len - gone, len>>
    BY <1>2, <1>13
  <1> DEFINE x == IF gone > len THEN 0 ELSE len - gone
             n == Smaller(FadeFrames, m)
  <1>15. n \in Nat \ {0} /\ n <= FadeFrames /\ n <= m
    BY <1>9 DEF Smaller
  <1>16. x = 0 \/ (x = 1 /\ gone = len - 1)
    BY <1>2, <1>13
  <1>17. x * n <= 1 * len
    <2> HIDE DEF n
    <2>1. CASE x = 0
      BY <1>2, <1>15, <2>1
    <2>2. CASE x = 1 /\ gone = len - 1
      <3>1. CASE FadeFrames = len
        BY <1>2, <1>15, <2>2, <3>1
      <3>2. CASE B = 0
        BY <1>1, <1>2, <1>10, <1>15, <2>2, <3>2
      <3> QED BY <1>8, <3>1, <3>2
    <2> QED BY <1>16, <2>1, <2>2
  <1> HIDE DEF x, n
  <1>18. FadeOut(k, m - 1) = <<x, len>>
    BY <1>14 DEF x
  <1> QED BY <1>17, <1>18 DEF AtMost, n

-----------------------------------------------------------------------------
(* What a callback does.                                                     *)

LEMMA WantFacts ==
  ASSUME StreamTypeOK
  PROVE  /\ src_frames_needed \in Nat \ {0} /\ Source(out_frames - 1) < src_frames_needed
         /\ src_frames_needed <= Source(out_frames - 1) + Stride + 3
         /\ sample_rate = OutRate => src_frames_needed = out_frames
         /\ \E w \in Nat : /\ src_bytes_want = w * frame_size /\ w <= src_frames_needed
                           /\ src_frames_needed * frame_size <= TmpBytes => w = src_frames_needed
  <1> DEFINE F == out_frames
             R == sample_rate
             S == Source(F - 1)
             A == (F * R) \div OutRate
             fs == frame_size
  <1>1. /\ R \in Nat \ {0} /\ OutRate \in Nat \ {0} /\ One \in Nat \ {0} /\ F \in Nat \ {0} /\ F < One
        /\ fs \in {2, 4} /\ TmpBytes \in Nat /\ Stride \in Nat \ {0} /\ R <= Stride * OutRate
        /\ step \in Nat /\ R * One < step * OutRate + OutRate /\ F - 1 \in Nat
    BY RateFacts
  <1>2. S \in Nat /\ S * OutRate <= (F - 1) * R /\ (F - 1) * step < S * One + One
        /\ (R = OutRate => S = F - 1)
    BY <1>1, SourceFacts
  <1>3. src_frames_needed = IF R = OutRate THEN F ELSE A + 2
    BY DEF src_frames_needed
  <1> HIDE DEF F, R, S, fs
  <1>4. F * R \in Nat
    BY <1>1
  <1>5. A \in Nat /\ A * OutRate <= F * R
    BY <1>1, <1>4, DivFacts
  <1>6. S <= A
    <2>1. (F - 1) * R <= F * R
      BY <1>1, Z3
    <2>2. S * OutRate \in Nat /\ (F - 1) * R \in Nat
      BY <1>1, <1>2
    <2>3. S * OutRate <= F * R
      BY <1>2, <1>4, <2>1, <2>2
    <2> QED BY <1>1, <1>2, <1>4, <2>3, DivLeast
  <1> HIDE DEF A
  <1>7. A < S + 2 + Stride
    BY <1>1, <1>2, <1>5, SpareFrames
  <1> DEFINE n == src_frames_needed
  <1>8. /\ n \in Nat \ {0} /\ S < n /\ n <= S + Stride + 3 /\ (R = OutRate => n = F)
    BY <1>1, <1>2, <1>3, <1>5, <1>6, <1>7
  <1> DEFINE b == Smaller(n * fs, TmpBytes)
             w == b \div fs
  <1>9. src_bytes_want = w * fs
    BY DEF src_bytes_want, fs
  <1> HIDE DEF n
  <1>10. n * fs \in Nat
    BY <1>1, <1>8
  <1>11. b \in Nat /\ b <= n * fs /\ (n * fs <= TmpBytes => b = n * fs)
    BY <1>1, <1>10 DEF Smaller
  <1> HIDE DEF b
  <1>12. w \in Nat /\ w * fs <= b /\ b < w * fs + fs
    BY <1>1, <1>11, DivFacts
  <1> HIDE DEF w
  <1>13. w <= n
    <2>1. w * fs <= n * fs
      BY <1>1, <1>8, <1>10, <1>11, <1>12
    <2> QED BY <1>1, <1>8, <1>12, <2>1, UnscaleLe
  <1>14. b = n * fs => w = n
    <2> SUFFICES ASSUME b = n * fs PROVE w = n
      OBVIOUS
    <2>1. n * fs < (w + 1) * fs
      BY <1>1, <1>8, <1>12, Z3
    <2>2. n < w + 1
      BY <1>1, <1>8, <1>12, <2>1, UnscaleLess
    <2> QED BY <1>8, <1>12, <1>13, <2>2
  <1> QED BY <1>8, <1>9, <1>11, <1>12, <1>13, <1>14 DEF n, F, R, S, fs

\* Nothing is mixed: there is no whole frame in the ring.
MixesNothing ==
  /\ heard' = << >> /\ short' = TRUE /\ torn' = TRUE
  /\ owed' = owed /\ played_bytes' = played_bytes
  /\ frames_played' = frames_played /\ next_byte' = next_byte
  /\ taken' \in taken .. enqueued

\* k frames of the source become m frames.
Mixes(k, m) ==
  /\ k \in Nat \ {0} /\ m \in 1 .. out_frames /\ k <= src_frames_needed
  /\ \A f \in 0 .. out_frames - 1 : Source(f) < k <=> f < m
  /\ taken' \in taken + k * frame_size .. enqueued
  /\ ~torn' => taken' = taken + k * frame_size
  /\ owed' \in 0 .. owed /\ played_bytes' = played_bytes + k * frame_size
  /\ short' \in BOOLEAN
  /\ ~short' /\ src_frames_needed * frame_size <= TmpBytes => k = src_frames_needed
  /\ heard' = [i \in 1 .. m |-> [at |-> taken + Source(i - 1) * frame_size,
                                 env |-> Envelope(k, short', i - 1)]]
  /\ next_byte' = taken + Source(m - 1) * frame_size + frame_size
  /\ frames_played' = Smaller(frames_played + m, SoftIn)

LEMMA CallbackMixes ==
  ASSUME StreamTypeOK, Callback
  PROVE  MixesNothing \/ \E k, m : Mixes(k, m)
  <1> DEFINE read == RingRead
             got == (read \div frame_size) * frame_size
             k == got \div frame_size
             m == Mixed(k)
  <1>1. /\ frame_size \in {2, 4} /\ Readable \in Nat
        /\ read \in Nat /\ read <= Readable /\ read > 0
        /\ taken \in Nat /\ enqueued \in Nat /\ owed \in Nat
    BY ReadFacts DEF StreamTypeOK, Callback
  <1>2. /\ got \in 0 .. read /\ k = read \div frame_size
        /\ read % frame_size = 0 => got = read
        /\ k = 0 => read % frame_size # 0
    BY <1>1, WholeFrames
  <1>3. /\ taken' = taken + read /\ torn' = (torn \/ read % frame_size # 0)
        /\ IF k = 0
           THEN /\ heard' = << >> /\ short' = TRUE
                /\ UNCHANGED <<counters, next_byte>>
           ELSE /\ owed' = owed - Charged(got)
                /\ played_bytes' = played_bytes + got
                /\ short' = (got < src_bytes_want)
                /\ heard' = [i \in 1 .. m |->
                               [at |-> taken + Source(i - 1) * frame_size,
                                env |-> Envelope(k, short', i - 1)]]
                /\ next_byte' = heard'[m].at + frame_size
                /\ frames_played' = Smaller(frames_played + m, SoftIn)
    BY DEF Callback
  <1>4. got = k * frame_size
    BY <1>2
  <1>5. k \in Nat
    BY <1>1, <1>2, DivFacts
  <1>6. taken + read <= enqueued
    BY <1>1 DEF Readable
  <1>7. read <= src_bytes_want
    <2>1. PICK w \in Nat : src_bytes_want = w * frame_size
      BY WantFacts
    <2>2. src_bytes_want \in Nat
      BY <1>1, <2>1
    <2> QED BY <1>1, <2>2 DEF RingRead, Smaller
  <1>8. Charged(got) \in 0 .. owed
    BY <1>1, <1>2 DEF Charged, Smaller
  <1> HIDE DEF read, got
  <1>9. CASE k = 0
    <2>1. torn' = TRUE
      BY <1>2, <1>3, <1>9
    <2>2. /\ heard' = << >> /\ short' = TRUE /\ UNCHANGED <<owed, played_bytes, frames_played, next_byte>>
      BY <1>3, <1>9 DEF counters
    <2>3. taken' \in taken .. enqueued
      BY <1>1, <1>3, <1>6
    <2> QED BY <2>1, <2>2, <2>3 DEF MixesNothing
  <1>10. CASE k # 0
    <2> HIDE DEF k, m
    <2>1. k \in Nat \ {0}
      BY <1>5, <1>10
    <2>2. m \in 1 .. out_frames /\ \A f \in 0 .. out_frames - 1 : Source(f) < k <=> f < m
      BY <2>1, MixedFacts DEF m
    <2>3. /\ owed' = owed - Charged(got)
          /\ played_bytes' = played_bytes + k * frame_size
          /\ short' = (k * frame_size < src_bytes_want)
          /\ heard' = [i \in 1 .. m |-> [at |-> taken + Source(i - 1) * frame_size,
                                         env |-> Envelope(k, short', i - 1)]]
          /\ next_byte' = heard'[m].at + frame_size
          /\ frames_played' = Smaller(frames_played + m, SoftIn)
      BY <1>3, <1>4, <1>10
    <2>4. PICK w \in Nat : /\ src_bytes_want = w * frame_size /\ w <= src_frames_needed
                           /\ src_frames_needed * frame_size <= TmpBytes => w = src_frames_needed
      BY WantFacts
    <2>5. src_frames_needed \in Nat
      BY WantFacts
    <2>6. k * frame_size \in Nat /\ k * frame_size <= read
      BY <1>1, <1>2, <1>4
    <2>7. k <= w
      <3>1. k * frame_size <= w * frame_size
        BY <1>1, <1>7, <2>4, <2>6
      <3> QED BY <1>1, <2>1, <2>4, <3>1, UnscaleLe
    <2>8. k <= src_frames_needed
      BY <2>1, <2>4, <2>5, <2>7
    <2>9. ~short' => k = w
      <3> SUFFICES ASSUME ~short' PROVE k = w
        OBVIOUS
      <3>1. ~(k * frame_size < w * frame_size)
        BY <2>3, <2>4
      <3>2. w * frame_size \in Nat /\ k * frame_size \in Nat
        BY <1>1, <2>1, <2>4
      <3>3. w * frame_size <= k * frame_size
        BY <3>1, <3>2
      <3>4. w <= k
        BY <1>1, <2>1, <2>4, <3>3, UnscaleLe
      <3> QED BY <2>1, <2>4, <2>7, <3>4
    <2>10. ~short' /\ src_frames_needed * frame_size <= TmpBytes => k = src_frames_needed
      BY <2>4, <2>9
    <2>11. short' \in BOOLEAN
      BY <2>3
    <2>12. heard'[m].at = taken + Source(m - 1) * frame_size
      <3>1. m \in 1 .. m
        BY <2>2, RateFacts
      <3> QED BY <2>3, <3>1
    <2>13. next_byte' = taken + Source(m - 1) * frame_size + frame_size
      BY <2>3, <2>12
    <2>14. taken' \in taken + k * frame_size .. enqueued
      BY <1>1, <1>3, <1>6, <2>6
    <2>15. ~torn' => taken' = taken + k * frame_size
      <3>1. ~torn' => read % frame_size = 0
        BY <1>3
      <3> QED BY <1>2, <1>3, <1>4, <3>1
    <2>16. owed' \in 0 .. owed
      BY <1>1, <1>8, <2>3
    <2> HIDE DEF Mixes
    <2>17. Mixes(k, m)
      BY <2>1, <2>2, <2>3, <2>8, <2>10, <2>11, <2>13, <2>14, <2>15, <2>16, Zenon DEF Mixes
    <2> QED BY <2>17
  <1> QED BY <1>9, <1>10

-----------------------------------------------------------------------------
(* The sound's invariant.                                                    *)

\* That the account follows the ring, that what was heard is in its bounds and
\* hands over to what comes next, and that it was faded out if it broke off.
SoundInv == MixerInv /\ MixedInv /\ FadesBeforeSilence

LEMMA FormatKept ==
  ASSUME UNCHANGED <<sample_rate, num_channels, device>>
  PROVE  /\ out_frames' = out_frames /\ frame_size' = frame_size /\ Direct' = Direct
         /\ src_frames_needed' = src_frames_needed /\ Stride' = Stride /\ Spared' = Spared
         /\ FadeFrames' = FadeFrames
  <1>1. out_frames' = out_frames /\ frame_size' = frame_size /\ Direct' = Direct /\ Stride' = Stride
    BY DEF out_frames, frame_size, Direct, Stride
  <1> QED BY <1>1 DEF src_frames_needed, Spared, FadeFrames

LEMMA SparedFacts ==
  ASSUME StreamTypeOK
  PROVE  Spared \in Nat
  <1>1. frame_size \in {2, 4} /\ Stride \in Nat
    BY RateFacts
  <1>2. (Stride + 2) * frame_size \in Nat
    BY <1>1
  <1> QED BY <1>2 DEF Spared

LEMMA SoundInit == Init => SoundInv
  <1> SUFFICES ASSUME Init PROVE SoundInv
    OBVIOUS
  <1>1. MixerInv /\ heard = << >> /\ torn = FALSE /\ Readable = 0
    BY InitInv DEF Init, Readable
  <1>2. out_frames \in Nat /\ SoftIn \in Nat /\ Spared \in Nat
    BY <1>1, RateFacts, SparedFacts DEF MixerInv
  <1>3. TypeOK
    <2>1. playing \in BOOLEAN /\ short \in BOOLEAN /\ torn \in BOOLEAN /\ spoiled \in BOOLEAN
      BY DEF Init
    <2>2. Readable <= RingSize
      BY <1>1, RingIsThere
    <2>3. /\ heard \in Seq([at : Nat, env : Nat \X (Nat \ {0})]) /\ Len(heard) <= out_frames
      BY <1>1, <1>2
    <2>4. 0 \in 0 .. MaxStream /\ 0 \in 0 .. SoftIn /\ 0 \in 0 .. 0 /\ 0 \in 0 .. RingSize
      BY <1>2, MixerAssumption
    <2> QED BY <2>1, <2>2, <2>3, <2>4 DEF Init, TypeOK
  <1>4. HandsOver
    BY <1>1, <1>2 DEF Init, HandsOver
  <1> QED BY <1>1, <1>3, <1>4 DEF SoundInv, MixedInv, NoGapWhenStocked, FadesBeforeSilence

\* A callback that mixes nothing leaves nothing heard.
LEMMA SilenceInv == SoundInv /\ Callback /\ MixesNothing => SoundInv'
  <1> SUFFICES ASSUME SoundInv, Callback, MixesNothing PROVE SoundInv'
    OBVIOUS
  <1>1. MixerInv' /\ StreamTypeOK
    BY CallbackInv DEF SoundInv, MixerInv
  <1>2. UNCHANGED <<sample_rate, num_channels, device>> /\ enqueued' = enqueued /\ playing' = playing
    BY DEF Callback, format
  <1>3. out_frames' = out_frames /\ out_frames \in Nat
    BY <1>1, <1>2, FormatKept, RateFacts
  <1>4. TypeOK
    BY DEF SoundInv, MixedInv
  <1>5. TypeOK'
    <2>1. heard' \in Seq([at : Nat, env : Nat \X (Nat \ {0})]) /\ Len(heard') <= out_frames'
      BY <1>3 DEF MixesNothing
    <2>2. short' \in BOOLEAN /\ torn' \in BOOLEAN /\ playing' \in BOOLEAN
      BY <1>2, <1>4 DEF MixesNothing, TypeOK
    <2>3. taken' \in 0 .. enqueued' /\ next_byte' \in 0 .. taken'
      BY <1>2, <1>4 DEF MixesNothing, TypeOK
    <2>4. /\ Readable' <= RingSize /\ spoiled' \in BOOLEAN /\ counted' \in 0 .. taken'
          /\ pushing' \in 0 .. RingSize /\ owed' \in Nat
      BY <1>1 DEF MixerInv, StreamTypeOK
    <2> QED BY <1>2, <1>4, <2>1, <2>2, <2>3, <2>4 DEF MixesNothing, TypeOK
  <1>6. HandsOver'
    <2>1. played_bytes <= taken
      BY DEF SoundInv, MixedInv, HandsOver
    <2>2. played_bytes' <= taken'
      BY <1>1, <1>2, <2>1 DEF MixesNothing, StreamTypeOK
    <2> QED BY <2>2 DEF MixesNothing, HandsOver
  <1> QED BY <1>1, <1>5, <1>6 DEF SoundInv, MixedInv, NoGapWhenStocked, FadesBeforeSilence, MixesNothing

\* What a callback that mixes frames leaves in the output.
LEMMA HeardFacts ==
  ASSUME StreamTypeOK, frames_played \in Nat, NEW k, NEW m, Mixes(k, m)
  PROVE  /\ heard' \in Seq([at : Nat, env : Envelopes]) /\ Len(heard') = m /\ heard' # << >>
         /\ \A i \in 1 .. m : /\ heard'[i].at = taken + Source(i - 1) * frame_size
                              /\ heard'[i].env = Envelope(k, short', i - 1)
                              /\ heard'[i].env \in Envelopes
  <1>1. k \in Nat \ {0} /\ m \in 1 .. out_frames /\ out_frames \in Nat /\ taken \in Nat /\ frame_size \in {2, 4}
    BY RateFacts DEF Mixes, StreamTypeOK
  <1>2. heard' = [i \in 1 .. m |-> [at |-> taken + Source(i - 1) * frame_size,
                                    env |-> Envelope(k, short', i - 1)]]
    BY DEF Mixes
  <1>3. ASSUME NEW i \in 1 .. m
        PROVE  taken + Source(i - 1) * frame_size \in Nat /\ Envelope(k, short', i - 1) \in Envelopes
    <2>1. i - 1 \in Nat
      BY <1>1
    <2>2. Source(i - 1) \in Nat
      BY <2>1, SourceFacts
    <2>3. Source(i - 1) * frame_size \in Nat
      BY <1>1, <2>2
    <2> QED BY <1>1, <2>1, <2>3, EnvelopeFacts
  <1>4. heard' \in Seq([at : Nat, env : Envelopes]) /\ Len(heard') = m
    BY <1>1, <1>2, <1>3
  <1>5. heard' # << >>
    BY <1>1, <1>4
  <1>6. ASSUME NEW i \in 1 .. m
        PROVE  /\ heard'[i].at = taken + Source(i - 1) * frame_size
               /\ heard'[i].env = Envelope(k, short', i - 1)
    BY <1>2, <1>6
  <1> QED BY <1>3, <1>4, <1>5, <1>6

\* A callback that mixes frames: between the last of them and the next byte of
\* the ring there is no more than Spared, and none if the rate is the device's.
LEMMA SparedBound ==
  ASSUME StreamTypeOK, NEW k, NEW m, Mixes(k, m)
  PROVE  LET after == taken + Source(m - 1) * frame_size + frame_size
         IN after \in 0 .. taken + k * frame_size /\ taken + k * frame_size - after <= Spared
  <1> DEFINE S == Source(m - 1)
             F == out_frames
             n == src_frames_needed
             fs == frame_size
  <1>1. /\ k \in Nat \ {0} /\ m \in 1 .. F /\ F \in Nat \ {0} /\ k <= n /\ n \in Nat
        /\ n <= Source(F - 1) + Stride + 3 /\ (sample_rate = OutRate => n = F)
        /\ Stride \in Nat /\ taken \in Nat /\ fs \in {2, 4}
    BY RateFacts, WantFacts DEF Mixes, StreamTypeOK
  <1>2. m - 1 \in Nat /\ m - 1 \in 0 .. F - 1 /\ m - 1 < m /\ (m - 1) + 1 = m
    BY <1>1
  <1>3. S \in Nat /\ S < k
    BY <1>2, SourceFacts DEF Mixes
  <1>4. Source(m) <= S + Stride /\ Source(m) \in Nat
    BY <1>1, <1>2, SourceFacts
  <1>5. k <= S + Stride + 3
    <2>1. CASE m = F
      <3>1. S = Source(F - 1)
        BY <2>1
      <3> HIDE DEF S, F, n
      <3> QED BY <1>1, <1>3, <3>1
    <2>2. CASE m # F
      <3>1. m \in 0 .. F - 1 /\ ~(m < m)
        BY <1>1, <2>2
      <3>2. ~(Source(m) < k)
        BY <3>1 DEF Mixes
      <3> QED BY <1>1, <1>3, <1>4, <3>2
    <2> QED BY <2>1, <2>2
  <1>6. sample_rate = OutRate => k = S + 1
    <2> SUFFICES ASSUME sample_rate = OutRate PROVE k = S + 1
      OBVIOUS
    <2>1. S = m - 1 /\ Source(m) = m
      BY <1>1, <1>2, SourceFacts
    <2>2. CASE m = F
      BY <1>1, <1>3, <2>1, <2>2
    <2>3. CASE m # F
      <3>1. m \in 0 .. F - 1 /\ ~(m < m)
        BY <1>1, <2>3
      <3>2. ~(Source(m) < k)
        BY <3>1 DEF Mixes
      <3> QED BY <1>1, <1>3, <2>1, <3>2
    <2> QED BY <2>2, <2>3
  <1> HIDE DEF S, fs
  <1>7. (S + 1) * fs <= k * fs /\ (S + 1) * fs = S * fs + fs
    BY <1>1, <1>3, Z3
  <1>8. S * fs \in Nat /\ k * fs \in Nat
    BY <1>1, <1>3
  <1>9. taken + S * fs + fs \in 0 .. taken + k * fs
    BY <1>1, <1>7, <1>8
  <1>10. k * fs - (S * fs + fs) <= Spared
    <2>1. CASE Direct
      <3>1. k = S + 1 /\ Spared = 0
        BY <1>6, <2>1 DEF Direct, Spared
      <3>2. k * fs = S * fs + fs
        BY <1>1, <1>3, <3>1, Z3
      <3> QED BY <1>1, <1>8, <3>1, <3>2
    <2>2. CASE ~Direct
      <3>1. Spared = (Stride + 2) * fs
        BY <2>2 DEF Spared, fs
      <3>2. k * fs <= (S + Stride + 3) * fs
        BY <1>1, <1>3, <1>5, Z3
      <3>3. (S + Stride + 3) * fs = S * fs + fs + (Stride + 2) * fs
        BY <1>1, <1>3, Z3
      <3>4. (Stride + 2) * fs \in Nat
        BY <1>1
      <3> QED BY <1>1, <1>8, <3>1, <3>2, <3>3, <3>4
    <2> QED BY <2>1, <2>2
  <1>11. taken + k * fs - (taken + S * fs + fs) <= Spared
    BY <1>1, <1>8, <1>10, SparedFacts
  <1> QED BY <1>9, <1>11 DEF S, fs

\* A callback that mixes frames keeps the invariant.
LEMMA SoundCallback ==
  ASSUME SoundInv, Callback, NEW k, NEW m, Mixes(k, m)
  PROVE  SoundInv'
  <1> DEFINE fs == frame_size
             F == out_frames
  <1>1. MixerInv' /\ StreamTypeOK /\ StreamTypeOK' /\ TypeOK
    BY CallbackInv DEF SoundInv, MixerInv, MixedInv
  <1>2. /\ UNCHANGED <<sample_rate, num_channels, device>>
        /\ enqueued' = enqueued /\ playing' = playing
    BY DEF Callback, format
  <1>3. /\ out_frames' = F /\ frame_size' = fs /\ Spared' = Spared /\ FadeFrames' = FadeFrames
        /\ src_frames_needed' = src_frames_needed /\ TmpBytes' = TmpBytes
    BY <1>2, FormatKept DEF TmpBytes
  <1>4. /\ frames_played \in Nat /\ SoftIn \in Nat \ {0} /\ F \in Nat \ {0} /\ fs \in {2, 4}
        /\ taken \in Nat /\ played_bytes \in Nat /\ owed \in Nat /\ enqueued \in Nat
        /\ enqueued <= MaxStream /\ MaxStream \in Nat /\ played_bytes <= taken
        /\ Spared \in Nat /\ src_frames_needed \in Nat
    BY <1>1, RateFacts, SparedFacts, WantFacts, MixerAssumption
       DEF TypeOK, StreamTypeOK, SoundInv, MixedInv, HandsOver
  <1>5. /\ heard' \in Seq([at : Nat, env : Envelopes]) /\ Len(heard') = m /\ heard' # << >>
        /\ \A i \in 1 .. m : /\ heard'[i].env = Envelope(k, short', i - 1)
                             /\ heard'[i].env \in Envelopes
    BY <1>1, <1>4, HeardFacts
  <1>6. /\ next_byte' \in 0 .. taken + k * fs /\ taken + k * fs - next_byte' <= Spared
    BY <1>1, SparedBound DEF Mixes
  <1>7. /\ k \in Nat \ {0} /\ m \in 1 .. F
        /\ taken' \in taken + k * fs .. enqueued /\ owed' \in 0 .. owed
        /\ played_bytes' = played_bytes + k * fs /\ short' \in BOOLEAN
        /\ frames_played' = Smaller(frames_played + m, SoftIn)
    BY DEF Mixes
  <1>8. ~torn' => taken' = taken + k * fs
    BY DEF Mixes
  <1>9. ~short' /\ src_frames_needed * fs <= TmpBytes => k = src_frames_needed
    BY DEF Mixes
  <1>10. \A f \in 0 .. F - 1 : Source(f) < k <=> f < m
    BY DEF Mixes
  <1>11. k * fs \in Nat
    BY <1>4, <1>7
  <1>12. /\ frames_played' \in 0 .. SoftIn
         /\ taken' = taken + k * fs => taken' - next_byte' <= Spared
    <2>1. frames_played' \in 0 .. SoftIn
      BY <1>4, <1>7 DEF Smaller
    <2>2. taken' = taken + k * fs => taken' - next_byte' <= Spared
      BY <1>4, <1>6, <1>11
    <2> QED BY <2>1, <2>2
  <1> HIDE DEF fs, F
  <1>13. TypeOK'
    <2>1. heard' \in Seq([at : Nat, env : Nat \X (Nat \ {0})]) /\ Len(heard') <= out_frames'
      BY <1>3, <1>4, <1>5, <1>7 DEF Envelopes
    <2>2. torn' \in BOOLEAN /\ playing' \in BOOLEAN
      BY <1>1, <1>2 DEF TypeOK, StreamTypeOK
    <2>3. taken' \in 0 .. enqueued' /\ next_byte' \in 0 .. taken'
      BY <1>2, <1>4, <1>6, <1>7, <1>11
    <2>4. /\ Readable' <= RingSize /\ spoiled' \in BOOLEAN /\ counted' \in 0 .. taken'
          /\ pushing' \in 0 .. RingSize
      BY <1>1 DEF StreamTypeOK
    <2>5. owed' \in Nat /\ played_bytes' \in 0 .. MaxStream
      BY <1>4, <1>7, <1>11
    <2>6. /\ sample_rate' \in Rates /\ num_channels' \in {1, 2} /\ device' \in Devices
          /\ enqueued' \in 0 .. MaxStream
      BY <1>1, <1>2 DEF TypeOK
    <2> QED BY <1>7, <1>12, <2>1, <2>2, <2>3, <2>4, <2>5, <2>6 DEF TypeOK
  <1>14. HandsOver'
    <2>1. played_bytes' <= taken'
      BY <1>2, <1>4, <1>7, <1>11
    <2>2. ASSUME ~torn' PROVE taken' - next_byte' <= Spared'
      <3>1. taken' = taken + k * fs
        BY <1>8, <2>2
      <3>2. Spared' = Spared
        BY <1>3
      <3>3. taken' - next_byte' <= Spared
        BY <3>1, <1>12
      <3> QED BY <3>2, <3>3
    <2>3. heard' # << >> /\ ~short' => AtMost(heard'[Len(heard')].env, FadeIn(0)')
      <3> SUFFICES ASSUME ~short' PROVE AtMost(heard'[m].env, FadeIn(0)')
        BY <1>5
      <3>1. m \in 1 .. m /\ m - 1 \in Nat /\ (m - 1) + 1 = m
        BY <1>4, <1>7
      <3>2. heard'[m].env = FadeIn(m - 1)
        BY <1>1, <1>4, <1>5, <1>7, <3>1, EnvelopeFacts
      <3>3. AtMost(FadeIn(m - 1), FadeIn(m))
        <4>1. AtMost(FadeIn(m - 1), FadeIn((m - 1) + 1))
          BY <1>1, <1>4, <3>1, FadeInFacts
        <4> QED BY <3>1, <4>1
      <3>4. FadeIn(0)' = FadeIn(m)
        <4>1. FadeIn(0)' = IF frames_played' + 0 < SoftIn THEN <<frames_played' + 0, SoftIn>> ELSE <<1, 1>>
          BY DEF FadeIn
        <4>2. \A x \in 0 .. SoftIn : x + 0 = x
          BY <1>4
        <4>3. frames_played' + 0 = frames_played'
          BY <1>12, <4>2, Zenon
        <4> QED BY <1>4, <1>7, <4>1, <4>3 DEF FadeIn, Smaller
      <3> QED BY <3>2, <3>3, <3>4
    <2> QED BY <2>1, <2>2, <2>3 DEF HandsOver
  <1>15. ~short' /\ src_frames_needed * fs <= TmpBytes => m = F
    <2> SUFFICES ASSUME ~short', src_frames_needed * fs <= TmpBytes, m # F PROVE FALSE
      OBVIOUS
    <2>1. Source(F - 1) < k
      <3>1. Source(out_frames - 1) < src_frames_needed
        BY <1>1, WantFacts
      <3> QED BY <1>9, <3>1 DEF F
    <2>2. F - 1 \in 0 .. F - 1
      BY <1>4
    <2>3. F - 1 < m
      BY <1>10, <2>1, <2>2
    <2> QED BY <1>4, <1>7, <2>3
  <1>16. NoGapWhenStocked'
    <2>1. device' = device /\ device \in Nat /\ Samples \in Nat /\ F = Smaller(device, Samples)
      BY <1>1, <1>2, MixerAssumption DEF StreamTypeOK, F, out_frames
    <2>2. F = device <=> device <= Samples
      BY <2>1 DEF Smaller
    <2> QED BY <1>3, <1>5, <1>15, <2>1, <2>2 DEF NoGapWhenStocked
  <1>17. FadesBeforeSilence'
    <2> SUFFICES ASSUME m < F, src_frames_needed * fs <= TmpBytes
                 PROVE  AtMost(heard'[m].env, <<1, Smaller(FadeFrames, m)>>)
      <3>1. Smaller(FadeFrames, m)' = Smaller(FadeFrames', m')
        BY DEF Smaller
      <3>2. device' = device /\ device \in Nat /\ Samples \in Nat /\ F = Smaller(device, Samples)
        BY <1>1, <1>2, MixerAssumption DEF StreamTypeOK, F, out_frames
      <3>3. m < device' /\ m # Samples => m < F
        BY <1>7, <3>2 DEF Smaller
      <3> QED BY <1>3, <1>5, <3>1, <3>3 DEF FadesBeforeSilence, Smaller
    <2>1. short' = TRUE
      BY <1>4, <1>7, <1>15
    <2>2. k <= Source(m)
      <3>1. m \in 0 .. F - 1 /\ ~(m < m)
        BY <1>4, <1>7
      <3>2. ~(Source(m) < k) /\ m \in Nat
        BY <1>10, <1>7, <3>1
      <3>3. Source(m) \in Nat
        BY <1>1, <3>2, SourceFacts
      <3> QED BY <1>7, <3>2, <3>3
    <2>3. m \in 1 .. m /\ m \in Nat \ {0} /\ m - 1 \in Nat
      BY <1>4, <1>7
    <2>4. AtMost(heard'[m].env, FadeOut(k, m - 1))
      <3>1. heard'[m].env = Envelope(k, TRUE, m - 1)
        BY <1>5, <2>1, <2>3
      <3>2. AtMost(Envelope(k, TRUE, m - 1), FadeOut(k, m - 1))
        BY <1>1, <1>4, <1>7, <2>3, EnvelopeFacts
      <3> QED BY <3>1, <3>2
    <2>5. AtMost(FadeOut(k, m - 1), <<1, Smaller(FadeFrames, m)>>)
      BY <1>1, <1>7, <2>2, <2>3, FadeEnds
    <2>6. heard'[m].env \in Envelopes /\ FadeOut(k, m - 1) \in Envelopes
      BY <1>1, <1>5, <1>7, <2>3, FadeOutIs
    <2>7. <<1, Smaller(FadeFrames, m)>> \in Envelopes
      <3>1. FadeFrames \in Nat \ {0}
        BY <1>1, FadeFramesFacts
      <3> QED BY <2>3, <3>1 DEF Smaller, Envelopes
    <2> QED BY <2>4, <2>5, <2>6, <2>7, AtMostFacts
  <1> QED BY <1>1, <1>13, <1>14, <1>16, <1>17 DEF SoundInv, MixedInv

\* A step that touches neither what was heard nor what was taken.
LEMMA SoundStays ==
  ASSUME SoundInv, MixerInv',
         UNCHANGED <<sample_rate, num_channels, device, taken, frames_played, heard, short, next_byte, torn>>,
         enqueued' \in 0 .. MaxStream, playing' \in BOOLEAN, played_bytes' \in {played_bytes, 0}
  PROVE  SoundInv'
  <1>1. StreamTypeOK /\ StreamTypeOK' /\ TypeOK /\ HandsOver
    BY DEF SoundInv, MixedInv, MixerInv
  <1>2. /\ out_frames' = out_frames /\ frame_size' = frame_size /\ Spared' = Spared /\ FadeFrames' = FadeFrames
        /\ src_frames_needed' = src_frames_needed /\ TmpBytes' = TmpBytes /\ FadeIn(0)' = FadeIn(0)
    BY FormatKept DEF TmpBytes, FadeIn
  <1>3. TypeOK'
    <2>1. /\ taken' \in 0 .. enqueued' /\ Readable' <= RingSize /\ owed' \in Nat
          /\ pushing' \in 0 .. RingSize /\ spoiled' \in BOOLEAN /\ counted' \in 0 .. taken'
          /\ torn' \in BOOLEAN
      BY <1>1 DEF StreamTypeOK
    <2>2. played_bytes' \in 0 .. MaxStream
      BY <1>1, MixerAssumption DEF TypeOK
    <2>3. /\ sample_rate' \in Rates /\ num_channels' \in {1, 2} /\ device' \in Devices
          /\ short' \in BOOLEAN /\ frames_played' \in 0 .. SoftIn
          /\ heard' \in Seq([at : Nat, env : Nat \X (Nat \ {0})]) /\ Len(heard') <= out_frames'
          /\ next_byte' \in 0 .. taken'
      BY <1>1, <1>2 DEF TypeOK
    <2> QED BY <2>1, <2>2, <2>3 DEF TypeOK
  <1>4. HandsOver'
    <2>1. played_bytes' <= taken'
      BY <1>1 DEF HandsOver, StreamTypeOK
    <2> QED BY <1>1, <1>2, <2>1 DEF HandsOver
  <1>5. NoGapWhenStocked' /\ FadesBeforeSilence'
    BY <1>2 DEF SoundInv, MixedInv, NoGapWhenStocked, FadesBeforeSilence
  <1> QED BY <1>3, <1>4, <1>5 DEF SoundInv, MixedInv

\* The two halves of an Enqueue, a pause, the pump's stop and a step that changes
\* nothing are such steps.
LEMMA SoundRests ==
  ASSUME SoundInv, Write \/ Push \/ Pause \/ PumpReset \/ UNCHANGED vars
  PROVE  SoundInv'
  <1>1. MixerInv' /\ StreamTypeOK /\ TypeOK
    BY NextInv DEF SoundInv, MixedInv, MixerInv, Next
  <1>2. UNCHANGED <<sample_rate, num_channels, device, taken, frames_played, heard, short, next_byte, torn>>
    BY DEF Write, Push, Pause, PumpReset, vars, format, counters, output
  <1>3. playing' \in BOOLEAN
    <2>1. playing' \in {playing, FALSE}
      BY DEF Write, Push, Pause, PumpReset, vars
    <2> QED BY <1>1, <2>1 DEF TypeOK
  <1>4. played_bytes' \in {played_bytes, 0}
    BY DEF Write, Push, Pause, PumpReset, vars, counters
  <1>5. enqueued' \in 0 .. MaxStream
    <2>1. CASE Write
      <3>1. enqueued' <= MaxStream
        BY <2>1 DEF Write
      <3>2. enqueued' \in Nat /\ MaxStream \in Nat
        BY <1>1, MixerAssumption DEF MixerInv, StreamTypeOK
      <3> QED BY <3>1, <3>2
    <2>2. CASE Push \/ Pause \/ PumpReset \/ UNCHANGED vars
      <3>1. enqueued' = enqueued
        BY <2>2 DEF Push, Pause, PumpReset, vars
      <3> QED BY <1>1, <3>1 DEF TypeOK
    <2> QED BY <2>1, <2>2
  <1> QED BY <1>1, <1>2, <1>3, <1>4, <1>5, SoundStays

\* A play and a flush take back what was heard.
LEMMA SoundPlayFlush ==
  ASSUME SoundInv, Play \/ Flush
  PROVE  SoundInv'
  <1>1. MixerInv' /\ TypeOK /\ HandsOver /\ StreamTypeOK
    BY NextInv DEF SoundInv, MixedInv, MixerInv, Next
  <1>2. /\ UNCHANGED <<sample_rate, num_channels, device>>
        /\ heard' = << >> /\ short' = FALSE
        /\ playing' \in {playing, TRUE, FALSE} /\ frames_played' \in {frames_played, 0}
    BY DEF Play, Flush, format
  <1>3. \/ UNCHANGED <<enqueued, taken, played_bytes, next_byte, torn>>
        \/ /\ enqueued' = 0 /\ taken' = 0 /\ played_bytes' = 0 /\ next_byte' = 0
           /\ torn' = FALSE
    BY DEF Play, Flush
  <1>4. out_frames' = out_frames /\ Spared' = Spared /\ Spared \in Nat /\ SoftIn \in Nat
        /\ out_frames \in Nat /\ MaxStream \in Nat
    BY <1>1, <1>2, FormatKept, SparedFacts, RateFacts, MixerAssumption
  <1>5. TypeOK'
    <2>1. heard' \in Seq([at : Nat, env : Nat \X (Nat \ {0})]) /\ Len(heard') <= out_frames'
      BY <1>2, <1>4
    <2>2. /\ enqueued' \in 0 .. MaxStream /\ taken' \in 0 .. enqueued'
          /\ played_bytes' \in 0 .. MaxStream /\ next_byte' \in 0 .. taken'
      <3>1. /\ enqueued \in 0 .. MaxStream /\ taken \in 0 .. enqueued
            /\ played_bytes \in 0 .. MaxStream /\ next_byte \in 0 .. taken
        BY <1>1 DEF TypeOK
      <3>2. CASE UNCHANGED <<enqueued, taken, played_bytes, next_byte, torn>>
        BY <3>1, <3>2
      <3>3. CASE /\ enqueued' = 0 /\ taken' = 0 /\ played_bytes' = 0 /\ next_byte' = 0
                 /\ torn' = FALSE
        BY <1>4, <3>3
      <3> QED BY <1>3, <3>2, <3>3
    <2>3. /\ Readable' <= RingSize /\ owed' \in Nat /\ pushing' \in 0 .. RingSize
          /\ spoiled' \in BOOLEAN /\ counted' \in 0 .. taken'
      BY <1>1 DEF MixerInv, StreamTypeOK
    <2>4. /\ sample_rate' \in Rates /\ num_channels' \in {1, 2} /\ device' \in Devices
          /\ playing' \in BOOLEAN /\ short' \in BOOLEAN
      BY <1>1, <1>2 DEF TypeOK
    <2>5. frames_played' \in 0 .. SoftIn
      BY <1>1, <1>2, <1>4 DEF TypeOK
    <2>6. torn' \in BOOLEAN
      BY <1>1 DEF MixerInv, StreamTypeOK
    <2> QED BY <2>1, <2>2, <2>3, <2>4, <2>5, <2>6 DEF TypeOK
  <1>6. HandsOver'
    <2>1. CASE UNCHANGED <<enqueued, taken, played_bytes, next_byte, torn>>
      BY <1>1, <1>2, <1>4, <2>1 DEF HandsOver
    <2>2. CASE /\ enqueued' = 0 /\ taken' = 0 /\ played_bytes' = 0 /\ next_byte' = 0
               /\ torn' = FALSE
      BY <1>2, <1>4, <2>2 DEF HandsOver
    <2> QED BY <1>3, <2>1, <2>2
  <1> QED BY <1>1, <1>2, <1>5, <1>6 DEF SoundInv, MixedInv, NoGapWhenStocked, FadesBeforeSilence

\* What is known of the sound is inductive.
LEMMA SoundNext == SoundInv /\ [Next]_vars => SoundInv'
  <1> SUFFICES ASSUME SoundInv, [Next]_vars PROVE SoundInv'
    OBVIOUS
  <1>1. StreamTypeOK
    BY DEF SoundInv, MixerInv
  <1>2. CASE Callback
    <2>1. CASE MixesNothing
      BY <1>2, <2>1, SilenceInv
    <2>2. CASE \E k, m : Mixes(k, m)
      BY <1>2, <2>2, SoundCallback
    <2> QED BY <1>1, <1>2, <2>1, <2>2, CallbackMixes
  <1> QED BY <1>2, SoundRests, SoundPlayFlush DEF Next

-----------------------------------------------------------------------------
(* The theorems.                                                             *)

\* Until a callback finds an incomplete frame, the position is that of the bytes
\* taken since the account was emptied, and frames begin where the ring's next
\* byte is; until a callback or a reset also falls inside an Enqueue, or the pump
\* resets a player that was fed again, the bytes owed and those being enqueued are
\* those in the ring; the ring never holds more than it can.
THEOREM MixerCorrect == Spec => []MixerInv
  BY InitInv, NextInv, PTL DEF Spec

\* The account and the position follow the ring, as far as AccountFollowsRing says.
THEOREM AccountFollows == Spec => []AccountFollowsRing
  <1>1. MixerInv => AccountFollowsRing
    BY DEF MixerInv
  <1> QED BY MixerCorrect, <1>1, PTL

\* Every chunk that a callback mixes stays in the device's buffer; when the ring
\* holds all that was wanted it fills the buffer if this is no longer than
\* SDL_AUDIO_SAMPLES frames, and falls short of a longer one; it leaves no more
\* than Spared behind it, and ends no louder than the next begins.
THEOREM MixedCorrect == Spec => []MixedInv
  <1>1. SoundInv => MixedInv
    BY DEF SoundInv
  <1> QED BY SoundInit, SoundNext, <1>1, PTL DEF Spec

\* A sound that breaks off inside the device's buffer has been faded out, but at
\* the SDL_AUDIO_SAMPLES frames that a callback fills of a longer buffer.
THEOREM SoundFades == Spec => []FadesBeforeSilence
  <1>1. SoundInv => FadesBeforeSilence
    BY DEF SoundInv
  <1> QED BY SoundInit, SoundNext, <1>1, PTL DEF Spec

\* A step that takes bytes from the ring and leaves something heard, or that got
\* all it wanted, is a callback that mixes frames.
LEMMA OnlyCallbacksTake ==
  ASSUME SoundInv, [Next]_vars, taken' # taken,
         heard' # << >> \/ (taken' > taken /\ ~short')
  PROVE  Callback /\ \E k, m : Mixes(k, m)
  <1>1. Callback
    <2>1. CASE Flush
      <3>1. taken' = 0 /\ heard' = << >> /\ taken \in Nat
        BY <2>1 DEF Flush, SoundInv, MixerInv, StreamTypeOK
      <3> QED BY <3>1
    <2>2. CASE Write \/ Push \/ Play \/ Pause \/ PumpReset \/ UNCHANGED vars
      BY <2>2 DEF Write, Push, Play, Pause, PumpReset, vars
    <2> QED BY <2>1, <2>2 DEF Next
  <1>2. ~MixesNothing
    BY DEF MixesNothing
  <1> QED BY <1>1, <1>2, CallbackMixes DEF SoundInv, MixerInv

\* The stream is heard in order, within a callback and from one to the next, and
\* what is left out of it is what the resampler has to step over.
THEOREM StreamInOrder == Spec => HeardInOrder
  <1> DEFINE Ordered == heard' # << >> /\ taken' # taken /\ ~torn =>
               /\ heard'[1].at \in next_byte .. next_byte + Spared
               /\ \A i \in 2 .. Len(heard') :
                    heard'[i].at - heard'[i - 1].at \in 0 .. Stride * frame_size
               /\ next_byte' <= taken'
  <1>1. SoundInv /\ [Next]_vars => Ordered
    <2> SUFFICES ASSUME SoundInv, [Next]_vars, heard' # << >>, taken' # taken, ~torn
                 PROVE  /\ heard'[1].at \in next_byte .. next_byte + Spared
                        /\ \A i \in 2 .. Len(heard') :
                             heard'[i].at - heard'[i - 1].at \in 0 .. Stride * frame_size
                        /\ next_byte' <= taken'
      OBVIOUS
    <2>1. PICK k, m : Mixes(k, m)
      BY OnlyCallbacksTake
    <2>2. /\ StreamTypeOK /\ frames_played \in Nat /\ taken \in Nat /\ next_byte \in 0 .. taken
          /\ taken - next_byte <= Spared /\ Spared \in Nat
      BY SparedFacts DEF SoundInv, MixerInv, MixedInv, TypeOK, HandsOver, StreamTypeOK
    <2>3. /\ Len(heard') = m /\ m \in 1 .. out_frames /\ out_frames \in Nat
          /\ \A i \in 1 .. m : heard'[i].at = taken + Source(i - 1) * frame_size
      BY <2>1, <2>2, HeardFacts, RateFacts DEF Mixes
    <2>4. frame_size \in {2, 4} /\ Stride \in Nat
      BY <2>2, RateFacts
    <2>5. heard'[1].at \in next_byte .. next_byte + Spared
      <3>1. heard'[1].at = taken + Source(1 - 1) * frame_size
        BY <2>3
      <3>2. Source(1 - 1) = 0
        BY <2>2, SourceBegins
      <3>3. heard'[1].at = taken
        BY <2>2, <2>4, <3>1, <3>2
      <3> QED BY <2>2, <3>3
    <2>6. ASSUME NEW i \in 2 .. Len(heard')
          PROVE  heard'[i].at - heard'[i - 1].at \in 0 .. Stride * frame_size
      <3> DEFINE a == Source(i - 2)
                 b == Source(i - 1)
      <3>1. i \in 1 .. m /\ i - 1 \in 1 .. m /\ i - 2 \in Nat /\ i - 1 \in Nat
            /\ (i - 1) - 1 = i - 2 /\ (i - 2) + 1 = i - 1 /\ i - 2 <= i - 1
        BY <2>3, <2>6
      <3>2. a \in Nat /\ b \in Nat /\ a <= b /\ b <= a + Stride
        BY <2>2, <3>1, SourceFacts
      <3>3. heard'[i].at = taken + b * frame_size /\ heard'[i - 1].at = taken + a * frame_size
        <4>1. heard'[i - 1].at = taken + Source((i - 1) - 1) * frame_size
          BY <2>3, <3>1
        <4> QED BY <2>3, <3>1, <4>1
      <3> DEFINE fs == frame_size
      <3> HIDE DEF a, b, fs
      <3>4. (b - a) * fs \in 0 .. Stride * fs /\ (b - a) * fs = b * fs - a * fs
        <4>1. fs \in Nat
          BY <2>4 DEF fs
        <4> DEFINE c == b - a
        <4>2. c \in Nat /\ c <= Stride
          BY <2>4, <3>2
        <4>3. b * fs = (c + a) * fs
          BY <3>2
        <4> HIDE DEF c
        <4>4. c * fs <= Stride * fs /\ c * fs \in Nat
          BY <2>4, <4>1, <4>2, Z3
        <4>5. (c + a) * fs = c * fs + a * fs
          BY <3>2, <4>1, <4>2, Z3
        <4>6. a * fs \in Nat /\ Stride * fs \in Nat
          BY <2>4, <3>2, <4>1
        <4>7. c * fs \in 0 .. Stride * fs /\ c * fs = b * fs - a * fs
          BY <4>3, <4>4, <4>5, <4>6
        <4> QED BY <4>7 DEF c
      <3>5. a * fs \in Nat /\ b * fs \in Nat
        BY <2>4, <3>2 DEF fs
      <3>6. (taken + b * fs) - (taken + a * fs) = (b - a) * fs
        BY <2>2, <3>4, <3>5
      <3> QED BY <3>3, <3>4, <3>6 DEF fs
    <2>7. next_byte' <= taken'
      <3>1. SoundInv'
        BY SoundNext
      <3> QED BY <3>1 DEF SoundInv, MixerInv, StreamTypeOK, MixedInv, TypeOK
    <2> QED BY <2>5, <2>6, <2>7
  <1> QED BY SoundInit, SoundNext, <1>1, PTL DEF Spec, HeardInOrder

\* While callbacks get all they want, no frame is quieter than the one before.
THEOREM SoundNeverDips == Spec => NoDips
  <1> DEFINE Rises == taken' > taken /\ ~short' =>
               /\ heard # << >> /\ ~short => AtMost(heard[Len(heard)].env, heard'[1].env)
               /\ \A i \in 2 .. Len(heard') : AtMost(heard'[i - 1].env, heard'[i].env)
  <1>1. SoundInv /\ [Next]_vars => Rises
    <2> SUFFICES ASSUME SoundInv, [Next]_vars, taken' > taken, ~short'
                 PROVE  /\ heard # << >> /\ ~short => AtMost(heard[Len(heard)].env, heard'[1].env)
                        /\ \A i \in 2 .. Len(heard') : AtMost(heard'[i - 1].env, heard'[i].env)
      OBVIOUS
    <2>1. taken' # taken
      <3>1. taken \in Nat
        BY DEF SoundInv, MixerInv, StreamTypeOK
      <3> QED BY <3>1
    <2>2. PICK k, m : Mixes(k, m)
      BY <2>1, OnlyCallbacksTake
    <2>3. StreamTypeOK /\ frames_played \in Nat
      BY DEF SoundInv, MixerInv, MixedInv, TypeOK
    <2>4. /\ Len(heard') = m /\ m \in 1 .. out_frames /\ out_frames \in Nat /\ k \in Nat \ {0}
          /\ \A i \in 1 .. m : heard'[i].env = Envelope(k, short', i - 1)
      BY <2>2, <2>3, HeardFacts, RateFacts DEF Mixes
    <2>5. ASSUME NEW i \in 1 .. m PROVE heard'[i].env = FadeIn(i - 1)
      <3>1. i - 1 \in Nat
        BY <2>4
      <3>2. Envelope(k, short', i - 1) = FadeIn(i - 1)
        BY DEF Envelope
      <3> QED BY <2>4, <3>2
    <2>6. heard # << >> /\ ~short => AtMost(heard[Len(heard)].env, heard'[1].env)
      <3>1. 1 \in 1 .. m /\ 1 - 1 = 0
        BY <2>4
      <3>2. heard'[1].env = FadeIn(0)
        BY <2>5, <3>1
      <3> QED BY <3>2 DEF SoundInv, MixedInv, HandsOver
    <2>7. ASSUME NEW i \in 2 .. Len(heard')
          PROVE  AtMost(heard'[i - 1].env, heard'[i].env)
      <3>1. i \in 1 .. m /\ i - 1 \in 1 .. m /\ i - 2 \in Nat /\ (i - 1) - 1 = i - 2 /\ (i - 2) + 1 = i - 1
        BY <2>4, <2>7
      <3>2. heard'[i].env = FadeIn(i - 1) /\ heard'[i - 1].env = FadeIn(i - 2)
        <4>1. heard'[i - 1].env = FadeIn((i - 1) - 1)
          BY <2>5, <3>1
        <4> QED BY <2>5, <3>1, <4>1
      <3>3. AtMost(FadeIn(i - 2), FadeIn((i - 2) + 1))
        BY <2>3, <3>1, FadeInFacts
      <3> QED BY <3>1, <3>2, <3>3
    <2> QED BY <2>6, <2>7
  <1> QED BY SoundInit, SoundNext, <1>1, PTL DEF Spec, NoDips
-----------------------------------------------------------------------------
(* PlayerPool: its counts.                                                   *)

\* The pool's invariant with what its counts need: finitely many of each.
PoolIInv == PoolInv /\ IsFiniteSet(Handles) /\ IsFiniteSet(Creators)

\* What the proofs about the pool need of its constants.
LEMMA PoolConstants ==
  /\ MaxPlayers \in Nat \ {0} /\ MaxPlayed \in Nat \ {0} /\ 1 \in Players
  /\ AudioThread \notin Threads /\ Nobody \notin Threads /\ AudioThread # Nobody
  /\ None \notin Players /\ \A p \in Players : p \in Nat
  BY PoolAssumption DEF Players, None

\* Entries in use.
InUse == {p \in Players : active[p]}

\* The table is finite; with fewer entries in use than it has, one is free.
LEMMA EntriesFinite ==
  /\ IsFiniteSet(Players) /\ Cardinality(Players) = MaxPlayers
  /\ IsFiniteSet(InUse) /\ Cardinality(InUse) \in Nat /\ Cardinality(InUse) <= MaxPlayers
  /\ Cardinality(InUse) < MaxPlayers => \E p \in Players : p \notin InUse
  <1>1. IsFiniteSet(1 .. MaxPlayers) /\ Cardinality(1 .. MaxPlayers) = MaxPlayers
    <2>1. MaxPlayers \in Nat
      BY PoolConstants
    <2>2. /\ IsFiniteSet(1 .. MaxPlayers)
          /\ Cardinality(1 .. MaxPlayers) = IF 1 > MaxPlayers THEN 0 ELSE MaxPlayers - 1 + 1
      BY <2>1, FS_Interval
    <2> QED BY <2>1, <2>2, PoolConstants
  <1>2. InUse \subseteq Players
    BY DEF InUse
  <1>3. IsFiniteSet(InUse) /\ Cardinality(InUse) <= MaxPlayers
    BY <1>1, <1>2, FS_Subset DEF Players
  <1>4. Cardinality(InUse) \in Nat
    BY <1>3, FS_CardinalityType
  <1>5. ASSUME \A p \in Players : p \in InUse PROVE Cardinality(InUse) = MaxPlayers
    <2>1. InUse = Players
      BY <1>2, <1>5
    <2> QED BY <1>1, <2>1 DEF Players
  <1> QED BY <1>1, <1>3, <1>4, <1>5, PoolConstants DEF Players

\* The count of players is one of finite sets.
LEMMA CountsAreNumbers ==
  ASSUME PoolIInv
  PROVE  /\ Cardinality(Handles) \in Nat /\ Cardinality(Creators) \in Nat
         /\ live = Cardinality(Handles) + Cardinality(Creators)
  BY FS_CardinalityType DEF PoolIInv, PoolInv, LiveCounted

-----------------------------------------------------------------------------
(* The count of players.                                                     *)

\* A handle more and a handle less.
LEMMA HandleAdded ==
  ASSUME handles \in [Players -> Nat], IsFiniteSet(Handles), NEW p \in Players,
         handles' = [handles EXCEPT ![p] = @ + 1]
  PROVE  IsFiniteSet(Handles)' /\ Cardinality(Handles)' = Cardinality(Handles) + 1
  <1> DEFINE h == <<p, handles[p] + 1>>
  <1>1. handles[p] \in Nat
    OBVIOUS
  <1>2. \A x : x \in Handles <=> \E q \in Players : x \in {q} \X (1 .. handles[q])
    BY DEF Handles
  <1>3. \A x : x \in Handles' <=> \E q \in Players : x \in {q} \X (1 .. handles'[q])
    BY DEF Handles
  <1>4. handles'[p] = handles[p] + 1 /\ \A q \in Players : q # p => handles'[q] = handles[q]
    OBVIOUS
  <1>5. h \notin Handles
    <2> SUFFICES ASSUME NEW q \in Players, h \in {q} \X (1 .. handles[q]) PROVE FALSE
      BY <1>2
    <2> QED BY <1>1
  <1>6. 1 .. handles'[p] = (1 .. handles[p]) \cup {handles[p] + 1}
    BY <1>1, <1>4
  <1>7. ASSUME NEW x PROVE x \in Handles' <=> x \in Handles \cup {h}
    <2>1. ASSUME NEW q \in Players, q # p
          PROVE  x \in {q} \X (1 .. handles'[q]) <=> x \in {q} \X (1 .. handles[q])
      BY <1>4, <2>1
    <2>2. x \in {p} \X (1 .. handles'[p]) <=> x \in {p} \X (1 .. handles[p]) \/ x = h
      BY <1>6
    <2> QED BY <1>2, <1>3, <2>1, <2>2
  <1>8. Handles' = Handles \cup {h}
    BY <1>7
  <1> QED BY <1>5, <1>8, FS_AddElement

LEMMA HandleRemoved ==
  ASSUME handles \in [Players -> Nat], IsFiniteSet(Handles), NEW p \in Players, handles[p] > 0,
         handles' = [handles EXCEPT ![p] = @ - 1]
  PROVE  IsFiniteSet(Handles)' /\ Cardinality(Handles)' = Cardinality(Handles) - 1
  <1> DEFINE h == <<p, handles[p]>>
  <1>1. handles[p] \in Nat \ {0}
    OBVIOUS
  <1>2. \A x : x \in Handles <=> \E q \in Players : x \in {q} \X (1 .. handles[q])
    BY DEF Handles
  <1>3. \A x : x \in Handles' <=> \E q \in Players : x \in {q} \X (1 .. handles'[q])
    BY DEF Handles
  <1>4. handles'[p] = handles[p] - 1 /\ \A q \in Players : q # p => handles'[q] = handles[q]
    OBVIOUS
  <1>5. h \in Handles
    BY <1>1, <1>2
  <1>6. 1 .. handles'[p] = (1 .. handles[p]) \ {handles[p]}
    BY <1>1, <1>4
  <1>7. ASSUME NEW x PROVE x \in Handles' <=> x \in Handles \ {h}
    <2>1. ASSUME NEW q \in Players, q # p
          PROVE  x \in {q} \X (1 .. handles'[q]) <=> x \in {q} \X (1 .. handles[q]) /\ x # h
      BY <1>4, <2>1
    <2>2. x \in {p} \X (1 .. handles'[p]) <=> x \in {p} \X (1 .. handles[p]) /\ x # h
      BY <1>6
    <2> QED BY <1>2, <1>3, <2>1, <2>2
  <1>8. Handles' = Handles \ {h}
    BY <1>7
  <1> QED BY <1>5, <1>8, FS_RemoveElement

\* A step of a thread that goes on creating, and any step of another kind, leaves
\* the count alone.
LEMMA CountKept ==
  ASSUME PoolIInv, UNCHANGED <<handles, live>>,
         \A t \in Threads : pc[t] = "idle" <=> pc'[t] = "idle"
  PROVE  LiveCounted' /\ IsFiniteSet(Handles)' /\ IsFiniteSet(Creators)'
  <1>1. Handles' = Handles
    BY DEF Handles
  <1>2. Creators' = Creators
    BY DEF Creators
  <1> QED BY <1>1, <1>2 DEF PoolIInv, PoolInv, LiveCounted

-----------------------------------------------------------------------------
(* The steps.                                                                *)

\* The empty pool.
LEMMA PoolInitInv == PoolInit => PoolIInv
  <1> SUFFICES ASSUME PoolInit PROVE PoolIInv
    OBVIOUS
  <1>1. PoolTypeOK
    <2>1. /\ active \in [Players -> BOOLEAN] /\ play_state \in [Players -> {"STOPPED", "PAUSED", "PLAYING"}]
          /\ queued \in [Players -> Nat] /\ played \in [Players -> Nat] /\ handles \in [Players -> Nat]
      BY DEF PoolInit
    <2>2. /\ pc \in [Threads -> Searches \cup {"idle", "oldest", "lock", "reset", "configure"}]
          /\ at \in [Threads -> Players]
          /\ oldest \in [Threads -> Players \cup {None}] /\ most \in [Threads -> Nat]
      BY PoolConstants DEF PoolInit
    <2>3. /\ players_lock \in Threads \cup {Nobody} /\ device_lock \in Threads \cup {Nobody, AudioThread}
          /\ mixing \in 1 .. MaxPlayers + 1 /\ busy \in Players \cup {None} /\ live \in Nat
      BY PoolConstants DEF PoolInit
    <2>4. overfull \in BOOLEAN
      BY DEF PoolInit
    <2> QED BY <2>1, <2>2, <2>3, <2>4 DEF PoolTypeOK
  <1>2. LocksHeld /\ OldestIsKnown
    BY PoolConstants DEF PoolInit, LocksHeld, OldestIsKnown, Locking, Searches
  <1>3. Handles = {} /\ Creators = {}
    <2>1. \A q \in Players : 1 .. handles[q] = {}
      BY DEF PoolInit
    <2>2. \A x : x \in Handles <=> \E q \in Players : x \in {q} \X (1 .. handles[q])
      BY DEF Handles
    <2>3. Handles = {}
      BY <2>1, <2>2
    <2> QED BY <2>3 DEF Creators, PoolInit
  <1>4. LiveCounted /\ IsFiniteSet(Handles) /\ IsFiniteSet(Creators)
    BY <1>3, FS_EmptySet DEF LiveCounted, PoolInit
  <1>5. RoomForAll
    <2>1. {p \in Players : active[p]} = {}
      BY DEF PoolInit
    <2>2. Cardinality({p \in Players : active[p]}) = 0
      BY <2>1, FS_EmptySet
    <2> QED BY <2>2, PoolConstants DEF PoolInit, RoomForAll
  <1>6. HandlesAreDistinct
    BY DEF PoolInit, HandlesAreDistinct
  <1> QED BY <1>1, <1>2, <1>4, <1>5, <1>6 DEF PoolIInv, PoolInv

\* Steps that touch neither the threads in alloc_player nor the callback.
LEMMA PoolGuestInv ==
  ASSUME PoolIInv, NEW p \in Players,
         EnqueueOn(p) \/ PumpStop(p) \/ (\E state \in {"STOPPED", "PAUSED", "PLAYING"} : SetPlayState(p, state))
  PROVE  PoolIInv'
  <1>1. UNCHANGED <<active, players_lock, device_lock, search, audio, guest>>
    BY DEF EnqueueOn, PumpStop, SetPlayState
  <1>2. UNCHANGED <<active, players_lock, device_lock, pc, at, oldest, most, mixing, busy, handles, live, overfull>>
    BY <1>1 DEF search, audio, guest
  <1>3. /\ play_state' \in [Players -> {"STOPPED", "PAUSED", "PLAYING"}]
        /\ queued' \in [Players -> Nat] /\ played' \in [Players -> Nat]
    BY DEF EnqueueOn, PumpStop, SetPlayState, PoolIInv, PoolInv, PoolTypeOK
  <1>4. PoolTypeOK'
    BY <1>2, <1>3 DEF PoolIInv, PoolInv, PoolTypeOK
  <1>5. LocksHeld' /\ OldestIsKnown' /\ RoomForAll' /\ HandlesAreDistinct'
    BY <1>2 DEF PoolIInv, PoolInv, LocksHeld, OldestIsKnown, RoomForAll, HandlesAreDistinct
  <1>6. LiveCounted' /\ IsFiniteSet(Handles)' /\ IsFiniteSet(Creators)'
    BY <1>2, CountKept
  <1> QED BY <1>4, <1>5, <1>6 DEF PoolIInv, PoolInv

\* The callback walks the table with the device lock, and mixes entries in use.
LEMMA PoolAudioInv ==
  ASSUME PoolIInv, AudioBegin \/ Audio
  PROVE  PoolIInv'
  <1>1. UNCHANGED <<active, play_state, players_lock, search, guest>>
    BY DEF AudioBegin, Audio, AudioSkip, AudioMix, AudioMixed, AudioEnd, entries
  <1>2. UNCHANGED <<active, play_state, players_lock, pc, at, oldest, most, handles, live, overfull>>
    BY <1>1 DEF search, guest
  <1>3. PoolTypeOK /\ LocksHeld /\ RoomForAll
    BY DEF PoolIInv, PoolInv
  <1>4. /\ queued' \in [Players -> Nat] /\ played' \in [Players -> Nat]
        /\ device_lock' \in Threads \cup {Nobody, AudioThread}
        /\ mixing' \in 1 .. MaxPlayers + 1 /\ busy' \in Players \cup {None}
    <2>1. CASE AudioBegin
      BY <1>3, <2>1, PoolConstants DEF AudioBegin, PoolTypeOK, entries
    <2>2. CASE AudioSkip
      BY <1>3, <2>2, PoolConstants DEF AudioSkip, PoolTypeOK, entries
    <2>3. CASE AudioMix
      BY <1>3, <2>3, PoolConstants DEF AudioMix, PoolTypeOK, entries, Players
    <2>4. CASE AudioMixed
      <3>1. busy \in Players /\ busy = mixing /\ MaxPlayed - 1 \in Nat
        BY <1>3, <2>4, PoolConstants DEF AudioMixed, PoolTypeOK, LocksHeld
      <3>2. /\ played' = [played EXCEPT ![busy] = @ + 1]
            /\ queued' = [queued EXCEPT ![busy] = IF @ = 0 THEN MaxPlayed - 1 ELSE @ - 1]
            /\ busy' = None /\ mixing' = mixing + 1 /\ device_lock' = device_lock
        BY <2>4 DEF AudioMixed
      <3>3. mixing' \in 1 .. MaxPlayers + 1
        BY <3>1, <3>2, PoolConstants DEF Players
      <3>4. queued[busy] \in Nat /\ played[busy] \in Nat
        BY <1>3, <3>1 DEF PoolTypeOK
      <3> QED BY <1>3, <3>1, <3>2, <3>3, <3>4 DEF PoolTypeOK
    <2>5. CASE AudioEnd
      BY <1>3, <2>5, PoolConstants DEF AudioEnd, PoolTypeOK, entries, audio
    <2> QED BY <2>1, <2>2, <2>3, <2>4, <2>5 DEF Audio
  <1>5. PoolTypeOK'
    BY <1>2, <1>3, <1>4 DEF PoolTypeOK
  <1>6. /\ busy' # None => device_lock' = AudioThread /\ busy' = mixing'
        /\ busy' # None /\ ~overfull => active[busy']
        /\ \A t \in Threads : device_lock' = t => device_lock = t
    <2>1. CASE AudioBegin
      BY <1>3, <2>1, PoolConstants DEF AudioBegin, LocksHeld
    <2>2. CASE AudioSkip
      BY <1>3, <2>2 DEF AudioSkip
    <2>3. CASE AudioMix
      BY <1>3, <2>3 DEF AudioMix, Audible
    <2>4. CASE AudioMixed
      BY <1>3, <2>4 DEF AudioMixed
    <2>5. CASE AudioEnd
      BY <1>3, <2>5, PoolConstants DEF AudioEnd, audio
    <2> QED BY <2>1, <2>2, <2>3, <2>4, <2>5 DEF Audio
  <1>7. LocksHeld'
    BY <1>2, <1>3, <1>6 DEF LocksHeld
  <1>8. OldestIsKnown'
    BY <1>2 DEF PoolIInv, PoolInv, OldestIsKnown
  <1>9. RoomForAll'
    BY <1>2, <1>3, <1>6 DEF RoomForAll
  <1>10. LiveCounted' /\ IsFiniteSet(Handles)' /\ IsFiniteSet(Creators)'
    BY <1>2, CountKept
  <1>11. HandlesAreDistinct'
    BY <1>5, <1>9 DEF RoomForAll, HandlesAreDistinct
  <1> QED BY <1>5, <1>7, <1>8, <1>9, <1>10, <1>11 DEF PoolIInv, PoolInv

\* A thread takes g_players_lock; if the table has room, an entry is free.
LEMMA CreateBeginInv ==
  ASSUME PoolIInv, NEW t \in Threads, CreateBegin(t)
  PROVE  PoolIInv'
  <1>1. PoolTypeOK /\ LocksHeld /\ OldestIsKnown /\ RoomForAll /\ IsFiniteSet(Handles) /\ IsFiniteSet(Creators)
    BY DEF PoolIInv, PoolInv
  <1>2. /\ pc[t] = "idle" /\ players_lock = Nobody /\ players_lock' = t
        /\ live' = live + 1 /\ overfull' = (overfull \/ live' > MaxPlayers)
        /\ pc' = [pc EXCEPT ![t] = "inactive"] /\ at' = [at EXCEPT ![t] = 1]
        /\ UNCHANGED <<active, play_state, queued, played, device_lock, oldest, most, mixing, busy, handles>>
    BY DEF CreateBegin, PlayersLockFree, Goto, entries, audio
  <1>3. /\ pc'[t] = "inactive" /\ at'[t] = 1
        /\ \A u \in Threads : u # t => pc'[u] = pc[u] /\ at'[u] = at[u]
    BY <1>1, <1>2 DEF PoolTypeOK
  <1>4. PoolTypeOK'
    <2>1. pc' \in [Threads -> Searches \cup {"idle", "oldest", "lock", "reset", "configure"}]
          /\ at' \in [Threads -> Players]
      BY <1>1, <1>2, PoolConstants DEF PoolTypeOK, Searches
    <2>2. live' \in Nat
      BY <1>1, <1>2 DEF PoolTypeOK
    <2>3. overfull' \in BOOLEAN
      BY <1>2
    <2> QED BY <1>1, <1>2, <2>1, <2>2, <2>3 DEF PoolTypeOK
  <1>5. LocksHeld'
    BY <1>1, <1>2, <1>3, PoolConstants DEF LocksHeld, Locking, Searches
  <1>6. OldestIsKnown'
    BY <1>1, <1>2, <1>3 DEF OldestIsKnown, Searches
  <1>7. LiveCounted' /\ IsFiniteSet(Handles)' /\ IsFiniteSet(Creators)'
    <2>1. Handles' = Handles
      BY <1>2 DEF Handles
    <2>2. t \notin Creators /\ Creators' = Creators \cup {t}
      BY <1>2, <1>3 DEF Creators
    <2>3. IsFiniteSet(Creators') /\ Cardinality(Creators') = Cardinality(Creators) + 1
      BY <1>1, <2>2, FS_AddElement
    <2> QED BY <1>1, <1>2, <2>1, <2>3, CountsAreNumbers DEF LiveCounted
  <1>8. RoomForAll'
    <2> SUFFICES ASSUME ~overfull' PROVE RoomForAll'
      BY DEF RoomForAll
    <2>1. ~overfull /\ live + 1 <= MaxPlayers
      <3>1. ~overfull /\ ~(live' > MaxPlayers)
        BY <1>2
      <3>2. live' = live + 1 /\ live \in Nat
        BY <1>1, <1>2 DEF PoolTypeOK
      <3>3. live + 1 <= MaxPlayers
        BY <3>1, <3>2, PoolConstants
      <3> QED BY <3>1, <3>3
    <2>2. live = Cardinality(InUse)
      BY <1>1, <1>2, <2>1, EntriesFinite DEF RoomForAll, InUse
    <2>3. PICK free \in Players : ~active[free]
      <3>1. Cardinality(InUse) < MaxPlayers
        BY <2>1, <2>2, PoolConstants, EntriesFinite
      <3> QED BY <3>1, EntriesFinite DEF InUse
    <2>4. \A u \in Threads : u # t => pc[u] \in {"idle", "configure"}
      <3>1. \A u \in Threads : pc[u] \notin Locking
        BY <1>1, <1>2, PoolConstants DEF LocksHeld
      <3> QED BY <1>1, <2>1, <3>1 DEF RoomForAll, Locking, Searches
    <2>5. free \in at'[t] .. MaxPlayers /\ ~active'[free]
      BY <1>2, <1>3, <2>3 DEF Players
    <2>6. \A u \in Threads :
             /\ pc'[u] \in {"idle", "inactive", "reset", "configure"}
             /\ pc'[u] = "inactive" => \E q \in at'[u] .. MaxPlayers : ~active'[q]
             /\ pc'[u] = "reset" => ~active'[at'[u]]
             /\ pc'[u] = "configure" => active'[at'[u]] /\ handles'[at'[u]] = 0
      <3> TAKE u \in Threads
      <3>1. CASE u = t
        BY <1>3, <2>5, <3>1
      <3>2. CASE u # t
        BY <1>1, <1>2, <1>3, <2>1, <2>4, <3>2 DEF RoomForAll
      <3> QED BY <3>1, <3>2
    <2>7. \A u \in Threads : \A w \in Threads \ {u} :
             pc'[u] = "configure" /\ pc'[w] = "configure" => at'[u] # at'[w]
      BY <1>1, <1>3, <2>1 DEF RoomForAll
    <2>8. live' = Cardinality({p \in Players : active[p]})' + (IF players_lock' = Nobody THEN 0 ELSE 1)
      BY <1>2, <2>2, PoolConstants DEF InUse
    <2>9. live' <= MaxPlayers /\ (\A q \in Players : handles'[q] <= 1 /\ (handles'[q] = 1 => active'[q]))
          /\ (busy' # None => active'[busy'])
      BY <1>1, <1>2, <2>1 DEF RoomForAll
    <2> QED BY <2>6, <2>7, <2>8, <2>9 DEF RoomForAll
  <1>9. HandlesAreDistinct'
    BY <1>4, <1>8 DEF PoolTypeOK, RoomForAll, HandlesAreDistinct
  <1> QED BY <1>4, <1>5, <1>6, <1>7, <1>8, <1>9 DEF PoolIInv, PoolInv

\* A search goes on, ends with an entry or gives way to the next; as long as
\* the table has room the first one finds a free entry ahead of it.
LEMMA SearchInv ==
  ASSUME PoolIInv, NEW t \in Threads, Search(t)
  PROVE  PoolIInv'
  <1> DEFINE p == at[t]
  <1>1. PoolTypeOK /\ LocksHeld /\ OldestIsKnown /\ RoomForAll
    BY DEF PoolIInv, PoolInv
  <1>2. /\ pc[t] \in Searches
        /\ UNCHANGED <<active, play_state, queued, played, players_lock, device_lock, oldest, most,
                       mixing, busy, handles, live, overfull>>
    BY DEF Search, entries, audio, guest
  <1>3. \/ Accepts(pc[t], p) /\ Goto(t, OnSuccess[pc[t]], p)
        \/ ~Accepts(pc[t], p) /\ p < MaxPlayers /\ Goto(t, pc[t], p + 1)
        \/ ~Accepts(pc[t], p) /\ ~(p < MaxPlayers) /\ Goto(t, OnFailure[pc[t]], 1)
    BY DEF Search
  <1>4. /\ p \in Players
        /\ OnSuccess[pc[t]] \in {"reset", "lock"} /\ OnFailure[pc[t]] \in {"drained", "stopped", "oldest"}
    BY <1>1, <1>2 DEF PoolTypeOK, OnSuccess, OnFailure, Searches
  <1>5. PICK s, i : /\ pc' = [pc EXCEPT ![t] = s] /\ at' = [at EXCEPT ![t] = i]
                    /\ s \in Searches \cup {"reset", "lock", "oldest"}
                    /\ i \in Players /\ (s = "oldest" => i = 1)
    <2>1. CASE Accepts(pc[t], p) /\ Goto(t, OnSuccess[pc[t]], p)
      BY <1>4, <2>1 DEF Goto
    <2>2. CASE ~Accepts(pc[t], p) /\ p < MaxPlayers /\ Goto(t, pc[t], p + 1)
      <3>1. p + 1 \in Players
        BY <1>4, <2>2, PoolConstants DEF Players
      <3>2. pc[t] # "oldest"
        BY <1>2 DEF Searches
      <3> QED BY <1>2, <2>2, <3>1, <3>2 DEF Goto
    <2>3. CASE ~Accepts(pc[t], p) /\ ~(p < MaxPlayers) /\ Goto(t, OnFailure[pc[t]], 1)
      BY <1>4, <2>3, PoolConstants DEF Goto, Searches
    <2> QED BY <1>3, <2>1, <2>2, <2>3
  <1>6. /\ pc'[t] = s /\ at'[t] = i
        /\ \A u \in Threads : u # t => pc'[u] = pc[u] /\ at'[u] = at[u]
    BY <1>1, <1>5 DEF PoolTypeOK
  <1>7. PoolTypeOK'
    <2>1. pc' \in [Threads -> Searches \cup {"idle", "oldest", "lock", "reset", "configure"}]
          /\ at' \in [Threads -> Players]
      BY <1>1, <1>5 DEF PoolTypeOK
    <2> QED BY <1>1, <1>2, <2>1 DEF PoolTypeOK
  <1>8. LocksHeld'
    <2>1. pc[t] \in Locking /\ pc'[t] \in Locking /\ pc[t] # "reset"
      BY <1>2, <1>5, <1>6 DEF Locking, Searches
    <2> QED BY <1>1, <1>2, <1>6, <2>1 DEF LocksHeld
  <1>9. OldestIsKnown'
    <2>1. most'[t] = 0
      BY <1>1, <1>2 DEF OldestIsKnown
    <2> QED BY <1>1, <1>2, <1>5, <1>6, <2>1 DEF OldestIsKnown
  <1>10. LiveCounted' /\ IsFiniteSet(Handles)' /\ IsFiniteSet(Creators)'
    <2>1. \A u \in Threads : pc[u] = "idle" <=> pc'[u] = "idle"
      BY <1>2, <1>5, <1>6 DEF Searches
    <2> QED BY <1>2, <2>1, CountKept
  <1>11. RoomForAll'
    <2> SUFFICES ASSUME ~overfull PROVE RoomForAll'
      BY <1>2 DEF RoomForAll
    <2>1. pc[t] = "inactive"
      BY <1>1, <1>2 DEF RoomForAll, Searches
    <2>2. PICK free \in p .. MaxPlayers : ~active[free]
      BY <1>1, <2>1 DEF RoomForAll
    <2>3. Accepts(pc[t], p) <=> ~active[p]
      BY <2>1 DEF Accepts
    <2>4. \/ s = "reset" /\ ~active[i]
          \/ s = "inactive" /\ free \in i .. MaxPlayers
      <3>1. CASE Accepts(pc[t], p) /\ Goto(t, OnSuccess[pc[t]], p)
        <4>1. pc'[t] = "reset" /\ at'[t] = p
          BY <1>1, <2>1, <3>1 DEF Goto, OnSuccess, PoolTypeOK
        <4> QED BY <1>6, <2>3, <3>1, <4>1
      <3>2. CASE ~Accepts(pc[t], p) /\ p < MaxPlayers /\ Goto(t, pc[t], p + 1)
        <4>1. pc'[t] = "inactive" /\ at'[t] = p + 1
          BY <1>1, <2>1, <3>2 DEF Goto, PoolTypeOK
        <4>2. free # p /\ free \in p .. MaxPlayers /\ p \in Nat
          BY <1>4, <2>2, <2>3, <3>2, PoolConstants
        <4> QED BY <1>6, <4>1, <4>2, PoolConstants
      <3>3. CASE ~Accepts(pc[t], p) /\ ~(p < MaxPlayers) /\ Goto(t, OnFailure[pc[t]], 1)
        <4>1. free # p /\ p = MaxPlayers
          BY <1>4, <2>2, <2>3, <3>3, PoolConstants DEF Players
        <4> QED BY <2>2, <4>1, PoolConstants
      <3> QED BY <1>3, <3>1, <3>2, <3>3
    <2>5. \A u \in Threads :
             /\ pc'[u] \in {"idle", "inactive", "reset", "configure"}
             /\ pc'[u] = "inactive" => \E q \in at'[u] .. MaxPlayers : ~active'[q]
             /\ pc'[u] = "reset" => ~active'[at'[u]]
             /\ pc'[u] = "configure" => active'[at'[u]] /\ handles'[at'[u]] = 0
      <3> TAKE u \in Threads
      <3>1. CASE u = t
        <4>1. pc'[u] = s /\ at'[u] = i /\ active' = active
          BY <1>2, <1>6, <3>1
        <4>2. CASE s = "reset" /\ ~active[i]
          BY <4>1, <4>2
        <4>3. CASE s = "inactive" /\ free \in i .. MaxPlayers
          BY <2>2, <4>1, <4>3
        <4> QED BY <2>4, <4>2, <4>3
      <3>2. CASE u # t
        BY <1>1, <1>2, <1>6, <3>2 DEF RoomForAll
      <3> QED BY <3>1, <3>2
    <2>6. \A u \in Threads : \A w \in Threads \ {u} :
             pc'[u] = "configure" /\ pc'[w] = "configure" => at'[u] # at'[w]
      BY <1>1, <1>6, <2>4 DEF RoomForAll
    <2>7. /\ live' <= MaxPlayers
          /\ live' = Cardinality({q \in Players : active[q]})' + (IF players_lock' = Nobody THEN 0 ELSE 1)
          /\ \A q \in Players : handles'[q] <= 1 /\ (handles'[q] = 1 => active'[q])
          /\ busy' # None => active'[busy']
      BY <1>1, <1>2 DEF RoomForAll
    <2> QED BY <2>5, <2>6, <2>7 DEF RoomForAll
  <1>12. HandlesAreDistinct'
    BY <1>7, <1>11 DEF PoolTypeOK, RoomForAll, HandlesAreDistinct
  <1> QED BY <1>7, <1>8, <1>9, <1>10, <1>11, <1>12 DEF PoolIInv, PoolInv

\* The last two steps before a reset are only reached when the table is full.
LEMMA OverfullInv ==
  ASSUME PoolIInv, NEW t \in Threads, SearchOldest(t) \/ LockDevice(t)
  PROVE  PoolIInv'
  <1>1. PoolTypeOK /\ LocksHeld /\ OldestIsKnown /\ RoomForAll
    BY DEF PoolIInv, PoolInv
  <1>2. /\ pc[t] \in {"oldest", "lock"}
        /\ UNCHANGED <<active, play_state, queued, played, players_lock, mixing, busy, handles, live, overfull>>
    BY DEF SearchOldest, LockDevice, entries, audio, guest
  <1>3. RoomForAll' /\ HandlesAreDistinct'
    <2>1. overfull' = TRUE
      <3>1. ~(~overfull)
        BY <1>1, <1>2 DEF RoomForAll
      <3> QED BY <1>1, <1>2, <3>1 DEF PoolTypeOK
    <2> QED BY <2>1 DEF RoomForAll, HandlesAreDistinct
  <1>4. CASE SearchOldest(t)
    <2> DEFINE p == at[t]
    <2>1. p \in Players /\ played[p] \in Nat /\ oldest[t] \in Players \cup {None} /\ most[t] \in Nat
      BY <1>1 DEF PoolTypeOK
    <2>2. /\ pc[t] = "oldest" /\ device_lock' = device_lock
          /\ IF MorePlayed(t, p)
             THEN oldest' = [oldest EXCEPT ![t] = p] /\ most' = [most EXCEPT ![t] = played[p]]
             ELSE UNCHANGED <<oldest, most>>
          /\ IF p < MaxPlayers THEN Goto(t, "oldest", p + 1) ELSE Goto(t, "lock", oldest'[t])
      BY <1>4 DEF SearchOldest
    <2>3. /\ oldest' \in [Threads -> Players \cup {None}] /\ most' \in [Threads -> Nat]
          /\ oldest'[t] \in Players
          /\ \A u \in Threads : u # t => oldest'[u] = oldest[u] /\ most'[u] = most[u]
      <3>1. CASE MorePlayed(t, p)
        BY <1>1, <2>1, <2>2, <3>1 DEF PoolTypeOK
      <3>2. CASE ~MorePlayed(t, p)
        <4>1. most[t] # 0
          BY <2>1, <3>2 DEF MorePlayed
        <4>2. oldest[t] \in Players
          BY <1>1, <2>2, <4>1 DEF OldestIsKnown
        <4> QED BY <1>1, <2>2, <3>2, <4>2 DEF PoolTypeOK
      <3> QED BY <3>1, <3>2
    <2>4. PICK s \in {"oldest", "lock"}, i \in Players :
            pc' = [pc EXCEPT ![t] = s] /\ at' = [at EXCEPT ![t] = i]
      <3>1. CASE p < MaxPlayers
        <4>1. p + 1 \in Players
          BY <2>1, <3>1, PoolConstants DEF Players
        <4> QED BY <2>2, <3>1, <4>1 DEF Goto
      <3>2. CASE ~(p < MaxPlayers)
        BY <2>2, <2>3, <3>2 DEF Goto
      <3> QED BY <3>1, <3>2
    <2>5. pc'[t] = s /\ \A u \in Threads : u # t => pc'[u] = pc[u] /\ at'[u] = at[u]
      BY <1>1, <2>4 DEF PoolTypeOK
    <2>6. PoolTypeOK'
      <3>1. pc' \in [Threads -> Searches \cup {"idle", "oldest", "lock", "reset", "configure"}]
            /\ at' \in [Threads -> Players]
        BY <1>1, <2>4 DEF PoolTypeOK
      <3> QED BY <1>1, <1>2, <2>2, <2>3, <3>1 DEF PoolTypeOK
    <2>7. LocksHeld'
      <3>1. pc[t] \in Locking /\ pc'[t] \in Locking /\ pc[t] # "reset"
        BY <2>2, <2>5 DEF Locking
      <3> QED BY <1>1, <1>2, <2>2, <2>5, <3>1 DEF LocksHeld
    <2>8. OldestIsKnown'
      BY <1>1, <2>3, <2>5 DEF OldestIsKnown, Searches
    <2>9. LiveCounted' /\ IsFiniteSet(Handles)' /\ IsFiniteSet(Creators)'
      <3>1. \A u \in Threads : pc[u] = "idle" <=> pc'[u] = "idle"
        BY <1>2, <2>5
      <3> QED BY <1>2, <3>1, CountKept
    <2> QED BY <1>3, <2>6, <2>7, <2>8, <2>9 DEF PoolIInv, PoolInv
  <1>5. CASE LockDevice(t)
    <2>1. /\ pc[t] = "lock" /\ device_lock = Nobody /\ device_lock' = t
          /\ pc' = [pc EXCEPT ![t] = "reset"] /\ UNCHANGED <<at, oldest, most>>
      BY <1>5 DEF LockDevice
    <2>2. pc'[t] = "reset" /\ \A u \in Threads : u # t => pc'[u] = pc[u]
      BY <1>1, <2>1 DEF PoolTypeOK
    <2>3. PoolTypeOK'
      <3>1. pc' \in [Threads -> Searches \cup {"idle", "oldest", "lock", "reset", "configure"}]
        BY <1>1, <2>1 DEF PoolTypeOK
      <3> QED BY <1>1, <1>2, <2>1, <3>1 DEF PoolTypeOK
    <2>4. LocksHeld'
      <3>1. pc[t] \in Locking /\ pc'[t] \in Locking
        BY <2>1, <2>2 DEF Locking
      <3> QED BY <1>1, <1>2, <2>1, <2>2, <3>1, PoolConstants DEF LocksHeld
    <2>5. OldestIsKnown'
      BY <1>1, <2>1, <2>2 DEF OldestIsKnown, Searches
    <2>6. LiveCounted' /\ IsFiniteSet(Handles)' /\ IsFiniteSet(Creators)'
      <3>1. \A u \in Threads : pc[u] = "idle" <=> pc'[u] = "idle"
        BY <2>1, <2>2
      <3> QED BY <1>2, <3>1, CountKept
    <2> QED BY <1>3, <2>3, <2>4, <2>5, <2>6 DEF PoolIInv, PoolInv
  <1> QED BY <1>4, <1>5

\* An entry is reset and the locks are let go; it was free if there was room.
LEMMA ResetInv ==
  ASSUME PoolIInv, NEW t \in Threads, Reset(t)
  PROVE  PoolIInv'
  <1> DEFINE p == at[t]
  <1>1. PoolTypeOK /\ LocksHeld /\ OldestIsKnown /\ RoomForAll
    BY DEF PoolIInv, PoolInv
  <1>2. /\ pc[t] = "reset"
        /\ active' = [active EXCEPT ![p] = TRUE]
        /\ play_state' = [play_state EXCEPT ![p] = "STOPPED"]
        /\ queued' = [queued EXCEPT ![p] = 0] /\ played' = [played EXCEPT ![p] = 0]
        /\ device_lock' = IF device_lock = t THEN Nobody ELSE device_lock
        /\ players_lock' = Nobody
        /\ oldest' = [oldest EXCEPT ![t] = None] /\ most' = [most EXCEPT ![t] = 0]
        /\ pc' = [pc EXCEPT ![t] = "configure"]
        /\ UNCHANGED <<at, mixing, busy, handles, live, overfull>>
    BY DEF Reset, audio, guest
  <1>3. /\ pc'[t] = "configure" /\ most'[t] = 0 /\ p \in Players
        /\ \A u \in Threads : u # t => pc'[u] = pc[u] /\ most'[u] = most[u] /\ oldest'[u] = oldest[u]
    BY <1>1, <1>2 DEF PoolTypeOK
  <1>4. players_lock = t /\ \A u \in Threads : u # t => pc[u] \notin Locking
    <2>1. players_lock = t
      BY <1>1, <1>2 DEF LocksHeld, Locking
    <2> QED BY <1>1, <2>1 DEF LocksHeld
  <1>5. PoolTypeOK'
    <2>1. active' \in [Players -> BOOLEAN] /\ play_state' \in [Players -> {"STOPPED", "PAUSED", "PLAYING"}]
      BY <1>1, <1>2 DEF PoolTypeOK
    <2>2. queued' \in [Players -> Nat] /\ played' \in [Players -> Nat]
      BY <1>1, <1>2 DEF PoolTypeOK
    <2>3. /\ pc' \in [Threads -> Searches \cup {"idle", "oldest", "lock", "reset", "configure"}]
          /\ oldest' \in [Threads -> Players \cup {None}] /\ most' \in [Threads -> Nat]
      BY <1>1, <1>2 DEF PoolTypeOK
    <2>4. /\ players_lock' \in Threads \cup {Nobody} /\ device_lock' \in Threads \cup {Nobody, AudioThread}
      BY <1>1, <1>2 DEF PoolTypeOK
    <2> QED BY <1>1, <1>2, <2>1, <2>2, <2>3, <2>4 DEF PoolTypeOK
  <1>6. LocksHeld'
    <2>1. \A u \in Threads : pc'[u] \notin Locking /\ players_lock' # u
      BY <1>2, <1>3, <1>4, PoolConstants DEF Locking, Searches
    <2>2. \A u \in Threads : device_lock' # u
      <3> TAKE u \in Threads
      <3>1. device_lock = u => u = t
        BY <1>1, <1>4 DEF LocksHeld, Locking
      <3> QED BY <1>2, <3>1, PoolConstants
    <2>3. busy' # None => device_lock' = AudioThread /\ busy' = mixing'
      BY <1>1, <1>2, PoolConstants DEF LocksHeld
    <2> QED BY <2>1, <2>2, <2>3 DEF LocksHeld
  <1>7. OldestIsKnown'
    BY <1>1, <1>2, <1>3 DEF OldestIsKnown, Searches
  <1>8. LiveCounted' /\ IsFiniteSet(Handles)' /\ IsFiniteSet(Creators)'
    <2>1. \A u \in Threads : pc[u] = "idle" <=> pc'[u] = "idle"
      BY <1>2, <1>3
    <2> QED BY <1>2, <2>1, CountKept
  <1>9. RoomForAll'
    <2> SUFFICES ASSUME ~overfull PROVE RoomForAll'
      BY <1>2 DEF RoomForAll
    <2>1. ~active[p] /\ p \notin InUse /\ p \in Players
      BY <1>1, <1>2, <1>3 DEF RoomForAll, InUse
    <2>2. /\ active'[p] = TRUE
          /\ \A q \in Players : q # p => active'[q] = active[q]
      BY <1>1, <1>2, <1>3 DEF PoolTypeOK
    <2>3. InUse' = InUse \cup {p}
      <3>1. ASSUME NEW q PROVE q \in InUse' <=> q \in InUse \cup {p}
        <4>1. CASE q = p
          BY <2>1, <2>2, <4>1 DEF InUse
        <4>2. CASE q # p
          BY <2>2, <4>2 DEF InUse
        <4> QED BY <4>1, <4>2
      <3> QED BY <3>1
    <2>4. Cardinality(InUse') = Cardinality(InUse) + 1
      BY <2>1, <2>3, EntriesFinite, FS_AddElement
    <2>5. live = Cardinality(InUse) + 1 /\ live <= MaxPlayers
      BY <1>1, <1>4, PoolConstants DEF RoomForAll, InUse
    <2>6. live' = Cardinality({q \in Players : active[q]})' + (IF players_lock' = Nobody THEN 0 ELSE 1)
      <3>1. Cardinality(InUse') \in Nat
        BY <2>4, EntriesFinite
      <3> QED BY <1>2, <2>4, <2>5, <3>1 DEF InUse
    <2>7. handles[p] = 0 /\ \A q \in Players : handles'[q] <= 1 /\ (handles'[q] = 1 => active'[q])
      <3>1. handles[p] = 0
        <4>1. handles[p] <= 1 /\ handles[p] # 1
          BY <1>1, <2>1 DEF RoomForAll
        <4>2. handles[p] \in Nat
          BY <1>1, <2>1 DEF PoolTypeOK
        <4> QED BY <4>1, <4>2
      <3> QED BY <1>1, <1>2, <2>2, <3>1 DEF RoomForAll
    <2>8. \A u \in Threads : u # t => pc[u] \in {"idle", "configure"}
      BY <1>1, <1>4 DEF RoomForAll, Locking, Searches
    <2>9. \A u \in Threads : u # t /\ pc[u] = "configure" =>
             active[at[u]] /\ handles[at[u]] = 0 /\ at[u] # p /\ at[u] \in Players
      BY <1>1, <2>1 DEF RoomForAll, PoolTypeOK
    <2>10. \A u \in Threads :
             /\ pc'[u] \in {"idle", "inactive", "reset", "configure"}
             /\ pc'[u] = "inactive" => \E q \in at'[u] .. MaxPlayers : ~active'[q]
             /\ pc'[u] = "reset" => ~active'[at'[u]]
             /\ pc'[u] = "configure" => active'[at'[u]] /\ handles'[at'[u]] = 0
      <3> TAKE u \in Threads
      <3>1. CASE u = t
        BY <1>2, <1>3, <2>2, <2>7, <3>1
      <3>2. CASE u # t
        BY <1>2, <1>3, <2>2, <2>8, <2>9, <3>2
      <3> QED BY <3>1, <3>2
    <2>11. \A u \in Threads : \A w \in Threads \ {u} :
             pc'[u] = "configure" /\ pc'[w] = "configure" => at'[u] # at'[w]
      BY <1>1, <1>2, <1>3, <2>9 DEF RoomForAll
    <2>12. busy' # None => active'[busy']
      BY <1>1, <1>2, <2>2 DEF RoomForAll, PoolTypeOK
    <2> QED BY <1>2, <2>5, <2>6, <2>7, <2>10, <2>11, <2>12 DEF RoomForAll
  <1>10. HandlesAreDistinct'
    BY <1>5, <1>9 DEF PoolTypeOK, RoomForAll, HandlesAreDistinct
  <1> QED BY <1>5, <1>6, <1>7, <1>8, <1>9, <1>10 DEF PoolIInv, PoolInv

\* The guest has its handle to the entry.
LEMMA CreateEndInv ==
  ASSUME PoolIInv, NEW t \in Threads, CreateEnd(t)
  PROVE  PoolIInv'
  <1> DEFINE p == at[t]
  <1>1. PoolTypeOK /\ LocksHeld /\ OldestIsKnown /\ RoomForAll /\ IsFiniteSet(Handles) /\ IsFiniteSet(Creators)
    BY DEF PoolIInv, PoolInv
  <1>2. /\ pc[t] = "configure" /\ handles' = [handles EXCEPT ![p] = @ + 1]
        /\ pc' = [pc EXCEPT ![t] = "idle"] /\ at' = [at EXCEPT ![t] = 1]
        /\ UNCHANGED <<active, play_state, queued, played, players_lock, device_lock, oldest, most,
                       mixing, busy, live, overfull>>
    BY DEF CreateEnd, Goto, entries, audio
  <1>3. /\ pc'[t] = "idle" /\ p \in Players
        /\ \A u \in Threads : u # t => pc'[u] = pc[u] /\ at'[u] = at[u]
    BY <1>1, <1>2 DEF PoolTypeOK
  <1>4. /\ handles[p] \in Nat /\ handles'[p] = handles[p] + 1
        /\ \A q \in Players : q # p => handles'[q] = handles[q]
    BY <1>1, <1>2, <1>3 DEF PoolTypeOK
  <1>5. PoolTypeOK'
    <2>1. /\ pc' \in [Threads -> Searches \cup {"idle", "oldest", "lock", "reset", "configure"}]
          /\ at' \in [Threads -> Players] /\ handles' \in [Players -> Nat]
      BY <1>1, <1>2, <1>4, PoolConstants DEF PoolTypeOK
    <2> QED BY <1>1, <1>2, <2>1 DEF PoolTypeOK
  <1>6. LocksHeld'
    <2>1. pc[t] \notin Locking /\ pc'[t] \notin Locking /\ pc[t] # "reset"
      BY <1>2, <1>3 DEF Locking, Searches
    <2> QED BY <1>1, <1>2, <1>3, <2>1 DEF LocksHeld
  <1>7. OldestIsKnown'
    BY <1>1, <1>2, <1>3 DEF OldestIsKnown, Searches
  <1>8. LiveCounted' /\ IsFiniteSet(Handles)' /\ IsFiniteSet(Creators)'
    <2>1. IsFiniteSet(Handles)' /\ Cardinality(Handles)' = Cardinality(Handles) + 1
      BY <1>1, <1>2, <1>3, HandleAdded DEF PoolTypeOK
    <2>2. t \in Creators /\ Creators' = Creators \ {t}
      BY <1>2, <1>3 DEF Creators
    <2>3. IsFiniteSet(Creators') /\ Cardinality(Creators') = Cardinality(Creators) - 1
      BY <1>1, <2>2, FS_RemoveElement
    <2> QED BY <1>2, <2>1, <2>3, CountsAreNumbers DEF LiveCounted
  <1>9. RoomForAll'
    <2> SUFFICES ASSUME ~overfull PROVE RoomForAll'
      BY <1>2 DEF RoomForAll
    <2>1. active[p] /\ handles[p] = 0
      BY <1>1, <1>2 DEF RoomForAll
    <2>2. \A q \in Players : handles'[q] <= 1 /\ (handles'[q] = 1 => active'[q])
      BY <1>1, <1>2, <1>4, <2>1 DEF RoomForAll
    <2>3. \A u \in Threads : u # t /\ pc[u] = "configure" =>
             active[at[u]] /\ handles[at[u]] = 0 /\ at[u] # p /\ at[u] \in Players
      BY <1>1, <1>2 DEF RoomForAll, PoolTypeOK
    <2>4. \A u \in Threads :
             /\ pc'[u] \in {"idle", "inactive", "reset", "configure"}
             /\ pc'[u] = "inactive" => \E q \in at'[u] .. MaxPlayers : ~active'[q]
             /\ pc'[u] = "reset" => ~active'[at'[u]]
             /\ pc'[u] = "configure" => active'[at'[u]] /\ handles'[at'[u]] = 0
      <3> TAKE u \in Threads
      <3>1. CASE u = t
        BY <1>3, <3>1
      <3>2. CASE u # t
        BY <1>1, <1>2, <1>3, <1>4, <2>3, <3>2 DEF RoomForAll
      <3> QED BY <3>1, <3>2
    <2>5. \A u \in Threads : \A w \in Threads \ {u} :
             pc'[u] = "configure" /\ pc'[w] = "configure" => at'[u] # at'[w]
      BY <1>1, <1>3 DEF RoomForAll
    <2>6. /\ live' <= MaxPlayers
          /\ live' = Cardinality({q \in Players : active[q]})' + (IF players_lock' = Nobody THEN 0 ELSE 1)
          /\ busy' # None => active'[busy']
      BY <1>1, <1>2 DEF RoomForAll
    <2> QED BY <2>2, <2>4, <2>5, <2>6 DEF RoomForAll
  <1>10. HandlesAreDistinct'
    BY <1>5, <1>9 DEF PoolTypeOK, RoomForAll, HandlesAreDistinct
  <1> QED BY <1>5, <1>6, <1>7, <1>8, <1>9, <1>10 DEF PoolIInv, PoolInv

\* A handle is given up; the callback is not in the entry.
LEMMA DestroyInv ==
  ASSUME PoolIInv, NEW p \in Players, Destroy(p)
  PROVE  PoolIInv'
  <1>1. PoolTypeOK /\ LocksHeld /\ OldestIsKnown /\ RoomForAll /\ IsFiniteSet(Handles) /\ IsFiniteSet(Creators)
    BY DEF PoolIInv, PoolInv
  <1>2. /\ handles[p] > 0 /\ device_lock = Nobody
        /\ play_state' = [play_state EXCEPT ![p] = "STOPPED"]
        /\ active' = [active EXCEPT ![p] = FALSE]
        /\ handles' = [handles EXCEPT ![p] = @ - 1]
        /\ live' = live - 1
        /\ UNCHANGED <<queued, played, players_lock, device_lock, pc, at, oldest, most, mixing, busy, overfull>>
    BY DEF Destroy, search, audio
  <1>3. /\ handles[p] \in Nat \ {0} /\ handles'[p] = handles[p] - 1
        /\ \A q \in Players : q # p => handles'[q] = handles[q] /\ active'[q] = active[q]
        /\ active'[p] = FALSE
    BY <1>1, <1>2 DEF PoolTypeOK
  <1>4. LiveCounted' /\ IsFiniteSet(Handles)' /\ IsFiniteSet(Creators)' /\ live' \in Nat
    <2>1. IsFiniteSet(Handles)' /\ Cardinality(Handles)' = Cardinality(Handles) - 1
      BY <1>1, <1>2, <1>3, HandleRemoved DEF PoolTypeOK
    <2>2. Creators' = Creators
      BY <1>2 DEF Creators
    <2>3. Cardinality(Handles)' \in Nat
      BY <2>1, FS_CardinalityType
    <2> QED BY <1>1, <1>2, <2>1, <2>2, <2>3, CountsAreNumbers DEF LiveCounted
  <1>5. PoolTypeOK'
    <2>1. active' \in [Players -> BOOLEAN] /\ play_state' \in [Players -> {"STOPPED", "PAUSED", "PLAYING"}]
      BY <1>1, <1>2 DEF PoolTypeOK
    <2>2. handles' \in [Players -> Nat]
      BY <1>1, <1>2, <1>3 DEF PoolTypeOK
    <2> QED BY <1>1, <1>2, <1>4, <2>1, <2>2 DEF PoolTypeOK
  <1>6. LocksHeld' /\ OldestIsKnown'
    BY <1>1, <1>2 DEF LocksHeld, OldestIsKnown
  <1>7. busy' = None
    BY <1>1, <1>2, PoolConstants DEF LocksHeld
  <1>8. RoomForAll'
    <2> SUFFICES ASSUME ~overfull PROVE RoomForAll'
      BY <1>2 DEF RoomForAll
    <2>1. handles[p] = 1 /\ active[p] /\ p \in InUse
      <3>1. handles[p] <= 1 /\ (handles[p] = 1 => active[p])
        BY <1>1 DEF RoomForAll
      <3>2. handles[p] = 1
        BY <1>3, <3>1
      <3> QED BY <3>1, <3>2 DEF InUse
    <2>2. InUse' = InUse \ {p}
      <3>1. ASSUME NEW q PROVE q \in InUse' <=> q \in InUse \ {p}
        <4>1. CASE q = p
          BY <1>3, <4>1 DEF InUse
        <4>2. CASE q # p
          BY <1>3, <4>2 DEF InUse
        <4> QED BY <4>1, <4>2
      <3> QED BY <3>1
    <2>3. Cardinality(InUse') = Cardinality(InUse) - 1
      BY <2>1, <2>2, EntriesFinite, FS_RemoveElement
    <2>4. live = Cardinality(InUse) + (IF players_lock = Nobody THEN 0 ELSE 1) /\ live <= MaxPlayers
      BY <1>1 DEF RoomForAll, InUse
    <2>5. live' = Cardinality({q \in Players : active[q]})' + (IF players_lock' = Nobody THEN 0 ELSE 1)
          /\ live' <= MaxPlayers
      <3>1. live' = Cardinality(InUse') + (IF players_lock' = Nobody THEN 0 ELSE 1) /\ live' <= MaxPlayers
        BY <1>2, <2>3, <2>4, EntriesFinite, PoolConstants
      <3> QED BY <3>1 DEF InUse
    <2>6. \A q \in Players : handles'[q] <= 1 /\ (handles'[q] = 1 => active'[q])
      BY <1>1, <1>3, <2>1 DEF RoomForAll
    <2>7. \A u \in Threads : pc[u] = "configure" =>
             active[at[u]] /\ handles[at[u]] = 0 /\ at[u] # p /\ at[u] \in Players
      BY <1>1, <2>1 DEF RoomForAll, PoolTypeOK
    <2>8. \A u \in Threads :
             /\ pc'[u] \in {"idle", "inactive", "reset", "configure"}
             /\ pc'[u] = "inactive" => \E q \in at'[u] .. MaxPlayers : ~active'[q]
             /\ pc'[u] = "reset" => ~active'[at'[u]]
             /\ pc'[u] = "configure" => active'[at'[u]] /\ handles'[at'[u]] = 0
      <3> TAKE u \in Threads
      <3>1. pc'[u] = pc[u] /\ at'[u] = at[u] /\ at[u] \in Players
        BY <1>1, <1>2 DEF PoolTypeOK
      <3>2. pc[u] \in {"idle", "inactive", "reset", "configure"}
        BY <1>1 DEF RoomForAll
      <3>3. pc[u] = "inactive" => \E q \in at[u] .. MaxPlayers : ~active'[q]
        <4> SUFFICES ASSUME pc[u] = "inactive" PROVE \E q \in at[u] .. MaxPlayers : ~active'[q]
          OBVIOUS
        <4>1. PICK q \in at[u] .. MaxPlayers : ~active[q]
          BY <1>1 DEF RoomForAll
        <4>2. q \in Players
          BY <3>1, <4>1 DEF Players
        <4>3. ~active'[q]
          BY <1>3, <4>1, <4>2
        <4> QED BY <4>3
      <3>4. pc[u] = "reset" => ~active'[at[u]]
        BY <1>1, <1>3, <3>1 DEF RoomForAll
      <3>5. pc[u] = "configure" => active'[at[u]] /\ handles'[at[u]] = 0
        BY <1>3, <2>7
      <3> QED BY <3>1, <3>2, <3>3, <3>4, <3>5
    <2>9. \A u \in Threads : \A w \in Threads \ {u} :
             pc'[u] = "configure" /\ pc'[w] = "configure" => at'[u] # at'[w]
      BY <1>1, <1>2 DEF RoomForAll
    <2> QED BY <1>7, <2>5, <2>6, <2>8, <2>9 DEF RoomForAll
  <1>9. HandlesAreDistinct'
    BY <1>5, <1>8 DEF PoolTypeOK, RoomForAll, HandlesAreDistinct
  <1> QED BY <1>4, <1>5, <1>6, <1>8, <1>9 DEF PoolIInv, PoolInv

\* Every step of the pool.
LEMMA PoolNextInv == PoolIInv /\ [PoolNext]_poolVars => PoolIInv'
  <1> SUFFICES ASSUME PoolIInv, [PoolNext]_poolVars PROVE PoolIInv'
    OBVIOUS
  <1>1. ASSUME NEW t \in Threads, CreateBegin(t) \/ LockDevice(t) \/ Creating(t) PROVE PoolIInv'
    BY <1>1, CreateBeginInv, OverfullInv, SearchInv, ResetInv, CreateEndInv DEF Creating
  <1>2. ASSUME NEW p \in Players,
               \/ EnqueueOn(p) \/ Destroy(p) \/ PumpStop(p)
               \/ \E state \in {"STOPPED", "PAUSED", "PLAYING"} : SetPlayState(p, state)
        PROVE  PoolIInv'
    BY <1>2, DestroyInv, PoolGuestInv
  <1>3. CASE AudioBegin \/ Audio
    BY <1>3, PoolAudioInv
  <1>4. CASE UNCHANGED poolVars
    <2>1. UNCHANGED <<active, play_state, queued, played, players_lock, device_lock, pc, at, oldest, most,
                      mixing, busy, handles, live, overfull>>
      BY <1>4 DEF poolVars, entries, search, audio, guest
    <2>2. LiveCounted' /\ IsFiniteSet(Handles)' /\ IsFiniteSet(Creators)'
      BY <2>1, CountKept
    <2>3. PoolTypeOK'
      BY <2>1 DEF PoolIInv, PoolInv, PoolTypeOK
    <2>4. LocksHeld' /\ OldestIsKnown' /\ RoomForAll' /\ HandlesAreDistinct'
      BY <2>1 DEF PoolIInv, PoolInv, LocksHeld, OldestIsKnown, RoomForAll, HandlesAreDistinct
    <2> QED BY <2>2, <2>3, <2>4 DEF PoolIInv, PoolInv
  <1> QED BY <1>1, <1>2, <1>3, <1>4 DEF PoolNext

-----------------------------------------------------------------------------
(* The theorems.                                                             *)

\* PoolInv at any time: whatever threads create, use and destroy while the
\* callback walks the table, the locks have one holder each, every live handle
\* and every thread in alloc_player is counted, and with room in the table no
\* entry is given out twice.
THEOREM PoolCorrect == PoolSpec => []PoolInv
  <1>1. PoolIInv => PoolInv
    BY DEF PoolIInv
  <1> QED BY PoolInitInv, PoolNextInv, <1>1, PTL DEF PoolSpec

\* Two live handles never name one entry while the guest keeps to what the
\* table holds.
THEOREM PoolKeepsHandlesApart == PoolSpec => []HandlesAreDistinct
  <1>1. PoolIInv => HandlesAreDistinct
    BY DEF PoolIInv, PoolInv
  <1> QED BY PoolInitInv, PoolNextInv, <1>1, PTL DEF PoolSpec

\* With room in the table, player_reset_meta never resets the entry that the
\* audio callback mixes, although the first search takes no device lock.
THEOREM MixerIsUndisturbed == PoolSpec => MixerUndisturbed
  <1>1. PoolIInv => (~overfull => \A t \in Threads : ResetNow(t) => busy # at[t])
    <2> SUFFICES ASSUME PoolIInv, ~overfull, NEW t \in Threads, ResetNow(t), busy = at[t] PROVE FALSE
      OBVIOUS
    <2>1. RoomForAll /\ at[t] \in Players
      BY DEF PoolIInv, PoolInv, PoolTypeOK
    <2>2. ~active[at[t]]
      BY <2>1 DEF RoomForAll, ResetNow
    <2>3. active[at[t]]
      BY <2>1, PoolConstants DEF RoomForAll
    <2> QED BY <2>2, <2>3
  <1> QED BY PoolInitInv, PoolNextInv, <1>1, PTL DEF PoolSpec, MixerUndisturbed
=============================================================================
