----------------------------- MODULE PlayerPool -----------------------------
(* The fixed table of players (src/opensles_shim.c): alloc_player's four     *)
(* searches under g_players_lock, the device lock two of them take, the      *)
(* guest threads that create, use and destroy players, and the audio         *)
(* callback, which walks the table with the device lock held.                *)
(*                                                                           *)
(* Nothing but alloc_player takes g_players_lock, so the table changes under *)
(* its searches.  A search reads one entry per step; the test of an entry    *)
(* and its reset are two steps.                                              *)
EXTENDS Integers, FiniteSets

CONSTANTS Threads,          \* guest threads
          AudioThread,      \* SDL's audio thread
          Nobody,           \* holds a lock that is free
          MaxPlayers,       \* MAX_PLAYERS
          MaxPlayed,        \* bound: chunks a player is given between two resets
          MaxLive           \* bound: players alive or being created

ASSUME PoolAssumption ==
  /\ {AudioThread, Nobody} \cap Threads = {} /\ AudioThread # Nobody
  /\ MaxPlayers \in Nat \ {0}
  /\ MaxPlayed \in Nat \ {0}
  /\ MaxLive \in Nat \ {0}

Players == 1 .. MaxPlayers
None == 0                   \* no entry

VARIABLES
  active, play_state,                  \* per player
  queued, played,                      \* chunks in ring and ledger, and played_bytes
  players_lock,                        \* g_players_lock: its holder
  device_lock,                         \* SDL's device lock: its holder
  pc, at, oldest, most,                \* alloc_player per thread: search, index, locals
  mixing, busy,                        \* audio callback: next entry, entry being mixed
  handles,                             \* history: the guest's live handles to an entry
  live, overfull                       \* history: players alive or being created, and
                                       \* were they ever more than the entries?

entries == <<active, play_state, queued, played>>
search == <<pc, at, oldest, most>>
audio == <<mixing, busy>>
guest == <<handles, live, overfull>>
poolVars == <<entries, players_lock, device_lock, search, audio, guest>>

PoolInit ==
  /\ active = [p \in Players |-> FALSE]
  /\ play_state = [p \in Players |-> "STOPPED"]
  /\ queued = [p \in Players |-> 0]
  /\ played = [p \in Players |-> 0]
  /\ players_lock = Nobody /\ device_lock = Nobody
  /\ pc = [t \in Threads |-> "idle"] /\ at = [t \in Threads |-> 1]
  /\ oldest = [t \in Threads |-> None] /\ most = [t \in Threads |-> 0]
  /\ mixing = 1 /\ busy = None
  /\ handles = [p \in Players |-> 0] /\ live = 0 /\ overfull = FALSE

-----------------------------------------------------------------------------
(* engine_CreateAudioPlayer: alloc_player, then the format and the vtables.  *)

Goto(t, step, index) ==
  /\ pc' = [pc EXCEPT ![t] = step]
  /\ at' = [at EXCEPT ![t] = index]

\* Mutation: alloc_player runs without g_players_lock.
PlayersLockFreeAlways == TRUE
PlayersLockFree == players_lock = Nobody

CreateBegin(t) ==
  /\ pc[t] = "idle"
  /\ PlayersLockFree
  /\ players_lock' = t
  /\ live < MaxLive
  /\ live' = live + 1
  /\ overfull' = (overfull \/ live' > MaxPlayers)
  /\ Goto(t, "inactive", 1)
  /\ UNCHANGED <<entries, device_lock, oldest, most, audio, handles>>

\* The entry each search accepts, and the step that follows a success.
Accepts(step, p) ==
  CASE step = "inactive" -> ~active[p]
    [] step = "drained"  -> play_state[p] = "STOPPED" /\ queued[p] = 0
    [] step = "stopped"  -> play_state[p] = "STOPPED"
Searches == {"inactive", "drained", "stopped"}
OnSuccess == [inactive |-> "reset", drained |-> "reset", stopped |-> "lock"]
\* Mutation: with no player stopped the search starts again.
OnFailureAgain == [inactive |-> "drained", drained |-> "stopped", stopped |-> "inactive"]
OnFailure == [inactive |-> "drained", drained |-> "stopped", stopped |-> "oldest"]

\* One entry of the first three searches.
Search(t) ==
  /\ pc[t] \in Searches
  /\ LET p == at[t] IN
       IF Accepts(pc[t], p) THEN Goto(t, OnSuccess[pc[t]], p)
       ELSE IF p < MaxPlayers THEN Goto(t, pc[t], p + 1)
       ELSE Goto(t, OnFailure[pc[t]], 1)
  /\ UNCHANGED <<entries, players_lock, device_lock, oldest, most, audio, guest>>

MorePlayed(t, p) == played[p] >= most[t]

\* One entry of the last search: the most played bytes, the last one of equals.
SearchOldest(t) ==
  /\ pc[t] = "oldest"
  /\ LET p == at[t] IN
       /\ IF MorePlayed(t, p)
          THEN oldest' = [oldest EXCEPT ![t] = p] /\ most' = [most EXCEPT ![t] = played[p]]
          ELSE UNCHANGED <<oldest, most>>
       /\ IF p < MaxPlayers THEN Goto(t, "oldest", p + 1) ELSE Goto(t, "lock", oldest'[t])
  /\ UNCHANGED <<entries, players_lock, device_lock, audio, guest>>

\* The last two searches take the device lock for the reset.
LockDevice(t) ==
  /\ pc[t] = "lock"
  /\ device_lock = Nobody
  /\ device_lock' = t
  /\ pc' = [pc EXCEPT ![t] = "reset"]
  /\ UNCHANGED <<entries, players_lock, at, oldest, most, audio, guest>>

\* player_reset_meta, and both locks are let go.
Reset(t) ==
  /\ pc[t] = "reset"
  /\ active' = [active EXCEPT ![at[t]] = TRUE]
  /\ play_state' = [play_state EXCEPT ![at[t]] = "STOPPED"]
  /\ queued' = [queued EXCEPT ![at[t]] = 0]
  /\ played' = [played EXCEPT ![at[t]] = 0]
  /\ device_lock' = IF device_lock = t THEN Nobody ELSE device_lock
  /\ players_lock' = Nobody
  /\ oldest' = [oldest EXCEPT ![t] = None] /\ most' = [most EXCEPT ![t] = 0]
  /\ pc' = [pc EXCEPT ![t] = "configure"]
  /\ UNCHANGED <<at, audio, guest>>

\* The format and the vtables are written without a lock; the guest has its handle.
CreateEnd(t) ==
  /\ pc[t] = "configure"
  /\ handles' = [handles EXCEPT ![at[t]] = @ + 1]
  /\ Goto(t, "idle", 1)
  /\ UNCHANGED <<entries, players_lock, device_lock, oldest, most, audio, live, overfull>>

-----------------------------------------------------------------------------
(* The guest uses the players it has handles to.                             *)

\* bq_Enqueue takes no lock.
EnqueueOn(p) ==
  /\ handles[p] > 0
  /\ queued[p] + played[p] < MaxPlayed
  /\ queued' = [queued EXCEPT ![p] = @ + 1]
  /\ UNCHANGED <<active, play_state, played, players_lock, device_lock, search, audio, guest>>

\* play_SetPlayState under the device lock; STOPPED flushes what is queued.
SetPlayState(p, state) ==
  /\ handles[p] > 0
  /\ device_lock = Nobody
  /\ play_state[p] # state
  /\ play_state' = [play_state EXCEPT ![p] = state]
  /\ IF state = "STOPPED"
     THEN queued' = [queued EXCEPT ![p] = 0] /\ played' = [played EXCEPT ![p] = 0]
     ELSE UNCHANGED <<queued, played>>
  /\ UNCHANGED <<active, players_lock, device_lock, search, audio, guest>>

\* Mutation: Destroy does not wait for the audio callback.
DestroyUnlocked(p) ==
  /\ handles[p] > 0
  /\ play_state' = [play_state EXCEPT ![p] = "STOPPED"]
  /\ active' = [active EXCEPT ![p] = FALSE]
  /\ handles' = [handles EXCEPT ![p] = @ - 1]
  /\ live' = live - 1
  /\ UNCHANGED <<queued, played, players_lock, device_lock, search, audio, overfull>>

\* player_Destroy under the device lock gives the entry up.
Destroy(p) ==
  /\ handles[p] > 0
  /\ device_lock = Nobody
  /\ play_state' = [play_state EXCEPT ![p] = "STOPPED"]
  /\ active' = [active EXCEPT ![p] = FALSE]
  /\ handles' = [handles EXCEPT ![p] = @ - 1]
  /\ live' = live - 1
  /\ UNCHANGED <<queued, played, players_lock, device_lock, search, audio, overfull>>

\* opensles_shim_pump_callbacks stops a player that has come to its end.
PumpStop(p) ==
  /\ active[p] /\ play_state[p] = "PLAYING" /\ queued[p] = 0
  /\ device_lock = Nobody
  /\ play_state' = [play_state EXCEPT ![p] = "STOPPED"]
  /\ played' = [played EXCEPT ![p] = 0]
  /\ UNCHANGED <<active, queued, players_lock, device_lock, search, audio, guest>>

-----------------------------------------------------------------------------
(* sdl_audio_callback.                                                       *)

AudioBegin ==
  /\ device_lock = Nobody
  /\ device_lock' = AudioThread
  /\ mixing' = 1
  /\ UNCHANGED <<entries, players_lock, search, busy, guest>>

\* An entry that is not playing, or has nothing to read, is skipped.
Audible(p) == active[p] /\ play_state[p] = "PLAYING" /\ queued[p] > 0

AudioSkip ==
  /\ device_lock = AudioThread /\ busy = None
  /\ mixing <= MaxPlayers
  /\ ~Audible(mixing)
  /\ mixing' = mixing + 1
  /\ UNCHANGED <<entries, players_lock, device_lock, search, busy, guest>>

\* ring_read begins on a playing entry ...
AudioMix ==
  /\ device_lock = AudioThread /\ busy = None
  /\ mixing <= MaxPlayers
  /\ Audible(mixing)
  /\ busy' = mixing
  /\ UNCHANGED <<entries, players_lock, device_lock, search, mixing, guest>>

\* ... and ring_tail and played_bytes move.  The counters are unsigned: taking
\* a chunk from a ring that was emptied meanwhile leaves it full.
AudioMixed ==
  /\ busy # None
  /\ played' = [played EXCEPT ![busy] = @ + 1]
  /\ queued' = [queued EXCEPT ![busy] = IF @ = 0 THEN MaxPlayed - 1 ELSE @ - 1]
  /\ busy' = None
  /\ mixing' = mixing + 1
  /\ UNCHANGED <<active, play_state, players_lock, device_lock, search, guest>>

AudioEnd ==
  /\ device_lock = AudioThread /\ busy = None
  /\ mixing > MaxPlayers
  /\ device_lock' = Nobody
  /\ UNCHANGED <<entries, players_lock, search, audio, guest>>

Creating(t) == Search(t) \/ SearchOldest(t) \/ Reset(t) \/ CreateEnd(t)
Audio == AudioSkip \/ AudioMix \/ AudioMixed \/ AudioEnd

PoolNext ==
  \/ \E t \in Threads : CreateBegin(t) \/ LockDevice(t) \/ Creating(t)
  \/ \E p \in Players :
       \/ EnqueueOn(p) \/ Destroy(p) \/ PumpStop(p)
       \/ \E state \in {"STOPPED", "PAUSED", "PLAYING"} : SetPlayState(p, state)
  \/ AudioBegin \/ Audio

\* Threads run, an audio callback ends, and the device lock, free for most of
\* the time between two callbacks, is not kept from a waiting thread forever.
Fairness ==
  /\ \A t \in Threads : WF_poolVars(Creating(t)) /\ SF_poolVars(LockDevice(t))
  /\ WF_poolVars(Audio)

PoolSpec == PoolInit /\ [][PoolNext]_poolVars /\ Fairness

-----------------------------------------------------------------------------
(* Properties.                                                               *)

\* The type of the pool's state.
PoolTypeOK ==
  /\ active \in [Players -> BOOLEAN]
  /\ play_state \in [Players -> {"STOPPED", "PAUSED", "PLAYING"}]
  /\ queued \in [Players -> Nat] /\ played \in [Players -> Nat]
  /\ players_lock \in Threads \cup {Nobody}
  /\ device_lock \in Threads \cup {Nobody, AudioThread}
  /\ pc \in [Threads -> Searches \cup {"idle", "oldest", "lock", "reset", "configure"}]
  /\ at \in [Threads -> Players]
  /\ oldest \in [Threads -> Players \cup {None}] /\ most \in [Threads -> Nat]
  /\ mixing \in 1 .. MaxPlayers + 1 /\ busy \in Players \cup {None}
  /\ handles \in [Players -> Nat] /\ live \in Nat /\ overfull \in BOOLEAN

\* As long as the guest never has more players than the table has entries,
\* alive or being created, no two of its handles name the same entry, whatever
\* the other threads do while alloc_player searches.
HandlesAreDistinct == ~overfull => \A p \in Players : handles[p] <= 1

\* alloc_player from its lock to its reset.
Locking == Searches \cup {"oldest", "lock", "reset"}

\* One thread is in alloc_player, and the device lock is that of the callback as
\* long as an entry is mixed.
LocksHeld ==
  /\ \A t \in Threads : pc[t] \in Locking <=> players_lock = t
  /\ \A t \in Threads : device_lock = t => pc[t] = "reset"
  /\ busy # None => device_lock = AudioThread /\ busy = mixing

\* The last search has a candidate after its first entry, and leaves nothing to
\* the next call.
OldestIsKnown ==
  \A t \in Threads :
    /\ pc[t] \in Searches \cup {"idle", "configure"} => most[t] = 0
    /\ pc[t] = "oldest" => oldest[t] \in Players \/ (at[t] = 1 /\ most[t] = 0)

\* The guest's handles, one by one, and the threads that create a player.
Handles == UNION {{p} \X (1 .. handles[p]) : p \in Players}
Creators == {t \in Threads : pc[t] # "idle"}
LiveCounted == live = Cardinality(Handles) + Cardinality(Creators)

\* With room in the table every entry in use is somebody's, so that the first
\* search has one to find, ahead of where it is, and resets none that is in use.
RoomForAll ==
  ~overfull =>
    /\ live <= MaxPlayers
    /\ live = Cardinality({p \in Players : active[p]}) + (IF players_lock = Nobody THEN 0 ELSE 1)
    /\ \A p \in Players : handles[p] <= 1 /\ (handles[p] = 1 => active[p])
    /\ \A t \in Threads :
         /\ pc[t] \in {"idle", "inactive", "reset", "configure"}
         /\ pc[t] = "inactive" => \E p \in at[t] .. MaxPlayers : ~active[p]
         /\ pc[t] = "reset" => ~active[at[t]]
         /\ pc[t] = "configure" => active[at[t]] /\ handles[at[t]] = 0
         /\ \A u \in Threads \ {t} :
              pc[t] = "configure" /\ pc[u] = "configure" => at[t] # at[u]
    /\ busy # None => active[busy]

\* The pool, at any time: in its types, with its locks held, its players counted,
\* and handles apart; the inductive invariant of the proofs.
PoolInv == PoolTypeOK /\ LocksHeld /\ OldestIsKnown /\ LiveCounted /\ RoomForAll /\ HandlesAreDistinct

ResetNow(t) == pc[t] = "reset" /\ pc'[t] = "configure"

\* As long as the table has room, no entry is reset while the audio callback
\* mixes it, although the first search resets without the device lock.
MixerUndisturbed == [][~overfull => \A t \in Threads : ResetNow(t) => busy # at[t]]_poolVars

\* A thread that creates a player gets one: the two locks are always taken in
\* the same order and no search ends empty-handed.
CreateReturns == \A t \in Threads : pc[t] # "idle" ~> pc[t] = "idle"
=============================================================================
