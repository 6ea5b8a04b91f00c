----------------------------- MODULE GuestLocks -----------------------------
(* The guest's pthread mutexes and condition variables (src/imports.c).      *)
(* Guest code passes addresses of bionic objects; each call looks up a host  *)
(* object for the address in a list, under the list's lock, and makes one if *)
(* there is none.  The host object is used after the lock is released, so    *)
(* nothing but the guest's own good behaviour keeps it alive.                *)
(*                                                                           *)
(* The guest behaves as POSIX asks: it initialises and destroys an object    *)
(* that nobody else uses, where a condition variable may be destroyed as     *)
(* soon as its waiters were woken.  It need not initialise an object at all. *)
(* All host mutexes are recursive, whatever the guest's attributes say; the  *)
(* guest waits with a mutex it has locked once.                              *)
EXTENDS Integers, Sequences, Functions

CONSTANTS Threads,
          Mutexes, Conds,     \* guest addresses
          Entries,            \* memory for HostMutexEntry, HostCondEntry
          None,               \* NULL, nobody
          MaxDepth            \* bound: locks of one mutex by one thread

Objects == Mutexes \cup Conds

ASSUME LocksAssumption ==
  /\ Mutexes \cap Conds = {} /\ Entries \cap Objects = {}
  /\ None \notin Threads \cup Objects \cup Entries
  /\ MaxDepth \in Nat \ {0}

VARIABLES
  memory, guest_addr,     \* entries that are allocated; their guest addresses
  entries,                \* g_mutex_entries and g_cond_entries
  mutex_lock, cond_lock,  \* g_mutex_registry_lock, g_cond_registry_lock: holders
  owner, depth,           \* host mutexes
  blocked,                \* host condition variables: threads that wait for a signal
  pc, op,                 \* per thread: next step, the call it is in
  about, got,             \* the call's objects, host entries found so far
  held                    \* locks each thread holds, by what its calls returned

registry == <<memory, guest_addr, entries, mutex_lock, cond_lock>>
host == <<owner, depth, blocked>>
calls == <<pc, op, about, got>>
vars == <<registry, host, calls, held>>

LockOf(o) == IF o \in Mutexes THEN mutex_lock ELSE cond_lock

\* The calls a guest may make, and the objects each looks up, in this order.
Lookups == [lock |-> {<<m>> : m \in Mutexes}, trylock |-> {<<m>> : m \in Mutexes},
            unlock |-> {<<m>> : m \in Mutexes},
            wait |-> Conds \X Mutexes,
            signal |-> {<<c>> : c \in Conds}, broadcast |-> {<<c>> : c \in Conds},
            init |-> {<<o>> : o \in Objects}, destroy |-> {<<o>> : o \in Objects}]
Ops == DOMAIN Lookups

\* The object a call is about to look up.
Wanted(t) == about[t][Len(got[t]) + 1]

Init ==
  /\ memory = {} /\ guest_addr = [e \in Entries |-> None] /\ entries = {}
  /\ mutex_lock = None /\ cond_lock = None
  /\ owner = [e \in Entries |-> None] /\ depth = [e \in Entries |-> 0]
  /\ blocked = [e \in Entries |-> {}]
  /\ pc = [t \in Threads |-> "idle"] /\ op = [t \in Threads |-> None]
  /\ about = [t \in Threads |-> << >>] /\ got = [t \in Threads |-> << >>]
  /\ held = [m \in Mutexes |-> [t \in Threads |-> 0]]

-----------------------------------------------------------------------------
(* The guest makes a call.                                                   *)

\* Another thread is in a call on o.  One that was woken from a condition
\* variable is through with it.
InUse(t, o) ==
  \E u \in Threads \ {t} :
    o \in Range(about[u]) /\ ~(o \in Conds /\ pc[u] \in {"woken", "relock"})

BeingMade(t, o) ==
  \E u \in Threads \ {t} : op[u] \in {"init", "destroy"} /\ o \in Range(about[u])

Behaves(t, o, call) ==
  CASE call \in {"lock", "trylock"} -> held[o][t] < MaxDepth
    [] call = "unlock" -> held[o][t] > 0
    [] call \in {"init", "destroy"} ->
         /\ ~InUse(t, o)
         /\ o \in Mutexes => \A u \in Threads : held[o][u] = 0
    [] OTHER -> TRUE

Call(t, call, objects) ==
  /\ pc[t] = "idle"
  /\ \A i \in DOMAIN objects : ~BeingMade(t, objects[i])
  /\ Behaves(t, objects[1], call)
  /\ call = "wait" => held[objects[2]][t] = 1
  /\ op' = [op EXCEPT ![t] = call]
  /\ about' = [about EXCEPT ![t] = objects]
  /\ pc' = [pc EXCEPT ![t] = "enter"]
  /\ UNCHANGED <<registry, host, got, held>>

\* A call returns.
Return(t) ==
  /\ pc' = [pc EXCEPT ![t] = "idle"] /\ op' = [op EXCEPT ![t] = None]
  /\ about' = [about EXCEPT ![t] = << >>] /\ got' = [got EXCEPT ![t] = << >>]

-----------------------------------------------------------------------------
(* lookup_host_mutex, lookup_host_cond, destroy_host_mutex, destroy_host_cond *)

Take(o, holder) ==
  IF o \in Mutexes THEN mutex_lock' = holder /\ UNCHANGED cond_lock
                   ELSE cond_lock' = holder /\ UNCHANGED mutex_lock

\* Mutation: the list is used without its lock.
RegistryFreeAlways(o) == TRUE
RegistryFree(o) == LockOf(o) = None

Enter(t) ==
  /\ pc[t] = "enter"
  /\ RegistryFree(Wanted(t)) /\ Take(Wanted(t), t)
  /\ pc' = [pc EXCEPT ![t] = "scan"]
  /\ UNCHANGED <<memory, guest_addr, entries, host, op, about, got, held>>

\* A lookup ends with e.
Found(t, e) ==
  /\ got' = [got EXCEPT ![t] = Append(@, e)]
  /\ pc' = [pc EXCEPT ![t] = IF Len(got'[t]) = Len(about[t]) THEN "use" ELSE "enter"]
  /\ Take(Wanted(t), None)

Matching(o) == {e \in entries : guest_addr[e] = o}

\* Mutation: a destroyed entry stays in the list.
UnlinkedNot(e) == entries
Unlinked(e) == entries \ {e}

\* The entry of the address is found; destroy takes it off the list.
ScanHit(t) ==
  /\ pc[t] = "scan"
  /\ \E e \in Matching(Wanted(t)) :
       /\ Found(t, e)
       /\ entries' = IF op[t] = "destroy" THEN Unlinked(e) ELSE entries
  /\ UNCHANGED <<memory, guest_addr, host, op, about, held>>

\* There is none: destroy is done, the others make one.
ScanMiss(t) ==
  /\ pc[t] = "scan"
  /\ Matching(Wanted(t)) = {}
  /\ IF op[t] = "destroy"
     THEN Take(Wanted(t), None) /\ Return(t)
     ELSE /\ pc' = [pc EXCEPT ![t] = "insert"]
          /\ UNCHANGED <<mutex_lock, cond_lock, op, about, got>>
  /\ UNCHANGED <<memory, guest_addr, entries, host, held>>

\* Mutation: without memory the lookup starts over.
NoMemoryRetry(t) == pc' = [pc EXCEPT ![t] = "enter"] /\ Take(Wanted(t), None) /\ UNCHANGED got
NoMemory(t) == Found(t, None)

\* A new entry is allocated, initialised and linked; or calloc fails.
Insert(t) ==
  /\ pc[t] = "insert"
  /\ \/ \E e \in Entries \ memory :
          /\ memory' = memory \cup {e}
          /\ guest_addr' = [guest_addr EXCEPT ![e] = Wanted(t)]
          /\ owner' = [owner EXCEPT ![e] = None] /\ depth' = [depth EXCEPT ![e] = 0]
          /\ blocked' = [blocked EXCEPT ![e] = {}]
          /\ entries' = entries \cup {e}
          /\ Found(t, e)
     \/ NoMemory(t) /\ UNCHANGED <<memory, guest_addr, entries, host>>
  /\ UNCHANGED <<op, about, held>>

-----------------------------------------------------------------------------
(* The host object is used.                                                  *)

Using(t, call) == pc[t] = "use" /\ op[t] = call
Entry(t) == got[t][1]

\* One lock more, or one less, of host mutex e by its owner t.
Deepen(t, e) ==
  /\ owner[e] \in {None, t}
  /\ owner' = [owner EXCEPT ![e] = t] /\ depth' = [depth EXCEPT ![e] = @ + 1]
Undo(t, e) ==
  /\ owner[e] = t
  /\ depth' = [depth EXCEPT ![e] = @ - 1]
  /\ owner' = [owner EXCEPT ![e] = IF depth'[e] = 0 THEN None ELSE t]
Holds(t, m, change) == held' = [held EXCEPT ![m][t] = @ + change]

\* A lookup failed: the call returns -1.
NoHost(t) ==
  /\ pc[t] = "use" /\ None \in Range(got[t])
  /\ Return(t)
  /\ UNCHANGED <<registry, host, held>>

Lock(t) ==
  /\ Using(t, "lock") \/ Using(t, "trylock")
  /\ Entry(t) # None
  /\ Deepen(t, Entry(t)) /\ Holds(t, about[t][1], 1)
  /\ Return(t)
  /\ UNCHANGED <<registry, blocked>>

TrylockBusy(t) ==
  /\ Using(t, "trylock")
  /\ Entry(t) # None /\ owner[Entry(t)] \notin {None, t}
  /\ Return(t)
  /\ UNCHANGED <<registry, host, held>>

Unlock(t) ==
  /\ Using(t, "unlock")
  /\ Entry(t) # None
  /\ Undo(t, Entry(t)) /\ Holds(t, about[t][1], -1)
  /\ Return(t)
  /\ UNCHANGED <<registry, blocked>>

\* pthread_mutex_init and pthread_cond_init look up, or make, and return.
Initialised(t) ==
  /\ Using(t, "init") /\ Entry(t) # None
  /\ Return(t)
  /\ UNCHANGED <<registry, host, held>>

\* pthread_cond_destroy waits for woken threads to leave; then the entry is
\* freed.
Destroy(t) ==
  /\ Using(t, "destroy")
  /\ \A u \in Threads : pc[u] = "woken" => got[u][1] # Entry(t)
  /\ memory' = memory \ {Entry(t)}
  /\ Return(t)
  /\ UNCHANGED <<guest_addr, entries, mutex_lock, cond_lock, host, held>>

\* pthread_cond_wait and timedwait: the mutex is released and the thread is
\* blocked, in one step.
Wait(t) ==
  /\ Using(t, "wait") /\ None \notin Range(got[t])
  /\ Undo(t, got[t][2]) /\ Holds(t, about[t][2], -1)
  /\ blocked' = [blocked EXCEPT ![Entry(t)] = @ \cup {t}]
  /\ pc' = [pc EXCEPT ![t] = "blocked"]
  /\ UNCHANGED <<registry, op, about, got>>

\* Signal wakes one of the blocked threads, broadcast all.
Wakes(t) ==
  LET all == blocked[Entry(t)] IN
    IF op[t] = "broadcast" \/ all = {} THEN {all} ELSE {{u} : u \in all}

Signal(t) ==
  /\ Using(t, "signal") \/ Using(t, "broadcast")
  /\ Entry(t) # None
  /\ \E woken \in Wakes(t) :
       /\ blocked' = [blocked EXCEPT ![Entry(t)] = @ \ woken]
       /\ pc' = [u \in Threads |-> IF u \in woken THEN "woken"
                                  ELSE IF u = t THEN "idle" ELSE pc[u]]
  /\ op' = [op EXCEPT ![t] = None]
  /\ about' = [about EXCEPT ![t] = << >>] /\ got' = [got EXCEPT ![t] = << >>]
  /\ UNCHANGED <<registry, owner, depth, held>>

\* A timeout, or no reason at all.
WakeUp(t) ==
  /\ pc[t] = "blocked"
  /\ blocked' = [blocked EXCEPT ![Entry(t)] = @ \ {t}]
  /\ pc' = [pc EXCEPT ![t] = "woken"]
  /\ UNCHANGED <<registry, owner, depth, op, about, got, held>>

\* A woken thread leaves the condition variable, then locks the mutex again.
Leave(t) ==
  /\ pc[t] = "woken"
  /\ pc' = [pc EXCEPT ![t] = "relock"]
  /\ UNCHANGED <<registry, host, op, about, got, held>>

Relock(t) ==
  /\ pc[t] = "relock"
  /\ Deepen(t, got[t][2]) /\ Holds(t, about[t][2], 1)
  /\ Return(t)
  /\ UNCHANGED <<registry, blocked>>

-----------------------------------------------------------------------------
Lookup(t) == ScanHit(t) \/ ScanMiss(t) \/ Insert(t)

Use(t) ==
  \/ NoHost(t) \/ Lock(t) \/ TrylockBusy(t) \/ Unlock(t) \/ Initialised(t) \/ Destroy(t)
  \/ Wait(t) \/ Signal(t) \/ Leave(t) \/ Relock(t)

Next ==
  \E t \in Threads :
    \/ \E call \in Ops : \E objects \in Lookups[call] : Call(t, call, objects)
    \/ Enter(t) \/ Lookup(t) \/ Use(t) \/ WakeUp(t)

\* Threads run, and get a list's lock that is free again and again.
Fairness == \A t \in Threads : WF_vars(Lookup(t)) /\ SF_vars(Enter(t))

Spec == Init /\ [][Next]_vars /\ Fairness

-----------------------------------------------------------------------------
(* Properties.                                                               *)

\* The type of the state.
TypeOK ==
  /\ memory \subseteq Entries /\ entries \subseteq Entries
  /\ guest_addr \in [Entries -> Objects \cup {None}]
  /\ mutex_lock \in Threads \cup {None} /\ cond_lock \in Threads \cup {None}
  /\ owner \in [Entries -> Threads \cup {None}] /\ depth \in [Entries -> 0 .. MaxDepth]
  /\ blocked \in [Entries -> SUBSET Threads]
  /\ pc \in [Threads -> {"idle", "enter", "scan", "insert", "use", "blocked", "woken", "relock"}]
  /\ op \in [Threads -> Ops \cup {None}]
  /\ about \in [Threads -> Seq(Objects)] /\ got \in [Threads -> Seq(Entries \cup {None})]
  /\ held \in [Mutexes -> [Threads -> 0 .. MaxDepth]]

\* A guest mutex excludes: no two threads hold it, by what their calls
\* returned, however its host mutex came to be and however often it was
\* destroyed and used again.
MutualExclusion ==
  \A m \in Mutexes : \A t, u \in Threads : held[m][t] > 0 /\ held[m][u] > 0 => t = u

\* src/imports.c:435: "guest code passes inline bionic objects by address".  The
\* pointer a lookup returned is still that object's host entry when it is used,
\* though the list is unlocked in between.
HostIsLive ==
  \A t \in Threads : \A i \in DOMAIN got[t] :
    got[t][i] # None /\ ~(i = 1 /\ pc[t] = "relock") =>
      got[t][i] \in memory /\ guest_addr[got[t][i]] = about[t][i]

\* A call has its objects and the entries it has found so far.
CallShape ==
  \A t \in Threads :
    IF pc[t] = "idle" THEN about[t] = << >> /\ got[t] = << >>
    ELSE /\ op[t] \in Ops /\ about[t] \in Lookups[op[t]]
         /\ IF pc[t] \in {"enter", "scan", "insert"} THEN Len(got[t]) < Len(about[t])
                                                    ELSE Len(got[t]) = Len(about[t])
         /\ pc[t] \in {"blocked", "woken", "relock"} =>
              op[t] = "wait" /\ None \notin Range(got[t])

\* The lists hold allocated entries, one for each address; a thread that is
\* about to add one knows that there is none.
ListsSound ==
  /\ entries \subseteq memory
  /\ \A e \in entries : guest_addr[e] \in Objects
  /\ \A e, f \in entries : guest_addr[e] = guest_addr[f] => e = f
  /\ \A t \in Threads : pc[t] = "insert" => op[t] # "destroy" /\ Matching(Wanted(t)) = {}

\* A list's lock is held by the thread that searches that list.
RegistryHeld ==
  /\ \A t \in Threads : pc[t] \in {"scan", "insert"} => LockOf(Wanted(t)) = t
  /\ mutex_lock # None => pc[mutex_lock] \in {"scan", "insert"} /\ Wanted(mutex_lock) \in Mutexes
  /\ cond_lock # None => pc[cond_lock] \in {"scan", "insert"} /\ Wanted(cond_lock) \in Conds

\* An object that is made or destroyed is in no other call but that of a thread
\* woken from it, and is not locked.
MadeAlone ==
  \A t \in Threads : pc[t] # "idle" /\ op[t] \in {"init", "destroy"} =>
    /\ \A u \in Threads \ {t} : about[t][1] \in Range(about[u]) =>
         about[t][1] \in Conds /\ pc[u] \in {"woken", "relock"}
    /\ about[t][1] \in Mutexes => \A u \in Threads : held[about[t][1]][u] = 0

\* What a lookup returned is on its list, but for the entry a destroy took off
\* and the condition variable a woken thread is leaving.
Listed ==
  \A t \in Threads : \A i \in DOMAIN got[t] :
    /\ op[t] = "destroy" => got[t][i] # None /\ got[t][i] \notin entries
    /\ op[t] # "destroy" /\ got[t][i] # None /\ ~(i = 1 /\ pc[t] \in {"woken", "relock"}) =>
         got[t][i] \in entries

\* A host mutex is locked as often, and by whom, as the guest's calls say; a
\* mutex without one is not locked.
OwnersAgree ==
  /\ \A e \in entries : guest_addr[e] \in Mutexes =>
       /\ owner[e] = None <=> depth[e] = 0
       /\ \A t \in Threads : held[guest_addr[e]][t] = IF owner[e] = t THEN depth[e] ELSE 0
  /\ \A m \in Mutexes : Matching(m) = {} => \A t \in Threads : held[m][t] = 0

\* What a call was allowed for still holds when it uses the host object.
CallsAllowed ==
  \A t \in Threads :
    /\ pc[t] \in {"enter", "scan", "insert", "use"} =>
         /\ op[t] \in {"lock", "trylock"} => held[about[t][1]][t] < MaxDepth
         /\ op[t] = "unlock" => held[about[t][1]][t] > 0
         /\ op[t] = "wait" => held[about[t][2]][t] = 1
    /\ pc[t] \in {"blocked", "woken", "relock"} => held[about[t][2]][t] = 0

\* The threads a host condition variable keeps are those that wait for it.
WaitersKept ==
  /\ \A t \in Threads : pc[t] = "blocked" => t \in blocked[Entry(t)]
  /\ \A e \in Entries : \A t \in blocked[e] : pc[t] = "blocked" /\ Entry(t) = e

\* The lists, the host objects and the calls agree, at any time: the inductive
\* invariant of the proofs, with HostIsLive.
LocksInv ==
  /\ TypeOK /\ CallShape /\ ListsSound /\ RegistryHeld /\ MadeAlone
  /\ HostIsLive /\ Listed /\ OwnersAgree /\ CallsAllowed /\ WaitersKept

\* No wakeup is lost: a thread blocked on a guest condition variable is blocked
\* on the host object that every signal of it will find.
WaitersReachable ==
  \A t \in Threads : pc[t] = "blocked" =>
    t \in blocked[Entry(t)] /\ Matching(about[t][1]) = {Entry(t)}

\* A lookup always comes through: the lists' locks are given back on every path.
LookupsEnd ==
  \A t \in Threads : pc[t] = "enter" ~> pc[t] \in {"use", "idle"}
=============================================================================
