-------------------------- MODULE GuestLocks_proofs --------------------------
(* Proofs about GuestLocks, for any threads, objects and entries: the        *)
(* inductive invariant LocksInv, and the properties that follow from it.     *)
EXTENDS GuestLocks, TLAPS

-----------------------------------------------------------------------------
(* Calls and their objects.                                                  *)

\* The objects of each call.
LEMMA CallObjects ==
  ASSUME NEW call \in Ops, NEW objects \in Lookups[call]
  PROVE  /\ objects \in Seq(Objects) /\ Len(objects) \in {1, 2}
         /\ call = "wait" => Len(objects) = 2 /\ objects[1] \in Conds /\ objects[2] \in Mutexes
         /\ call # "wait" => Len(objects) = 1
         /\ call \in {"lock", "trylock", "unlock"} => objects[1] \in Mutexes
         /\ call \in {"signal", "broadcast"} => objects[1] \in Conds
  <1>1. Ops = {"lock", "trylock", "unlock", "wait", "signal", "broadcast", "init", "destroy"}
    BY DEF Ops, Lookups
  <1>2. CASE call = "wait"
    <2>1. objects \in Conds \X Mutexes
      BY <1>2 DEF Lookups
    <2>2. PICK c \in Conds, m \in Mutexes : objects = <<c, m>>
      BY <2>1
    <2>3. c \in Objects /\ m \in Objects
      BY DEF Objects
    <2> QED BY <1>2, <2>2, <2>3
  <1>3. CASE call # "wait"
    <2>1. \E o \in Objects : /\ objects = <<o>>
                             /\ call \in {"lock", "trylock", "unlock"} => o \in Mutexes
                             /\ call \in {"signal", "broadcast"} => o \in Conds
      BY <1>1, <1>3 DEF Lookups, Objects
    <2>2. PICK o \in Objects : /\ objects = <<o>>
                               /\ call \in {"lock", "trylock", "unlock"} => o \in Mutexes
                               /\ call \in {"signal", "broadcast"} => o \in Conds
      BY <2>1
    <2> QED BY <1>3, <2>2
  <1> QED BY <1>2, <1>3

\* A call is about at least one object.
LEMMA ObjectsCount ==
  ASSUME NEW n \in {1, 2}
  PROVE  n \in Nat /\ 0 < n
  OBVIOUS

\* What is in a sequence.
LEMMA InRange ==
  ASSUME NEW S, NEW s \in Seq(S), NEW x
  PROVE  /\ x \in Range(s) <=> \E i \in 1 .. Len(s) : s[i] = x
         /\ DOMAIN s = 1 .. Len(s) /\ Len(s) \in Nat
  BY DEF Range

\* What a thread in a call works with.
LEMMA InCall ==
  ASSUME TypeOK, CallShape, NEW t \in Threads, pc[t] # "idle"
  PROVE  /\ about[t] \in Seq(Objects) /\ Len(about[t]) \in {1, 2}
         /\ \A i \in 1 .. Len(about[t]) : about[t][i] \in Objects /\ about[t][i] \in Range(about[t])
         /\ pc[t] \in {"enter", "scan", "insert"} =>
              /\ Len(got[t]) + 1 \in 1 .. Len(about[t])
              /\ Wanted(t) \in Objects /\ Wanted(t) \in Range(about[t])
         /\ op[t] = "wait" => Len(about[t]) = 2 /\ about[t][1] \in Conds /\ about[t][2] \in Mutexes
         /\ op[t] # "wait" => Len(about[t]) = 1
         /\ op[t] \in {"lock", "trylock", "unlock"} => about[t][1] \in Mutexes
         /\ op[t] \in {"signal", "broadcast"} => about[t][1] \in Conds
  <1>1. op[t] \in Ops /\ about[t] \in Lookups[op[t]]
    BY DEF CallShape
  <1>2. /\ about[t] \in Seq(Objects) /\ Len(about[t]) \in {1, 2}
        /\ op[t] = "wait" => Len(about[t]) = 2 /\ about[t][1] \in Conds /\ about[t][2] \in Mutexes
        /\ op[t] # "wait" => Len(about[t]) = 1
        /\ op[t] \in {"lock", "trylock", "unlock"} => about[t][1] \in Mutexes
        /\ op[t] \in {"signal", "broadcast"} => about[t][1] \in Conds
    BY <1>1, CallObjects
  <1>3. \A i \in 1 .. Len(about[t]) : about[t][i] \in Objects /\ about[t][i] \in Range(about[t])
    BY <1>2, InRange
  <1>4. ASSUME pc[t] \in {"enter", "scan", "insert"} PROVE Len(got[t]) + 1 \in 1 .. Len(about[t])
    BY <1>2, <1>4 DEF CallShape, TypeOK
  <1> QED BY <1>2, <1>3, <1>4 DEF Wanted

\* The entries a call has found.
LEMMA InGot ==
  ASSUME TypeOK, NEW t \in Threads
  PROVE  /\ DOMAIN got[t] = 1 .. Len(got[t]) /\ Len(got[t]) \in Nat
         /\ \A i \in 1 .. Len(got[t]) : /\ got[t][i] \in Entries \cup {None}
                                        /\ got[t][i] \in Range(got[t])
  <1>1. got[t] \in Seq(Entries \cup {None})
    BY DEF TypeOK
  <1> QED BY <1>1, InRange

\* Nothing is in the empty sequence.
LEMMA EmptyRange == Range(<< >>) = {}
  BY DEF Range

\* It holds with no object made and no call under way.
LEMMA LocksInitInv == Init => LocksInv
  <1> SUFFICES ASSUME Init PROVE LocksInv
    OBVIOUS
  <1> USE DEF Init
  <1>0. MaxDepth \in Nat /\ 0 \in 0 .. MaxDepth /\ 0 <= MaxDepth
    BY LocksAssumption
  <1>1. TypeOK
    BY <1>0 DEF TypeOK
  <1>2. CallShape /\ RegistryHeld /\ MadeAlone /\ CallsAllowed
    BY DEF CallShape, RegistryHeld, MadeAlone, CallsAllowed
  <1>3. HostIsLive /\ Listed
    BY DEF HostIsLive, Listed
  <1>4. ListsSound /\ OwnersAgree /\ WaitersKept
    BY DEF ListsSound, OwnersAgree, WaitersKept
  <1> QED BY <1>1, <1>2, <1>3, <1>4 DEF LocksInv
-----------------------------------------------------------------------------
(* Steps that several actions take.                                          *)

\* A lookup of t ends with e.
LEMMA FoundFacts ==
  ASSUME LocksInv, NEW t \in Threads, pc[t] \in {"scan", "insert"},
         NEW e \in Entries \cup {None}, Found(t, e)
  PROVE  /\ \A u \in Threads \ {t} : pc'[u] = pc[u] /\ got'[u] = got[u]
         /\ pc'[t] = IF Len(got[t]) + 1 = Len(about[t]) THEN "use" ELSE "enter"
         /\ pc' \in [Threads -> {"idle", "enter", "scan", "insert", "use", "blocked", "woken", "relock"}]
         /\ got' \in [Threads -> Seq(Entries \cup {None})]
         /\ Len(got'[t]) = Len(got[t]) + 1 /\ got'[t][Len(got[t]) + 1] = e
         /\ \A i \in 1 .. Len(got[t]) : got'[t][i] = got[t][i]
  <1>1. got[t] \in Seq(Entries \cup {None}) /\ t \in DOMAIN got
    BY DEF LocksInv, TypeOK
  <1>2. got'[t] = Append(got[t], e)
    BY <1>1 DEF Found
  <1>3. /\ Append(got[t], e) \in Seq(Entries \cup {None})
        /\ Len(Append(got[t], e)) = Len(got[t]) + 1 /\ Append(got[t], e)[Len(got[t]) + 1] = e
        /\ \A i \in 1 .. Len(got[t]) : Append(got[t], e)[i] = got[t][i]
    BY <1>1
  <1>4. got' = [got EXCEPT ![t] = Append(got[t], e)]
    BY DEF Found
  <1>5. got' \in [Threads -> Seq(Entries \cup {None})] /\ \A u \in Threads \ {t} : got'[u] = got[u]
    BY <1>3, <1>4 DEF LocksInv, TypeOK
  <1>6. pc' = [pc EXCEPT ![t] = IF Len(got[t]) + 1 = Len(about[t]) THEN "use" ELSE "enter"]
    BY <1>2, <1>3 DEF Found
  <1> QED BY <1>2, <1>3, <1>5, <1>6 DEF LocksInv, TypeOK

\* The list's lock is given back with the end of a lookup.
LEMMA ListReleased ==
  ASSUME LocksInv, NEW t \in Threads, pc[t] \in {"scan", "insert"},
         Take(Wanted(t), None) \/ (\E e \in Entries \cup {None} : Found(t, e)),
         pc'[t] \notin {"scan", "insert"},
         \A u \in Threads \ {t} : pc'[u] = pc[u] /\ got'[u] = got[u] /\ about'[u] = about[u]
  PROVE  RegistryHeld'
  <1>1. Take(Wanted(t), None) /\ Wanted(t) \in Objects /\ LockOf(Wanted(t)) = t /\ t # None
    BY InCall, LocksAssumption DEF LocksInv, Found, RegistryHeld
  <1>2. \A u \in Threads \ {t} : Wanted(u)' = Wanted(u)
    BY DEF Wanted
  <1>3. CASE Wanted(t) \in Mutexes
    <2>1. mutex_lock = t /\ mutex_lock' = None /\ cond_lock' = cond_lock
      BY <1>1, <1>3 DEF LockOf, Take
    <2>2. cond_lock # t
      BY <1>1, <1>3, LocksAssumption DEF LocksInv, RegistryHeld
    <2>3. cond_lock \in Threads \cup {None}
      BY DEF LocksInv, TypeOK
    <2>4. \A u \in Threads \ {t} : pc[u] \in {"scan", "insert"} => Wanted(u) \notin Mutexes /\ cond_lock = u
      BY <2>1 DEF LocksInv, RegistryHeld, LockOf
    <2> QED BY <1>2, <2>1, <2>2, <2>3, <2>4 DEF LocksInv, RegistryHeld, LockOf
  <1>4. CASE Wanted(t) \notin Mutexes
    <2>1. cond_lock = t /\ cond_lock' = None /\ mutex_lock' = mutex_lock
      BY <1>1, <1>4 DEF LockOf, Take
    <2>2. mutex_lock # t
      BY <1>1, <1>4 DEF LocksInv, RegistryHeld
    <2>3. mutex_lock \in Threads \cup {None}
      BY DEF LocksInv, TypeOK
    <2>4. \A u \in Threads \ {t} : pc[u] \in {"scan", "insert"} => Wanted(u) \in Mutexes /\ mutex_lock = u
      BY <2>1 DEF LocksInv, RegistryHeld, LockOf
    <2> QED BY <1>2, <2>1, <2>2, <2>3, <2>4 DEF LocksInv, RegistryHeld, LockOf
  <1> QED BY <1>3, <1>4

\* Waiting threads and the condition variables are left alone.
LEMMA WaitersUntouched ==
  ASSUME TypeOK, WaitersKept, blocked' = blocked,
         \A u \in Threads : /\ pc'[u] = "blocked" <=> pc[u] = "blocked"
                            /\ pc[u] = "blocked" => got'[u] = got[u]
  PROVE  WaitersKept'
  <1>1. \A u \in Threads : pc[u] = "blocked" => Entry(u)' = Entry(u)
    BY DEF Entry
  <1>2. \A e \in Entries : blocked[e] \subseteq Threads
    BY DEF TypeOK
  <1>3. ASSUME NEW u \in Threads, pc'[u] = "blocked" PROVE u \in blocked'[Entry(u)']
    BY <1>1, <1>3 DEF WaitersKept
  <1>4. ASSUME NEW e \in Entries, NEW u \in blocked'[e] PROVE pc'[u] = "blocked" /\ Entry(u)' = e
    BY <1>1, <1>2, <1>4 DEF WaitersKept
  <1> QED BY <1>3, <1>4 DEF WaitersKept

\* A mutex that a thread's call is about is not made or destroyed by another.
LEMMA NotMade ==
  ASSUME LocksInv, NEW t \in Threads, NEW m \in Mutexes, m \in Range(about[t]),
         op[t] \notin {"init", "destroy"},
         NEW w \in Threads, pc[w] # "idle", op[w] \in {"init", "destroy"}
  PROVE  about[w][1] # m /\ w # t
  BY LocksAssumption DEF LocksInv, MadeAlone

\* A call on a mutex has found its entry, which is on the list and is locked as
\* the thread's calls say.
LEMMA MutexFound ==
  ASSUME LocksInv, NEW t \in Threads, NEW i \in 1 .. Len(got[t]), got[t][i] # None,
         about[t][i] \in Mutexes, op[t] # "destroy"
  PROVE  /\ got[t][i] \in entries /\ got[t][i] \in Entries /\ guest_addr[got[t][i]] = about[t][i]
         /\ about[t][i] \in Range(about[t])
         /\ held[about[t][i]][t] = IF owner[got[t][i]] = t THEN depth[got[t][i]] ELSE 0
         /\ owner[got[t][i]] = None <=> depth[got[t][i]] = 0
  <1>1. pc[t] # "idle" /\ i \in 1 .. Len(about[t]) /\ i \in DOMAIN got[t]
    BY DEF LocksInv, CallShape
  <1>2. about[t][i] \in Range(about[t])
    BY <1>1, InCall DEF LocksInv
  <1>3. ~(i = 1 /\ pc[t] \in {"woken", "relock"})
    BY <1>1, InCall, LocksAssumption DEF LocksInv, CallShape
  <1>4. got[t][i] \in entries /\ guest_addr[got[t][i]] = about[t][i]
    BY <1>1, <1>3 DEF LocksInv, HostIsLive, Listed
  <1> QED BY <1>2, <1>4 DEF LocksInv, OwnersAgree, TypeOK

\* One more lock of a mutex, in the host object and by the guest's count.
LEMMA LockedOnceMore ==
  ASSUME LocksInv, NEW t \in Threads, NEW e \in entries, NEW m \in Mutexes,
         guest_addr[e] = m, held[m][t] < MaxDepth,
         Deepen(t, e), Holds(t, m, 1), UNCHANGED <<entries, guest_addr>>
  PROVE  /\ OwnersAgree'
         /\ owner' \in [Entries -> Threads \cup {None}] /\ depth' \in [Entries -> 0 .. MaxDepth]
         /\ held' \in [Mutexes -> [Threads -> 0 .. MaxDepth]]
         /\ \A n \in Mutexes : \A u \in Threads :
              held'[n][u] = IF n = m /\ u = t THEN held[n][u] + 1 ELSE held[n][u]
  <1> USE DEF LocksInv
  <1>1. e \in Entries /\ t # None /\ MaxDepth \in Nat
    BY LocksAssumption DEF TypeOK
  <1>2. /\ owner[e] = None <=> depth[e] = 0
        /\ \A u \in Threads : held[m][u] = IF owner[e] = u THEN depth[e] ELSE 0
    BY DEF OwnersAgree
  <1>3. depth[e] = held[m][t] /\ depth[e] \in 0 .. MaxDepth /\ depth[e] < MaxDepth
    BY <1>1, <1>2 DEF Deepen, TypeOK
  <1>4. depth[e] + 1 \in 0 .. MaxDepth /\ held[m][t] + 1 \in 0 .. MaxDepth
    BY <1>1, <1>3
  <1>5. owner' \in [Entries -> Threads \cup {None}] /\ depth' \in [Entries -> 0 .. MaxDepth]
    BY <1>4 DEF Deepen, TypeOK
  <1>6. /\ held' \in [Mutexes -> [Threads -> 0 .. MaxDepth]]
        /\ \A n \in Mutexes : \A u \in Threads :
             held'[n][u] = IF n = m /\ u = t THEN held[n][u] + 1 ELSE held[n][u]
    BY <1>4 DEF Holds, TypeOK
  <1>7. /\ owner'[e] = t /\ depth'[e] = depth[e] + 1
        /\ \A f \in Entries \ {e} : owner'[f] = owner[f] /\ depth'[f] = depth[f]
    BY <1>1 DEF Deepen, TypeOK
  <1>8. ASSUME NEW f \in entries, guest_addr[f] \in Mutexes
        PROVE  /\ owner'[f] = None <=> depth'[f] = 0
               /\ \A u \in Threads : held'[guest_addr[f]][u] = IF owner'[f] = u THEN depth'[f] ELSE 0
    <2>1. CASE f = e
      <3>1. \A u \in Threads \ {t} : held[m][u] = 0
        BY <1>1, <1>2 DEF Deepen
      <3> QED BY <1>1, <1>3, <1>6, <1>7, <2>1, <3>1
    <2>2. CASE f # e
      <3>1. guest_addr[f] # m /\ f \in Entries
        BY <2>2 DEF ListsSound, TypeOK
      <3> QED BY <1>6, <1>7, <1>8, <2>2, <3>1 DEF OwnersAgree
    <2> QED BY <2>1, <2>2
  <1>9. ASSUME NEW n \in Mutexes, Matching(n)' = {}, NEW u \in Threads PROVE held'[n][u] = 0
    <2>1. Matching(n) = {} /\ n # m
      BY <1>9 DEF Matching
    <2> QED BY <1>6, <2>1 DEF OwnersAgree
  <1>10. OwnersAgree'
    BY <1>8, <1>9 DEF OwnersAgree
  <1> QED BY <1>5, <1>6, <1>10

\* One lock less.
LEMMA LockedOnceLess ==
  ASSUME LocksInv, NEW t \in Threads, NEW e \in entries, NEW m \in Mutexes,
         guest_addr[e] = m, held[m][t] > 0,
         Undo(t, e), Holds(t, m, -1), UNCHANGED <<entries, guest_addr>>
  PROVE  /\ OwnersAgree'
         /\ owner' \in [Entries -> Threads \cup {None}] /\ depth' \in [Entries -> 0 .. MaxDepth]
         /\ held' \in [Mutexes -> [Threads -> 0 .. MaxDepth]]
         /\ \A n \in Mutexes : \A u \in Threads :
              held'[n][u] = IF n = m /\ u = t THEN held[n][u] - 1 ELSE held[n][u]
  <1> USE DEF LocksInv
  <1>1. e \in Entries /\ t # None /\ MaxDepth \in Nat
    BY LocksAssumption DEF TypeOK
  <1>2. \A u \in Threads : held[m][u] = IF owner[e] = u THEN depth[e] ELSE 0
    BY DEF OwnersAgree
  <1>3. owner[e] = t /\ depth[e] = held[m][t] /\ depth[e] \in 0 .. MaxDepth /\ depth[e] > 0
    BY <1>1, <1>2 DEF Undo, TypeOK
  <1>4. depth[e] - 1 \in 0 .. MaxDepth /\ held[m][t] + -1 = held[m][t] - 1
    BY <1>1, <1>3
  <1>5. /\ depth' = [depth EXCEPT ![e] = depth[e] - 1]
        /\ depth' \in [Entries -> 0 .. MaxDepth] /\ depth'[e] = depth[e] - 1
        /\ \A f \in Entries \ {e} : depth'[f] = depth[f]
    BY <1>1, <1>4 DEF Undo, TypeOK
  <1>6. /\ held' \in [Mutexes -> [Threads -> 0 .. MaxDepth]]
        /\ \A n \in Mutexes : \A u \in Threads :
             held'[n][u] = IF n = m /\ u = t THEN held[n][u] - 1 ELSE held[n][u]
    BY <1>3, <1>4 DEF Holds, TypeOK
  <1>7. /\ owner' \in [Entries -> Threads \cup {None}]
        /\ owner'[e] = (IF depth'[e] = 0 THEN None ELSE t)
        /\ \A f \in Entries \ {e} : owner'[f] = owner[f]
    BY <1>1 DEF Undo, TypeOK
  <1>8. ASSUME NEW f \in entries, guest_addr[f] \in Mutexes
        PROVE  /\ owner'[f] = None <=> depth'[f] = 0
               /\ \A u \in Threads : held'[guest_addr[f]][u] = IF owner'[f] = u THEN depth'[f] ELSE 0
    <2>1. CASE f = e
      <3>1. \A u \in Threads \ {t} : held[m][u] = 0
        BY <1>2, <1>3
      <3>2. \A u \in Threads : u # None
        BY LocksAssumption
      <3> QED BY <1>1, <1>3, <1>5, <1>6, <1>7, <2>1, <3>1, <3>2
    <2>2. CASE f # e
      <3>1. guest_addr[f] # m /\ f \in Entries
        BY <2>2 DEF ListsSound, TypeOK
      <3> QED BY <1>5, <1>6, <1>7, <1>8, <2>2, <3>1 DEF OwnersAgree
    <2> QED BY <2>1, <2>2
  <1>9. ASSUME NEW n \in Mutexes, Matching(n)' = {}, NEW u \in Threads PROVE held'[n][u] = 0
    <2>1. Matching(n) = {} /\ n # m
      BY <1>9 DEF Matching
    <2> QED BY <1>6, <2>1 DEF OwnersAgree
  <1>10. OwnersAgree'
    BY <1>8, <1>9 DEF OwnersAgree
  <1> QED BY <1>5, <1>6, <1>7, <1>10

-----------------------------------------------------------------------------
(* Every action preserves the invariant.                                     *)

\* A call returns without changing anything: NoHost, TrylockBusy, Initialised.
LEMMA ReturnInv ==
  ASSUME LocksInv, NEW t \in Threads, pc[t] = "use", Return(t), UNCHANGED <<registry, host, held>>
  PROVE  LocksInv'
  <1> USE DEF LocksInv
  <1>10. TypeOK'
    BY DEF TypeOK, Return, registry, host
  <1>11. CallShape'
    BY DEF TypeOK, Return, registry, host, CallShape
  <1>12. ListsSound'
    BY DEF TypeOK, Return, registry, host, ListsSound, Matching, Wanted
  <1>13. RegistryHeld'
    BY DEF TypeOK, Return, registry, host, RegistryHeld, LockOf, Wanted
  <1>14. MadeAlone'
    BY EmptyRange DEF TypeOK, Return, registry, host, MadeAlone
  <1>15. HostIsLive'
    BY DEF TypeOK, Return, registry, host, HostIsLive
  <1>16. Listed'
    BY DEF TypeOK, Return, registry, host, Listed
  <1>17. OwnersAgree'
    BY DEF Return, registry, host, OwnersAgree, Matching
  <1>18. CallsAllowed'
    BY DEF TypeOK, Return, registry, host, CallsAllowed
  <1>19. WaitersKept'
    BY DEF TypeOK, Return, registry, host, WaitersKept, Entry
  <1> QED BY <1>10, <1>11, <1>12, <1>13, <1>14, <1>15, <1>16, <1>17, <1>18, <1>19

\* A call begins that the guest's behaviour allows.
LEMMA CallInv ==
  ASSUME LocksInv, NEW t \in Threads, NEW call \in Ops, NEW objects \in Lookups[call], Call(t, call, objects)
  PROVE  LocksInv'
  <1> USE DEF LocksInv
  <1>1. /\ pc[t] = "idle" /\ got[t] = << >>
        /\ op' = [op EXCEPT ![t] = call] /\ about' = [about EXCEPT ![t] = objects]
        /\ pc' = [pc EXCEPT ![t] = "enter"]
        /\ UNCHANGED <<memory, guest_addr, entries, mutex_lock, cond_lock, owner, depth,
                       blocked, got, held>>
        /\ objects \in Seq(Objects) /\ Len(objects) \in {1, 2}
        /\ call = "wait" => Len(objects) = 2
        /\ call # "wait" => Len(objects) = 1
    BY CallObjects DEF Call, CallShape, registry, host
  <1>0. /\ call \in {"lock", "trylock"} => held[objects[1]][t] < MaxDepth
        /\ call = "unlock" => held[objects[1]][t] > 0
        /\ call = "wait" => held[objects[2]][t] = 1
        /\ call \in {"init", "destroy"} =>
             ~InUse(t, objects[1]) /\ (objects[1] \in Mutexes => \A u \in Threads : held[objects[1]][u] = 0)
        /\ \A i \in DOMAIN objects : ~BeingMade(t, objects[i])
    BY DEF Call, Behaves
  <1>10. TypeOK'
    BY <1>1 DEF TypeOK
  <1>11. CallShape'
    <2>1. about'[t] = objects /\ op'[t] = call /\ pc'[t] = "enter" /\ Len(got[t]) = 0
      BY <1>1 DEF TypeOK
    <2>2. \A u \in Threads \ {t} : about'[u] = about[u] /\ op'[u] = op[u] /\ pc'[u] = pc[u]
      BY <1>1 DEF TypeOK
    <2> SUFFICES ASSUME NEW u \in Threads
                 PROVE  IF pc'[u] = "idle" THEN about'[u] = << >> /\ got'[u] = << >>
                        ELSE /\ op'[u] \in Ops /\ about'[u] \in Lookups[op'[u]]
                             /\ IF pc'[u] \in {"enter", "scan", "insert"} THEN Len(got'[u]) < Len(about'[u])
                                                                       ELSE Len(got'[u]) = Len(about'[u])
                             /\ pc'[u] \in {"blocked", "woken", "relock"} =>
                                  op'[u] = "wait" /\ None \notin Range(got'[u])
      BY DEF CallShape
    <2>3. CASE u = t
      <3>1. /\ pc'[u] = "enter" /\ op'[u] = call /\ about'[u] = objects
            /\ got'[u] = got[t] /\ Len(got[t]) < Len(objects)
        <4>1. got' = got /\ Len(got[t]) < Len(objects)
          BY <1>1, <2>1, CallObjects, ObjectsCount
        <4> QED BY <2>1, <2>3, <4>1
      <3> QED BY <3>1
    <2>4. CASE u # t
      BY <1>1, <2>2, <2>4 DEF CallShape
    <2> QED BY <2>3, <2>4
  <1>12. ListsSound'
    BY <1>1 DEF TypeOK, ListsSound, Matching, Wanted
  <1>13. RegistryHeld'
    BY <1>1 DEF TypeOK, RegistryHeld, LockOf, Wanted
  <1>14. MadeAlone'
    <2> SUFFICES ASSUME NEW w \in Threads, pc'[w] # "idle", op'[w] \in {"init", "destroy"}
                 PROVE  /\ \A u \in Threads \ {w} : about'[w][1] \in Range(about'[u]) =>
                             about'[w][1] \in Conds /\ pc'[u] \in {"woken", "relock"}
                        /\ about'[w][1] \in Mutexes => \A u \in Threads : held[about'[w][1]][u] = 0
      BY <1>1 DEF MadeAlone
    <2>1. CASE w = t
      <3>1. about'[w] = objects /\ call \in {"init", "destroy"} /\ objects[1] \in Objects
        BY <1>1, <2>1 DEF TypeOK
      <3>2. \A u \in Threads \ {t} : about'[u] = about[u] /\ pc'[u] = pc[u]
        BY <1>1 DEF TypeOK
      <3> QED BY <1>0, <2>1, <3>1, <3>2 DEF InUse
    <2>2. CASE w # t
      <3>1. about'[w] = about[w] /\ op'[w] = op[w] /\ pc'[w] = pc[w]
        BY <1>1, <2>2 DEF TypeOK
      <3>2. about[w][1] \in Range(about[w])
        BY <3>1, InCall
      <3>3. about[w][1] \notin Range(objects)
        BY <1>0, <1>1, <2>2, <3>1, <3>2, InRange DEF BeingMade
      <3>4. \A u \in Threads \ {t} : about'[u] = about[u] /\ pc'[u] = pc[u]
        BY <1>1 DEF TypeOK
      <3> QED BY <1>1, <2>2, <3>1, <3>3, <3>4 DEF MadeAlone, TypeOK
    <2> QED BY <2>1, <2>2
  <1>15. HostIsLive'
    BY <1>1 DEF TypeOK, HostIsLive
  <1>16. Listed'
    <2>1. DOMAIN got[t] = {}
      BY <1>1
    <2>2. \A u \in Threads \ {t} : op'[u] = op[u] /\ pc'[u] = pc[u]
      BY <1>1 DEF TypeOK
    <2> QED BY <1>1, <2>1, <2>2 DEF Listed
  <1>17. OwnersAgree'
    BY <1>1 DEF OwnersAgree, Matching
  <1>18. CallsAllowed'
    BY <1>0, <1>1 DEF TypeOK, CallsAllowed
  <1>19. WaitersKept'
    BY <1>1 DEF TypeOK, WaitersKept, Entry
  <1> QED BY <1>10, <1>11, <1>12, <1>13, <1>14, <1>15, <1>16, <1>17, <1>18, <1>19

\* The list is locked.
LEMMA EnterInv ==
  ASSUME LocksInv, NEW t \in Threads, Enter(t)
  PROVE  LocksInv'
  <1> USE DEF LocksInv
  <1>10. TypeOK'
    BY DEF TypeOK, Enter, Take, RegistryFree, host
  <1>11. CallShape'
    BY DEF TypeOK, Enter, Take, RegistryFree, host, CallShape
  <1>12. ListsSound'
    BY DEF TypeOK, Enter, Take, RegistryFree, host, ListsSound, Matching, Wanted
  <1>13. RegistryHeld'
    <2>1. pc[t] = "enter" /\ Wanted(t) \in Objects /\ LockOf(Wanted(t)) = None /\ Take(Wanted(t), t)
      BY InCall DEF Enter, RegistryFree
    <2>2. \A u \in Threads : Wanted(u)' = Wanted(u)
      BY DEF Enter, Wanted
    <2>3. pc'[t] = "scan" /\ \A u \in Threads \ {t} : pc'[u] = pc[u]
      BY DEF Enter, TypeOK
    <2>4. t # None
      BY LocksAssumption
    <2>5. CASE Wanted(t) \in Mutexes
      <3>1. mutex_lock = None /\ mutex_lock' = t /\ cond_lock' = cond_lock
        BY <2>1, <2>5 DEF LockOf, Take
      <3>2. cond_lock # t
        BY <2>1, <2>4 DEF RegistryHeld
      <3>3. \A u \in Threads \ {t} : pc[u] \in {"scan", "insert"} => Wanted(u) \notin Mutexes
        BY <3>1, LocksAssumption DEF RegistryHeld, LockOf
      <3> QED BY <2>2, <2>3, <2>5, <3>1, <3>2, <3>3 DEF RegistryHeld, LockOf, TypeOK
    <2>6. CASE Wanted(t) \notin Mutexes
      <3>1. cond_lock = None /\ cond_lock' = t /\ mutex_lock' = mutex_lock /\ Wanted(t) \in Conds
        BY <2>1, <2>6 DEF LockOf, Take, Objects
      <3>2. mutex_lock # t
        BY <2>1, <2>4 DEF RegistryHeld
      <3>3. \A u \in Threads \ {t} : pc[u] \in {"scan", "insert"} => Wanted(u) \in Mutexes
        BY <3>1, LocksAssumption DEF RegistryHeld, LockOf
      <3> QED BY <2>2, <2>3, <2>6, <3>1, <3>2, <3>3 DEF RegistryHeld, LockOf, TypeOK
    <2> QED BY <2>5, <2>6
  <1>14. MadeAlone'
    BY DEF TypeOK, Enter, Take, RegistryFree, host, MadeAlone
  <1>15. HostIsLive'
    BY DEF TypeOK, Enter, Take, RegistryFree, host, HostIsLive
  <1>16. Listed'
    BY DEF TypeOK, Enter, Take, RegistryFree, host, Listed
  <1>17. OwnersAgree'
    BY DEF Enter, Take, RegistryFree, host, OwnersAgree, Matching
  <1>18. CallsAllowed'
    BY DEF TypeOK, Enter, Take, RegistryFree, host, CallsAllowed
  <1>19. WaitersKept'
    BY DEF TypeOK, Enter, Take, RegistryFree, host, WaitersKept, Entry
  <1> QED BY <1>10, <1>11, <1>12, <1>13, <1>14, <1>15, <1>16, <1>17, <1>18, <1>19

\* The entry is found; destroy takes it off the list.
LEMMA ScanHitInv ==
  ASSUME LocksInv, NEW t \in Threads, ScanHit(t)
  PROVE  LocksInv'
  <1> USE DEF LocksInv
  <1>1. PICK e \in Matching(Wanted(t)) :
          Found(t, e) /\ entries' = IF op[t] = "destroy" THEN entries \ {e} ELSE entries
    BY DEF ScanHit, Unlinked
  <1>2. /\ pc[t] = "scan" /\ e \in entries /\ e \in Entries /\ e # None
        /\ guest_addr[e] = Wanted(t)
        /\ UNCHANGED <<memory, guest_addr, owner, depth, blocked, op, about, held>>
    BY <1>1, LocksAssumption DEF ScanHit, Matching, host, TypeOK
  <1>3. /\ \A u \in Threads \ {t} : pc'[u] = pc[u] /\ got'[u] = got[u]
        /\ pc'[t] = IF Len(got[t]) + 1 = Len(about[t]) THEN "use" ELSE "enter"
        /\ pc' \in [Threads -> {"idle", "enter", "scan", "insert", "use", "blocked", "woken", "relock"}]
        /\ got' \in [Threads -> Seq(Entries \cup {None})]
        /\ Len(got'[t]) = Len(got[t]) + 1 /\ got'[t][Len(got[t]) + 1] = e
        /\ \A i \in 1 .. Len(got[t]) : got'[t][i] = got[t][i]
    BY <1>1, <1>2, FoundFacts
  <1>10. TypeOK'
    <2>1. mutex_lock' \in {mutex_lock, None} /\ cond_lock' \in {cond_lock, None}
      BY <1>1 DEF Found, Take
    <2> QED BY <1>1, <1>2, <1>3, <2>1 DEF TypeOK
  <1>11. CallShape'
    BY <1>1, <1>2, <1>3 DEF TypeOK, CallShape
  <1>12. ListsSound'
    <2>1. ASSUME NEW u \in Threads, pc'[u] = "insert" PROVE op'[u] # "destroy" /\ Matching(Wanted(u))' = {}
      <3>1. u # t /\ pc[u] = "insert" /\ Wanted(u)' = Wanted(u)
        BY <1>2, <1>3, <2>1 DEF Wanted
      <3> QED BY <1>1, <1>2, <3>1 DEF ListsSound, Matching
    <2> QED BY <1>1, <1>2, <2>1 DEF ListsSound
  <1>13. RegistryHeld'
    BY <1>1, <1>2, <1>3, ListReleased DEF NoMemory
  <1>14. MadeAlone'
    <2> SUFFICES ASSUME NEW w \in Threads, pc'[w] # "idle", op[w] \in {"init", "destroy"}
                 PROVE  /\ \A u \in Threads \ {w} : about[w][1] \in Range(about[u]) =>
                             about[w][1] \in Conds /\ pc'[u] \in {"woken", "relock"}
                        /\ about[w][1] \in Mutexes => \A u \in Threads : held[about[w][1]][u] = 0
      BY <1>1, <1>2, <1>3 DEF MadeAlone
    <2>1. pc[w] # "idle"
      BY <1>1, <1>2, <1>3
    <2> QED BY <1>1, <1>2, <1>3, <2>1 DEF MadeAlone
  <1>15. HostIsLive'
    <2> SUFFICES ASSUME NEW u \in Threads, NEW i \in 1 .. Len(got'[u]), got'[u][i] # None,
                        ~(i = 1 /\ pc'[u] = "relock")
                 PROVE  got'[u][i] \in memory' /\ guest_addr'[got'[u][i]] = about[u][i]
      BY <1>1, <1>2, <1>3, InRange DEF HostIsLive
    <2>1. CASE u = t /\ i = Len(got[t]) + 1
      BY <1>1, <1>2, <1>3, <2>1 DEF ListsSound, Wanted, TypeOK
    <2>2. CASE ~(u = t /\ i = Len(got[t]) + 1)
      <3>1. i \in 1 .. Len(got[u]) /\ got'[u][i] = got[u][i]
        BY <1>1, <1>2, <1>3, <2>2
      <3>2. ~(i = 1 /\ pc[u] = "relock")
        BY <1>1, <1>2, <1>3
      <3>3. got[u][i] \in memory /\ guest_addr[got[u][i]] = about[u][i]
        BY <3>1, <3>2 DEF HostIsLive
      <3> QED BY <1>1, <1>2, <1>3, <3>1, <3>3 DEF TypeOK
    <2> QED BY <2>1, <2>2
  <1>16. Listed'
    <2> SUFFICES ASSUME NEW u \in Threads, NEW i \in 1 .. Len(got'[u])
                 PROVE  /\ op[u] = "destroy" => got'[u][i] # None /\ got'[u][i] \notin entries'
                        /\ op[u] # "destroy" /\ got'[u][i] # None
                             /\ ~(i = 1 /\ pc'[u] \in {"woken", "relock"}) => got'[u][i] \in entries'
      BY <1>2, <1>3, InRange DEF Listed
    <2>1. CASE u = t /\ i = Len(got[t]) + 1
      BY <1>1, <1>2, <1>3, <2>1
    <2>2. CASE u = t /\ i # Len(got[t]) + 1
      <3>1. i \in 1 .. Len(got[t]) /\ got'[t][i] = got[t][i]
        BY <1>3, <2>2
      <3>2. op[t] # "destroy"
        BY <1>2, <3>1, InCall
      <3> QED BY <1>1, <1>2, <2>2, <3>1, <3>2 DEF Listed
    <2>3. CASE u # t
      <3>1. got'[u] = got[u] /\ pc'[u] = pc[u]
        BY <1>3, <2>3
      <3>2. CASE entries' = entries
        BY <3>1, <3>2 DEF Listed
      <3>3. CASE op[t] = "destroy" /\ op[u] # "destroy" /\ got[u][i] = e
                   /\ ~(i = 1 /\ pc[u] \in {"woken", "relock"})
        <4>1. Len(about[t]) = 1 /\ Len(got[t]) = 0 /\ about[t][1] = Wanted(t)
          BY <1>2, <3>3, InCall DEF Wanted
        <4>2. about[u][i] = about[t][1]
          BY <1>2, <3>1, <3>3, <4>1 DEF HostIsLive
        <4>3. pc[u] # "idle" /\ i \in 1 .. Len(about[u])
          BY <3>1 DEF CallShape, TypeOK
        <4>4. about[u][i] \in Range(about[u])
          BY <4>3, InCall
        <4>5. about[u][i] \in Conds /\ pc[u] \in {"woken", "relock"}
          BY <1>2, <2>3, <3>3, <4>2, <4>4 DEF MadeAlone
        <4>6. i = 2 /\ about[u][2] \in Mutexes
          BY <3>3, <4>3, <4>5, InCall DEF CallShape
        <4> QED BY <4>5, <4>6, LocksAssumption
      <3> QED BY <1>1, <3>1, <3>2, <3>3 DEF Listed
    <2> QED BY <2>1, <2>2, <2>3
  <1>17. OwnersAgree'
    <2>1. ASSUME NEW m \in Mutexes, Matching(m)' = {}, NEW u \in Threads PROVE held[m][u] = 0
      <3>1. CASE Matching(m) = {}
        BY <3>1 DEF OwnersAgree
      <3>2. CASE Matching(m) # {}
        <4>1. op[t] = "destroy" /\ m = Wanted(t)
          BY <1>1, <1>2, <2>1, <3>2 DEF Matching
        <4>2. m = about[t][1]
          BY <1>2, <4>1, InCall DEF Wanted
        <4> QED BY <1>2, <4>1, <4>2 DEF MadeAlone
      <3> QED BY <3>1, <3>2
    <2>2. entries' \subseteq entries
      BY <1>1
    <2> QED BY <1>2, <2>1, <2>2 DEF OwnersAgree
  <1>18. CallsAllowed'
    BY <1>1, <1>2, <1>3 DEF CallsAllowed
  <1>19. WaitersKept'
    BY <1>1, <1>2, <1>3, WaitersUntouched
  <1> QED BY <1>10, <1>11, <1>12, <1>13, <1>14, <1>15, <1>16, <1>17, <1>18, <1>19

\* There is nothing to destroy.
LEMMA ScanMissDestroyInv ==
  ASSUME LocksInv, NEW t \in Threads, ScanMiss(t), op[t] = "destroy"
  PROVE  LocksInv'
  <1> USE DEF LocksInv
  <1>1. /\ pc[t] = "scan" /\ Take(Wanted(t), None) /\ Return(t)
        /\ UNCHANGED <<memory, guest_addr, entries, owner, depth, blocked, held>>
    BY DEF ScanMiss, host
  <1>2. /\ \A u \in Threads \ {t} : /\ pc'[u] = pc[u] /\ got'[u] = got[u]
                                    /\ op'[u] = op[u] /\ about'[u] = about[u]
        /\ pc'[t] = "idle" /\ got'[t] = << >> /\ about'[t] = << >>
    BY <1>1 DEF Return, TypeOK
  <1>3. mutex_lock' \in {mutex_lock, None} /\ cond_lock' \in {cond_lock, None}
    BY <1>1 DEF Take
  <1>10. TypeOK'
    BY <1>1, <1>3 DEF TypeOK, Return
  <1>11. CallShape'
    BY <1>1, <1>2 DEF CallShape
  <1>12. ListsSound'
    BY <1>1, <1>2 DEF ListsSound, Matching, Wanted
  <1>13. RegistryHeld'
    BY <1>1, <1>2, ListReleased
  <1>14. MadeAlone'
    BY <1>1, <1>2, EmptyRange DEF MadeAlone
  <1>15. HostIsLive'
    BY <1>1, <1>2 DEF HostIsLive
  <1>16. Listed'
    BY <1>1, <1>2 DEF Listed
  <1>17. OwnersAgree'
    BY <1>1 DEF OwnersAgree, Matching
  <1>18. CallsAllowed'
    BY <1>1, <1>2 DEF CallsAllowed
  <1>19. WaitersKept'
    BY <1>1, <1>2, WaitersUntouched
  <1> QED BY <1>10, <1>11, <1>12, <1>13, <1>14, <1>15, <1>16, <1>17, <1>18, <1>19

\* There is no entry: the lock is kept to add one.
LEMMA ScanMissOtherInv ==
  ASSUME LocksInv, NEW t \in Threads, ScanMiss(t), op[t] # "destroy"
  PROVE  LocksInv'
  <1> USE DEF LocksInv
  <1>1. /\ pc[t] = "scan" /\ Matching(Wanted(t)) = {}
        /\ UNCHANGED <<memory, guest_addr, entries, mutex_lock, cond_lock, owner, depth, blocked,
                       op, about, got, held>>
    BY DEF ScanMiss, host
  <1>2. /\ pc' = [pc EXCEPT ![t] = "insert"]
        /\ \A u \in Threads \ {t} : pc'[u] = pc[u]
        /\ pc'[t] = "insert"
    BY DEF ScanMiss, TypeOK
  <1>10. TypeOK'
    BY <1>1, <1>2 DEF TypeOK
  <1>11. CallShape'
    BY <1>1, <1>2 DEF CallShape
  <1>12. ListsSound'
    BY <1>1, <1>2 DEF ListsSound, Matching, Wanted
  <1>13. RegistryHeld'
    BY <1>1, <1>2 DEF RegistryHeld, LockOf, Wanted
  <1>14. MadeAlone'
    BY <1>1, <1>2 DEF MadeAlone
  <1>15. HostIsLive'
    BY <1>1, <1>2 DEF HostIsLive
  <1>16. Listed'
    BY <1>1, <1>2 DEF Listed
  <1>17. OwnersAgree'
    BY <1>1, <1>2 DEF OwnersAgree, Matching
  <1>18. CallsAllowed'
    BY <1>1, <1>2 DEF CallsAllowed
  <1>19. WaitersKept'
    BY <1>1, <1>2 DEF WaitersKept, Entry
  <1> QED BY <1>10, <1>11, <1>12, <1>13, <1>14, <1>15, <1>16, <1>17, <1>18, <1>19

\* An entry is added, under the lock and for an address that has none.
LEMMA InsertEntryInv ==
  ASSUME LocksInv, NEW t \in Threads, NEW e \in Entries \ memory, pc[t] = "insert",
         memory' = memory \cup {e}, guest_addr' = [guest_addr EXCEPT ![e] = Wanted(t)],
         owner' = [owner EXCEPT ![e] = None], depth' = [depth EXCEPT ![e] = 0],
         blocked' = [blocked EXCEPT ![e] = {}], entries' = entries \cup {e},
         Found(t, e), UNCHANGED <<op, about, held>>
  PROVE  LocksInv'
  <1> USE DEF LocksInv
  <1>1. /\ Wanted(t) \in Objects /\ Matching(Wanted(t)) = {} /\ op[t] # "destroy"
        /\ e \notin entries /\ e # None
    BY InCall, LocksAssumption DEF ListsSound
  <1>3. /\ \A u \in Threads \ {t} : pc'[u] = pc[u] /\ got'[u] = got[u]
        /\ pc'[t] = IF Len(got[t]) + 1 = Len(about[t]) THEN "use" ELSE "enter"
        /\ pc' \in [Threads -> {"idle", "enter", "scan", "insert", "use", "blocked", "woken", "relock"}]
        /\ got' \in [Threads -> Seq(Entries \cup {None})]
        /\ Len(got'[t]) = Len(got[t]) + 1 /\ got'[t][Len(got[t]) + 1] = e
        /\ \A i \in 1 .. Len(got[t]) : got'[t][i] = got[t][i]
    BY FoundFacts
  <1>10. TypeOK'
    <2>1. mutex_lock' \in {mutex_lock, None} /\ cond_lock' \in {cond_lock, None}
      BY DEF Found, Take
    <2> QED BY <1>1, <1>3, <2>1, LocksAssumption DEF TypeOK
  <1>11. CallShape'
    BY <1>1, <1>3 DEF TypeOK, CallShape
  <1>12. ListsSound'
    <2>1. entries' \subseteq memory' /\ \A f \in entries' : guest_addr'[f] \in Objects
      BY <1>1 DEF ListsSound, TypeOK
    <2>2. ASSUME NEW f \in entries, guest_addr[f] = Wanted(t) PROVE FALSE
      BY <1>1, <2>2 DEF Matching
    <2>3. ASSUME NEW f \in entries', NEW g \in entries', guest_addr'[f] = guest_addr'[g] PROVE f = g
      BY <1>1, <2>2, <2>3 DEF ListsSound, TypeOK
    <2>4. ASSUME NEW u \in Threads, pc'[u] = "insert" PROVE op'[u] # "destroy" /\ Matching(Wanted(u))' = {}
      <3>1. u # t /\ pc[u] = "insert" /\ Wanted(u)' = Wanted(u)
        BY <1>3, <2>4 DEF Wanted
      <3>2. Wanted(u) # Wanted(t)
        BY <3>1 DEF RegistryHeld, LockOf
      <3>3. op[u] # "destroy" /\ Matching(Wanted(u)) = {}
        BY <3>1 DEF ListsSound
      <3> QED BY <1>1, <3>1, <3>2, <3>3 DEF Matching, TypeOK
    <2> QED BY <2>1, <2>3, <2>4 DEF ListsSound
  <1>13. RegistryHeld'
    BY <1>1, <1>3, ListReleased DEF NoMemory
  <1>14. MadeAlone'
    <2> SUFFICES ASSUME NEW w \in Threads, pc'[w] # "idle", op[w] \in {"init", "destroy"}
                 PROVE  /\ \A u \in Threads \ {w} : about[w][1] \in Range(about[u]) =>
                             about[w][1] \in Conds /\ pc'[u] \in {"woken", "relock"}
                        /\ about[w][1] \in Mutexes => \A u \in Threads : held[about[w][1]][u] = 0
      BY <1>1, <1>3 DEF MadeAlone
    <2>1. pc[w] # "idle"
      BY <1>1, <1>3
    <2> QED BY <1>1, <1>3, <2>1 DEF MadeAlone
  <1>15. HostIsLive'
    <2> SUFFICES ASSUME NEW u \in Threads, NEW i \in 1 .. Len(got'[u]), got'[u][i] # None,
                        ~(i = 1 /\ pc'[u] = "relock")
                 PROVE  got'[u][i] \in memory' /\ guest_addr'[got'[u][i]] = about[u][i]
      BY <1>1, <1>3, InRange DEF HostIsLive
    <2>1. CASE u = t /\ i = Len(got[t]) + 1
      BY <1>1, <1>3, <2>1 DEF ListsSound, Wanted, TypeOK
    <2>2. CASE ~(u = t /\ i = Len(got[t]) + 1)
      <3>1. i \in 1 .. Len(got[u]) /\ got'[u][i] = got[u][i]
        BY <1>1, <1>3, <2>2
      <3>2. ~(i = 1 /\ pc[u] = "relock")
        BY <1>1, <1>3
      <3>3. got[u][i] \in memory /\ guest_addr[got[u][i]] = about[u][i]
        BY <3>1, <3>2 DEF HostIsLive
      <3> QED BY <1>1, <1>3, <3>1, <3>3 DEF TypeOK
    <2> QED BY <2>1, <2>2
  <1>16. Listed'
    <2> SUFFICES ASSUME NEW u \in Threads, NEW i \in 1 .. Len(got'[u])
                 PROVE  /\ op[u] = "destroy" => got'[u][i] # None /\ got'[u][i] \notin entries'
                        /\ op[u] # "destroy" /\ got'[u][i] # None
                             /\ ~(i = 1 /\ pc'[u] \in {"woken", "relock"}) => got'[u][i] \in entries'
      BY <1>1, <1>3, InRange DEF Listed
    <2>1. CASE u = t /\ i = Len(got[t]) + 1
      BY <1>1, <1>3, <2>1
    <2>2. CASE ~(u = t /\ i = Len(got[t]) + 1)
      <3>1. i \in 1 .. Len(got[u]) /\ got'[u][i] = got[u][i]
        BY <1>3, <2>2
      <3>2. ~(i = 1 /\ pc'[u] \in {"woken", "relock"}) => ~(i = 1 /\ pc[u] \in {"woken", "relock"})
        BY <1>3
      <3>3. ASSUME got[u][i] # None, op[u] = "destroy" PROVE got[u][i] \in memory
        BY <3>1, <3>3 DEF HostIsLive, CallShape
      <3> QED BY <1>1, <3>1, <3>2, <3>3 DEF Listed
    <2> QED BY <2>1, <2>2
  <1>17. OwnersAgree'
    <2>1. ASSUME NEW m \in Mutexes, Matching(m)' = {} PROVE Matching(m) = {}
      BY <1>1, <2>1 DEF Matching, TypeOK
    <2>2. ASSUME NEW f \in entries', guest_addr'[f] \in Mutexes
          PROVE  /\ owner'[f] = None <=> depth'[f] = 0
                 /\ \A u \in Threads : held[guest_addr'[f]][u] = IF owner'[f] = u THEN depth'[f] ELSE 0
      <3>1. CASE f = e
        BY <1>1, <2>2, <3>1 DEF OwnersAgree, TypeOK
      <3>2. CASE f # e
        BY <2>2, <3>2 DEF OwnersAgree, TypeOK
      <3> QED BY <3>1, <3>2
    <2> QED BY <2>1, <2>2 DEF OwnersAgree
  <1>18. CallsAllowed'
    BY <1>1, <1>3 DEF CallsAllowed
  <1>19. WaitersKept'
    <2>1. ASSUME NEW u \in Threads PROVE pc'[u] = "blocked" <=> pc[u] = "blocked"
      BY <1>1, <1>3
    <2>2. ASSUME NEW u \in Threads, pc[u] = "blocked"
          PROVE  Entry(u)' = Entry(u) /\ Entry(u) \in Entries /\ Entry(u) # e
      <3>1. Entry(u)' = Entry(u)
        BY <1>1, <1>3, <2>2 DEF Entry
      <3>2. Len(about[u]) = 2 /\ Len(got[u]) = 2 /\ None \notin Range(got[u])
        BY <2>2, InCall DEF CallShape
      <3>3. got[u] \in Seq(Entries \cup {None}) /\ 1 \in DOMAIN got[u] /\ got[u][1] # None
        <4>1. got[u] \in Seq(Entries \cup {None})
          BY DEF TypeOK
        <4>2. 1 \in 1 .. Len(got[u]) /\ DOMAIN got[u] = 1 .. Len(got[u])
          BY <3>2, <4>1
        <4>3. got[u][1] \in Range(got[u])
          BY <4>1, <4>2, InRange
        <4> QED BY <3>2, <4>1, <4>2, <4>3
      <3>4. got[u][1] \in memory
        BY <2>2, <3>3 DEF HostIsLive
      <3> QED BY <3>1, <3>4 DEF Entry, TypeOK
    <2> QED BY <1>1, <1>3, <2>1, <2>2 DEF WaitersKept, TypeOK
  <1> QED BY <1>10, <1>11, <1>12, <1>13, <1>14, <1>15, <1>16, <1>17, <1>18, <1>19

\* There is no memory for an entry.
LEMMA InsertFailsInv ==
  ASSUME LocksInv, NEW t \in Threads, pc[t] = "insert", NoMemory(t),
         UNCHANGED <<memory, guest_addr, entries, host, op, about, held>>
  PROVE  LocksInv'
  <1> USE DEF LocksInv
  <1>1. /\ op[t] # "destroy"
        /\ UNCHANGED <<memory, guest_addr, entries, owner, depth, blocked, op, about, held>>
    BY DEF ListsSound, host
  <1>3. /\ \A u \in Threads \ {t} : pc'[u] = pc[u] /\ got'[u] = got[u]
        /\ pc'[t] = IF Len(got[t]) + 1 = Len(about[t]) THEN "use" ELSE "enter"
        /\ pc' \in [Threads -> {"idle", "enter", "scan", "insert", "use", "blocked", "woken", "relock"}]
        /\ got' \in [Threads -> Seq(Entries \cup {None})]
        /\ Len(got'[t]) = Len(got[t]) + 1 /\ got'[t][Len(got[t]) + 1] = None
        /\ \A i \in 1 .. Len(got[t]) : got'[t][i] = got[t][i]
    BY FoundFacts DEF NoMemory
  <1>10. TypeOK'
    <2>1. mutex_lock' \in {mutex_lock, None} /\ cond_lock' \in {cond_lock, None}
      BY DEF Found, Take, NoMemory
    <2> QED BY <1>1, <1>3, <2>1 DEF TypeOK
  <1>11. CallShape'
    BY <1>1, <1>3 DEF TypeOK, CallShape
  <1>12. ListsSound'
    <2>1. ASSUME NEW u \in Threads, pc'[u] = "insert" PROVE op'[u] # "destroy" /\ Matching(Wanted(u))' = {}
      <3>1. u # t /\ pc[u] = "insert" /\ Wanted(u)' = Wanted(u)
        BY <1>1, <1>3, <2>1 DEF Wanted
      <3> QED BY <1>1, <3>1 DEF ListsSound, Matching
    <2> QED BY <1>1, <2>1 DEF ListsSound
  <1>13. RegistryHeld'
    BY <1>1, <1>3, ListReleased DEF NoMemory
  <1>14. MadeAlone'
    <2> SUFFICES ASSUME NEW w \in Threads, pc'[w] # "idle", op[w] \in {"init", "destroy"}
                 PROVE  /\ \A u \in Threads \ {w} : about[w][1] \in Range(about[u]) =>
                             about[w][1] \in Conds /\ pc'[u] \in {"woken", "relock"}
                        /\ about[w][1] \in Mutexes => \A u \in Threads : held[about[w][1]][u] = 0
      BY <1>1, <1>3 DEF MadeAlone
    <2>1. pc[w] # "idle"
      BY <1>1, <1>3
    <2> QED BY <1>1, <1>3, <2>1 DEF MadeAlone
  <1>15. HostIsLive'
    <2> SUFFICES ASSUME NEW u \in Threads, NEW i \in 1 .. Len(got'[u]), got'[u][i] # None,
                        ~(i = 1 /\ pc'[u] = "relock")
                 PROVE  got'[u][i] \in memory' /\ guest_addr'[got'[u][i]] = about[u][i]
      BY <1>1, <1>3, InRange DEF HostIsLive
    <2>1. CASE u = t /\ i = Len(got[t]) + 1
      BY <1>1, <1>3, <2>1 DEF ListsSound, Wanted, TypeOK
    <2>2. CASE ~(u = t /\ i = Len(got[t]) + 1)
      <3>1. i \in 1 .. Len(got[u]) /\ got'[u][i] = got[u][i]
        BY <1>1, <1>3, <2>2
      <3>2. ~(i = 1 /\ pc[u] = "relock")
        BY <1>1, <1>3
      <3>3. got[u][i] \in memory /\ guest_addr[got[u][i]] = about[u][i]
        BY <3>1, <3>2 DEF HostIsLive
      <3> QED BY <1>1, <1>3, <3>1, <3>3 DEF TypeOK
    <2> QED BY <2>1, <2>2
  <1>16. Listed'
    <2> SUFFICES ASSUME NEW u \in Threads, NEW i \in 1 .. Len(got'[u])
                 PROVE  /\ op[u] = "destroy" => got'[u][i] # None /\ got'[u][i] \notin entries'
                        /\ op[u] # "destroy" /\ got'[u][i] # None
                             /\ ~(i = 1 /\ pc'[u] \in {"woken", "relock"}) => got'[u][i] \in entries'
      BY <1>1, <1>3, InRange DEF Listed
    <2>1. CASE u = t /\ i = Len(got[t]) + 1
      BY <1>1, <1>3, <2>1
    <2>2. CASE ~(u = t /\ i = Len(got[t]) + 1)
      <3>1. i \in 1 .. Len(got[u]) /\ got'[u][i] = got[u][i]
        BY <1>3, <2>2
      <3>2. ~(i = 1 /\ pc'[u] \in {"woken", "relock"}) => ~(i = 1 /\ pc[u] \in {"woken", "relock"})
        BY <1>3
      <3>3. ASSUME got[u][i] # None, op[u] = "destroy" PROVE got[u][i] \in memory
        BY <3>1, <3>3 DEF HostIsLive, CallShape
      <3> QED BY <1>1, <3>1, <3>2, <3>3 DEF Listed
    <2> QED BY <2>1, <2>2
  <1>17. OwnersAgree'
    BY <1>1 DEF OwnersAgree, Matching
  <1>18. CallsAllowed'
    BY <1>1, <1>3 DEF CallsAllowed
  <1>19. WaitersKept'
    BY <1>1, <1>3, WaitersUntouched
  <1> QED BY <1>10, <1>11, <1>12, <1>13, <1>14, <1>15, <1>16, <1>17, <1>18, <1>19

\* A host mutex is locked once more by the thread that may.
LEMMA LockInv ==
  ASSUME LocksInv, NEW t \in Threads, Lock(t)
  PROVE  LocksInv'
  <1> USE DEF LocksInv
  <1>1. /\ pc[t] = "use" /\ op[t] \in {"lock", "trylock"} /\ Entry(t) # None
        /\ Deepen(t, Entry(t)) /\ Holds(t, about[t][1], 1) /\ Return(t)
        /\ UNCHANGED <<memory, guest_addr, entries, mutex_lock, cond_lock, blocked>>
    BY DEF Lock, Using, registry
  <1>2. /\ about[t][1] \in Mutexes /\ about[t][1] \in Range(about[t]) /\ 1 \in 1 .. Len(got[t])
        /\ held[about[t][1]][t] < MaxDepth
    BY <1>1, InCall DEF CallShape, CallsAllowed
  <1>3. Entry(t) \in entries /\ guest_addr[Entry(t)] = about[t][1]
    BY <1>1, <1>2, MutexFound DEF Entry
  <1>4. /\ OwnersAgree'
        /\ owner' \in [Entries -> Threads \cup {None}] /\ depth' \in [Entries -> 0 .. MaxDepth]
        /\ held' \in [Mutexes -> [Threads -> 0 .. MaxDepth]]
        /\ \A n \in Mutexes : \A u \in Threads :
             held'[n][u] = IF n = about[t][1] /\ u = t THEN held[n][u] + 1 ELSE held[n][u]
    BY <1>1, <1>2, <1>3, LockedOnceMore
  <1>5. /\ \A u \in Threads \ {t} : /\ pc'[u] = pc[u] /\ got'[u] = got[u]
                                    /\ op'[u] = op[u] /\ about'[u] = about[u]
        /\ pc'[t] = "idle" /\ got'[t] = << >> /\ about'[t] = << >>
    BY <1>1 DEF Return, TypeOK
  <1>10. TypeOK'
    BY <1>1, <1>4 DEF TypeOK, Return
  <1>11. CallShape'
    BY <1>1, <1>5 DEF CallShape
  <1>12. ListsSound'
    BY <1>1, <1>5 DEF ListsSound, Matching, Wanted
  <1>13. RegistryHeld'
    BY <1>1, <1>5 DEF RegistryHeld, LockOf, Wanted, TypeOK
  <1>14. MadeAlone'
    <2> SUFFICES ASSUME NEW w \in Threads, pc'[w] # "idle", op'[w] \in {"init", "destroy"}
                 PROVE  /\ \A u \in Threads \ {w} : about'[w][1] \in Range(about'[u]) =>
                             about'[w][1] \in Conds /\ pc'[u] \in {"woken", "relock"}
                        /\ about'[w][1] \in Mutexes => \A u \in Threads : held'[about'[w][1]][u] = 0
      BY DEF MadeAlone
    <2>1. w # t /\ about'[w] = about[w] /\ pc[w] # "idle" /\ op[w] \in {"init", "destroy"}
      BY <1>5
    <2>2. about[w][1] # about[t][1]
      BY <1>1, <1>2, <2>1, NotMade
    <2>3. \A u \in Threads \ {w} : about[w][1] \in Range(about'[u]) =>
            about[w][1] \in Conds /\ pc'[u] \in {"woken", "relock"}
      BY <1>5, <2>1, EmptyRange DEF MadeAlone
    <2>4. about[w][1] \in Mutexes => \A u \in Threads : held'[about[w][1]][u] = held[about[w][1]][u]
      BY <1>4, <2>2
    <2> QED BY <2>1, <2>3, <2>4 DEF MadeAlone
  <1>15. HostIsLive'
    BY <1>1, <1>5 DEF HostIsLive
  <1>16. Listed'
    BY <1>1, <1>5 DEF Listed
  <1>17. OwnersAgree'
    BY <1>4
  <1>18. CallsAllowed'
    <2>1. \A u \in Threads \ {t} : \A n \in Mutexes : held'[n][u] = held[n][u]
      BY <1>4
    <2>2. ASSUME NEW u \in Threads \ {t}, pc[u] \in {"enter", "scan", "insert", "use"}
          PROVE  /\ op[u] \in {"lock", "trylock"} => held'[about[u][1]][u] < MaxDepth
                 /\ op[u] = "unlock" => held'[about[u][1]][u] > 0
                 /\ op[u] = "wait" => held'[about[u][2]][u] = 1
      BY <2>1, <2>2, InCall DEF CallsAllowed
    <2>3. ASSUME NEW u \in Threads \ {t}, pc[u] \in {"blocked", "woken", "relock"}
          PROVE  held'[about[u][2]][u] = 0
      BY <2>1, <2>3, InCall DEF CallsAllowed, CallShape
    <2> QED BY <1>5, <2>2, <2>3 DEF CallsAllowed
  <1>19. WaitersKept'
    BY <1>1, <1>5, WaitersUntouched
  <1> QED BY <1>10, <1>11, <1>12, <1>13, <1>14, <1>15, <1>16, <1>17, <1>18, <1>19

\* A host mutex is unlocked by its owner.
LEMMA UnlockInv ==
  ASSUME LocksInv, NEW t \in Threads, Unlock(t)
  PROVE  LocksInv'
  <1> USE DEF LocksInv
  <1>1. /\ pc[t] = "use" /\ op[t] = "unlock" /\ Entry(t) # None
        /\ Undo(t, Entry(t)) /\ Holds(t, about[t][1], -1) /\ Return(t)
        /\ UNCHANGED <<memory, guest_addr, entries, mutex_lock, cond_lock, blocked>>
    BY DEF Unlock, Using, registry
  <1>2. /\ about[t][1] \in Mutexes /\ about[t][1] \in Range(about[t]) /\ 1 \in 1 .. Len(got[t])
        /\ held[about[t][1]][t] > 0
    BY <1>1, InCall DEF CallShape, CallsAllowed
  <1>3. Entry(t) \in entries /\ guest_addr[Entry(t)] = about[t][1]
    BY <1>1, <1>2, MutexFound DEF Entry
  <1>4. /\ OwnersAgree'
        /\ owner' \in [Entries -> Threads \cup {None}] /\ depth' \in [Entries -> 0 .. MaxDepth]
        /\ held' \in [Mutexes -> [Threads -> 0 .. MaxDepth]]
        /\ \A n \in Mutexes : \A u \in Threads :
             held'[n][u] = IF n = about[t][1] /\ u = t THEN held[n][u] - 1 ELSE held[n][u]
    BY <1>1, <1>2, <1>3, LockedOnceLess
  <1>5. /\ \A u \in Threads \ {t} : /\ pc'[u] = pc[u] /\ got'[u] = got[u]
                                    /\ op'[u] = op[u] /\ about'[u] = about[u]
        /\ pc'[t] = "idle" /\ got'[t] = << >> /\ about'[t] = << >>
    BY <1>1 DEF Return, TypeOK
  <1>10. TypeOK'
    BY <1>1, <1>4 DEF TypeOK, Return
  <1>11. CallShape'
    BY <1>1, <1>5 DEF CallShape
  <1>12. ListsSound'
    BY <1>1, <1>5 DEF ListsSound, Matching, Wanted
  <1>13. RegistryHeld'
    BY <1>1, <1>5 DEF RegistryHeld, LockOf, Wanted, TypeOK
  <1>14. MadeAlone'
    <2> SUFFICES ASSUME NEW w \in Threads, pc'[w] # "idle", op'[w] \in {"init", "destroy"}
                 PROVE  /\ \A u \in Threads \ {w} : about'[w][1] \in Range(about'[u]) =>
                             about'[w][1] \in Conds /\ pc'[u] \in {"woken", "relock"}
                        /\ about'[w][1] \in Mutexes => \A u \in Threads : held'[about'[w][1]][u] = 0
      BY DEF MadeAlone
    <2>1. w # t /\ about'[w] = about[w] /\ pc[w] # "idle" /\ op[w] \in {"init", "destroy"}
      BY <1>5
    <2>2. about[w][1] # about[t][1]
      BY <1>1, <1>2, <2>1, NotMade
    <2>3. \A u \in Threads \ {w} : about[w][1] \in Range(about'[u]) =>
            about[w][1] \in Conds /\ pc'[u] \in {"woken", "relock"}
      BY <1>5, <2>1, EmptyRange DEF MadeAlone
    <2>4. about[w][1] \in Mutexes => \A u \in Threads : held'[about[w][1]][u] = held[about[w][1]][u]
      BY <1>4, <2>2
    <2> QED BY <2>1, <2>3, <2>4 DEF MadeAlone
  <1>15. HostIsLive'
    BY <1>1, <1>5 DEF HostIsLive
  <1>16. Listed'
    BY <1>1, <1>5 DEF Listed
  <1>17. OwnersAgree'
    BY <1>4
  <1>18. CallsAllowed'
    <2>1. \A u \in Threads \ {t} : \A n \in Mutexes : held'[n][u] = held[n][u]
      BY <1>4
    <2>2. ASSUME NEW u \in Threads \ {t}, pc[u] \in {"enter", "scan", "insert", "use"}
          PROVE  /\ op[u] \in {"lock", "trylock"} => held'[about[u][1]][u] < MaxDepth
                 /\ op[u] = "unlock" => held'[about[u][1]][u] > 0
                 /\ op[u] = "wait" => held'[about[u][2]][u] = 1
      BY <2>1, <2>2, InCall DEF CallsAllowed
    <2>3. ASSUME NEW u \in Threads \ {t}, pc[u] \in {"blocked", "woken", "relock"}
          PROVE  held'[about[u][2]][u] = 0
      BY <2>1, <2>3, InCall DEF CallsAllowed, CallShape
    <2> QED BY <1>5, <2>2, <2>3 DEF CallsAllowed
  <1>19. WaitersKept'
    BY <1>1, <1>5, WaitersUntouched
  <1> QED BY <1>10, <1>11, <1>12, <1>13, <1>14, <1>15, <1>16, <1>17, <1>18, <1>19

\* The entry is freed: it is on no list and no other call uses it.
LEMMA DestroyInv ==
  ASSUME LocksInv, NEW t \in Threads, Destroy(t)
  PROVE  LocksInv'
  <1> USE DEF LocksInv
  <1>1. /\ pc[t] = "use" /\ op[t] = "destroy" /\ memory' = memory \ {Entry(t)}
        /\ \A u \in Threads : pc[u] = "woken" => got[u][1] # Entry(t)
        /\ UNCHANGED <<guest_addr, entries, mutex_lock, cond_lock, owner, depth, blocked, held>>
    BY DEF Destroy, Using, host
  <1>2. /\ \A u \in Threads \ {t} : /\ pc'[u] = pc[u] /\ got'[u] = got[u]
                                    /\ op'[u] = op[u] /\ about'[u] = about[u]
        /\ pc'[t] = "idle" /\ got'[t] = << >> /\ about'[t] = << >>
    BY DEF Destroy, Return, TypeOK
  <1>3. /\ Entry(t) \notin entries /\ Entry(t) \in memory
        /\ guest_addr[Entry(t)] = about[t][1] /\ about[t][1] \in Objects
    BY <1>1, InCall DEF Entry, CallShape, Listed, HostIsLive
  <1>10. TypeOK'
    BY <1>1 DEF TypeOK, Destroy, Return
  <1>11. CallShape'
    BY <1>1, <1>2 DEF CallShape
  <1>12. ListsSound'
    BY <1>1, <1>2, <1>3 DEF ListsSound, Matching, Wanted
  <1>13. RegistryHeld'
    BY <1>1, <1>2 DEF RegistryHeld, LockOf, Wanted, TypeOK
  <1>14. MadeAlone'
    BY <1>1, <1>2, EmptyRange DEF MadeAlone
  <1>15. HostIsLive'
    <2> SUFFICES ASSUME NEW u \in Threads \ {t}, NEW i \in 1 .. Len(got[u]), got[u][i] # None,
                        ~(i = 1 /\ pc[u] = "relock")
                 PROVE  got[u][i] \in memory' /\ guest_addr[got[u][i]] = about[u][i]
      BY <1>1, <1>2 DEF HostIsLive
    <2>1. got[u][i] \in memory /\ guest_addr[got[u][i]] = about[u][i]
      BY DEF HostIsLive
    <2>2. ASSUME got[u][i] = Entry(t) PROVE FALSE
      <3>1. about[u][i] = about[t][1] /\ pc[u] # "idle" /\ i \in 1 .. Len(about[u])
        BY <1>3, <2>1, <2>2 DEF CallShape, TypeOK
      <3>2. about[u][i] \in Conds /\ pc[u] \in {"woken", "relock"}
        BY <1>1, <3>1, InCall DEF MadeAlone
      <3>3. i = 1
        BY <3>1, <3>2, InCall, LocksAssumption DEF CallShape
      <3> QED BY <1>1, <2>2, <3>2, <3>3
    <2> QED BY <1>1, <2>1, <2>2
  <1>16. Listed'
    BY <1>1, <1>2 DEF Listed
  <1>17. OwnersAgree'
    BY <1>1 DEF OwnersAgree, Matching
  <1>18. CallsAllowed'
    BY <1>1, <1>2 DEF CallsAllowed
  <1>19. WaitersKept'
    BY <1>1, <1>2, WaitersUntouched
  <1> QED BY <1>10, <1>11, <1>12, <1>13, <1>14, <1>15, <1>16, <1>17, <1>18, <1>19

\* The mutex is released and the thread is blocked.
LEMMA WaitInv ==
  ASSUME LocksInv, NEW t \in Threads, Wait(t)
  PROVE  LocksInv'
  <1> USE DEF LocksInv
  <1>1. /\ pc[t] = "use" /\ op[t] = "wait" /\ None \notin Range(got[t])
        /\ Undo(t, got[t][2]) /\ Holds(t, about[t][2], -1)
        /\ blocked' = [blocked EXCEPT ![Entry(t)] = @ \cup {t}]
        /\ pc' = [pc EXCEPT ![t] = "blocked"]
        /\ UNCHANGED <<memory, guest_addr, entries, mutex_lock, cond_lock, op, about, got>>
    BY DEF Wait, Using, registry
  <1>2. /\ about[t][2] \in Mutexes /\ about[t][2] \in Range(about[t])
        /\ 1 \in 1 .. Len(got[t]) /\ 2 \in 1 .. Len(got[t]) /\ got[t][1] # None /\ got[t][2] # None
        /\ held[about[t][2]][t] = 1
    <2>1. Len(got[t]) = 2 /\ Len(about[t]) = 2 /\ about[t][2] \in Mutexes
      BY <1>1, InCall DEF CallShape
    <2>2. got[t][1] # None /\ got[t][2] # None
      BY <1>1, <2>1, InGot
    <2> QED BY <1>1, <2>1, <2>2, InCall DEF CallsAllowed
  <1>3. got[t][2] \in entries /\ guest_addr[got[t][2]] = about[t][2] /\ Entry(t) \in Entries
    <2>1. Entry(t) \in Entries
      BY <1>2 DEF Entry, TypeOK
    <2> QED BY <1>1, <1>2, <2>1, MutexFound
  <1>4. /\ OwnersAgree'
        /\ owner' \in [Entries -> Threads \cup {None}] /\ depth' \in [Entries -> 0 .. MaxDepth]
        /\ held' \in [Mutexes -> [Threads -> 0 .. MaxDepth]]
        /\ \A n \in Mutexes : \A u \in Threads :
             held'[n][u] = IF n = about[t][2] /\ u = t THEN held[n][u] - 1 ELSE held[n][u]
    BY <1>1, <1>2, <1>3, LockedOnceLess
  <1>5. pc'[t] = "blocked" /\ \A u \in Threads \ {t} : pc'[u] = pc[u]
    BY <1>1 DEF TypeOK
  <1>10. TypeOK'
    BY <1>1, <1>3, <1>4 DEF TypeOK
  <1>11. CallShape'
    BY <1>1, <1>5 DEF CallShape
  <1>12. ListsSound'
    BY <1>1, <1>5 DEF ListsSound, Matching, Wanted
  <1>13. RegistryHeld'
    BY <1>1, <1>5 DEF RegistryHeld, LockOf, Wanted, TypeOK
  <1>14. MadeAlone'
    <2> SUFFICES ASSUME NEW w \in Threads, pc'[w] # "idle", op[w] \in {"init", "destroy"}
                 PROVE  /\ \A u \in Threads \ {w} : about[w][1] \in Range(about[u]) =>
                             about[w][1] \in Conds /\ pc'[u] \in {"woken", "relock"}
                        /\ about[w][1] \in Mutexes => \A u \in Threads : held'[about[w][1]][u] = 0
      BY <1>1 DEF MadeAlone
    <2>1. w # t /\ pc[w] # "idle"
      BY <1>1, <1>5
    <2>2. about[w][1] # about[t][2]
      BY <1>1, <1>2, <2>1, NotMade
    <2> QED BY <1>1, <1>4, <1>5, <2>1, <2>2 DEF MadeAlone
  <1>15. HostIsLive'
    BY <1>1, <1>5 DEF HostIsLive
  <1>16. Listed'
    BY <1>1, <1>5 DEF Listed
  <1>17. OwnersAgree'
    BY <1>4
  <1>18. CallsAllowed'
    <2>1. \A u \in Threads \ {t} : \A n \in Mutexes : held'[n][u] = held[n][u]
      BY <1>4
    <2>2. held'[about[t][2]][t] = 0
      BY <1>2, <1>4
    <2> QED BY <1>1, <1>5, <2>1, <2>2, InCall DEF CallsAllowed, CallShape
  <1>19. WaitersKept'
    <2>1. Entry(t) \in Entries /\ \A u \in Threads : Entry(u)' = Entry(u)
      BY <1>1, <1>3 DEF Entry
    <2>2. /\ blocked'[Entry(t)] = blocked[Entry(t)] \cup {t}
          /\ \A e \in Entries \ {Entry(t)} : blocked'[e] = blocked[e]
      BY <1>1, <2>1 DEF TypeOK
    <2>3. \A e \in Entries : t \notin blocked[e]
      BY <1>1 DEF WaitersKept
    <2>4. ASSUME NEW u \in Threads, pc'[u] = "blocked" PROVE u \in blocked'[Entry(u)]
      <3>1. CASE u = t
        BY <2>2, <3>1
      <3>2. CASE u # t
        <4>1. pc[u] = "blocked" /\ u \in blocked[Entry(u)]
          BY <1>5, <2>4, <3>2 DEF WaitersKept
        <4>2. Entry(u) \in Entries
          BY <4>1, InCall, InGot DEF Entry, CallShape
        <4> QED BY <2>2, <4>1, <4>2
      <3> QED BY <3>1, <3>2
    <2>5. ASSUME NEW e \in Entries, NEW u \in blocked'[e] PROVE pc'[u] = "blocked" /\ Entry(u) = e
      <3>1. CASE e = Entry(t) /\ u = t
        BY <1>5, <3>1
      <3>2. CASE ~(e = Entry(t) /\ u = t)
        <4>1. u \in blocked[e]
          BY <2>2, <2>5, <3>2
        <4>2. u \in Threads /\ pc[u] = "blocked" /\ Entry(u) = e
          BY <4>1 DEF WaitersKept, TypeOK
        <4> QED BY <1>1, <1>5, <4>2
      <3> QED BY <3>1, <3>2
    <2>6. \A e \in Entries : blocked'[e] \subseteq Threads
      BY <2>2 DEF TypeOK
    <2> QED BY <2>1, <2>4, <2>5, <2>6 DEF WaitersKept
  <1> QED BY <1>10, <1>11, <1>12, <1>13, <1>14, <1>15, <1>16, <1>17, <1>18, <1>19

\* Blocked threads are woken.
LEMMA SignalInv ==
  ASSUME LocksInv, NEW t \in Threads, Signal(t)
  PROVE  LocksInv'
  <1> USE DEF LocksInv
  <1>1. PICK woken \in Wakes(t) :
          /\ blocked' = [blocked EXCEPT ![Entry(t)] = @ \ woken]
          /\ pc' = [u \in Threads |-> IF u \in woken THEN "woken"
                                      ELSE IF u = t THEN "idle" ELSE pc[u]]
    BY DEF Signal
  <1>2. /\ pc[t] = "use" /\ op[t] \in {"signal", "broadcast"} /\ Entry(t) # None
        /\ op' = [op EXCEPT ![t] = None]
        /\ about' = [about EXCEPT ![t] = << >>] /\ got' = [got EXCEPT ![t] = << >>]
        /\ UNCHANGED <<memory, guest_addr, entries, mutex_lock, cond_lock, owner, depth, held>>
    BY DEF Signal, Using, registry
  <1>3. Entry(t) \in Entries
    BY <1>2, InCall, InGot DEF Entry, CallShape
  <1>4. woken \subseteq blocked[Entry(t)]
    BY <1>1 DEF Wakes
  <1>5. \A u \in woken : u \in Threads /\ u # t /\ pc[u] = "blocked" /\ Entry(u) = Entry(t)
    BY <1>2, <1>3, <1>4 DEF WaitersKept, TypeOK
  <1>6. /\ pc'[t] = "idle" /\ got'[t] = << >> /\ about'[t] = << >>
        /\ \A u \in Threads \ {t} : /\ pc'[u] = IF u \in woken THEN "woken" ELSE pc[u]
                                    /\ got'[u] = got[u] /\ op'[u] = op[u] /\ about'[u] = about[u]
    BY <1>1, <1>2, <1>5 DEF TypeOK
  <1>10. TypeOK'
    <2>1. pc' \in [Threads -> {"idle", "enter", "scan", "insert", "use", "blocked", "woken", "relock"}]
      BY <1>1 DEF TypeOK
    <2>2. blocked' \in [Entries -> SUBSET Threads]
      BY <1>1, <1>3 DEF TypeOK
    <2>3. /\ op' \in [Threads -> Ops \cup {None}] /\ about' \in [Threads -> Seq(Objects)]
          /\ got' \in [Threads -> Seq(Entries \cup {None})]
      BY <1>2 DEF TypeOK
    <2> QED BY <1>2, <2>1, <2>2, <2>3 DEF TypeOK
  <1>11. CallShape'
    BY <1>2, <1>5, <1>6 DEF CallShape
  <1>12. ListsSound'
    BY <1>2, <1>6 DEF ListsSound, Matching, Wanted
  <1>13. RegistryHeld'
    <2>1. \A u \in Threads : pc'[u] \in {"scan", "insert"} <=> u # t /\ pc[u] \in {"scan", "insert"}
      BY <1>5, <1>6
    <2>2. \A u \in Threads \ {t} : Wanted(u)' = Wanted(u)
      BY <1>6 DEF Wanted
    <2> QED BY <1>2, <2>1, <2>2 DEF RegistryHeld, LockOf, TypeOK
  <1>14. MadeAlone'
    <2> SUFFICES ASSUME NEW w \in Threads, pc'[w] # "idle", op'[w] \in {"init", "destroy"}
                 PROVE  /\ \A u \in Threads \ {w} : about'[w][1] \in Range(about'[u]) =>
                             about'[w][1] \in Conds /\ pc'[u] \in {"woken", "relock"}
                        /\ about'[w][1] \in Mutexes => \A u \in Threads : held[about'[w][1]][u] = 0
      BY <1>2 DEF MadeAlone
    <2>1. w # t /\ pc[w] # "idle" /\ op[w] \in {"init", "destroy"} /\ about'[w] = about[w]
      BY <1>5, <1>6
    <2> QED BY <1>6, <2>1, EmptyRange DEF MadeAlone
  <1>15. HostIsLive'
    BY <1>2, <1>5, <1>6 DEF HostIsLive
  <1>16. Listed'
    BY <1>2, <1>5, <1>6 DEF Listed
  <1>17. OwnersAgree'
    BY <1>2 DEF OwnersAgree, Matching
  <1>18. CallsAllowed'
    BY <1>2, <1>5, <1>6 DEF CallsAllowed
  <1>19. WaitersKept'
    <2>1. /\ blocked'[Entry(t)] = blocked[Entry(t)] \ woken
          /\ \A e \in Entries \ {Entry(t)} : blocked'[e] = blocked[e]
      BY <1>1, <1>3 DEF TypeOK
    <2>2. ASSUME NEW u \in Threads \ {t} PROVE Entry(u)' = Entry(u)
      BY <1>6 DEF Entry
    <2>3. ASSUME NEW u \in Threads, pc'[u] = "blocked" PROVE u # t /\ u \in blocked'[Entry(u)]
      <3>1. u # t /\ u \notin woken /\ pc[u] = "blocked"
        BY <1>6, <2>3
      <3>2. u \in blocked[Entry(u)]
        BY <3>1 DEF WaitersKept
      <3>3. Entry(u) \in Entries
        BY <3>1, InCall, InGot DEF Entry, CallShape
      <3> QED BY <2>1, <3>1, <3>2, <3>3
    <2>4. ASSUME NEW e \in Entries, NEW u \in blocked'[e]
          PROVE  u \in Threads \ {t} /\ pc'[u] = "blocked" /\ Entry(u) = e
      <3>1. u \in blocked[e] /\ u \in Threads /\ pc[u] = "blocked" /\ Entry(u) = e
        BY <2>1 DEF WaitersKept, TypeOK
      <3>2. u \notin woken
        BY <1>5, <2>1, <3>1
      <3> QED BY <1>2, <1>6, <3>1, <3>2
    <2> QED BY <2>2, <2>3, <2>4 DEF WaitersKept
  <1> QED BY <1>10, <1>11, <1>12, <1>13, <1>14, <1>15, <1>16, <1>17, <1>18, <1>19

\* A wait ends by itself.
LEMMA WakeUpInv ==
  ASSUME LocksInv, NEW t \in Threads, WakeUp(t)
  PROVE  LocksInv'
  <1> USE DEF LocksInv
  <1>10. TypeOK'
    BY DEF TypeOK, WakeUp, registry, Entry
  <1>11. CallShape'
    BY DEF TypeOK, WakeUp, registry, Entry, CallShape
  <1>12. ListsSound'
    BY DEF TypeOK, WakeUp, registry, Entry, ListsSound, Matching, Wanted
  <1>13. RegistryHeld'
    BY DEF TypeOK, WakeUp, registry, Entry, RegistryHeld, LockOf, Wanted
  <1>14. MadeAlone'
    BY DEF TypeOK, WakeUp, registry, Entry, MadeAlone
  <1>15. HostIsLive'
    BY DEF TypeOK, WakeUp, registry, Entry, HostIsLive
  <1>16. Listed'
    BY DEF TypeOK, WakeUp, registry, Entry, Listed
  <1>17. OwnersAgree'
    BY DEF WakeUp, registry, Entry, OwnersAgree, Matching
  <1>18. CallsAllowed'
    BY DEF TypeOK, WakeUp, registry, Entry, CallsAllowed
  <1>19. WaitersKept'
    BY DEF TypeOK, WakeUp, registry, Entry, WaitersKept
  <1> QED BY <1>10, <1>11, <1>12, <1>13, <1>14, <1>15, <1>16, <1>17, <1>18, <1>19

\* The condition variable is left; its entry may go from now on.
LEMMA LeaveInv ==
  ASSUME LocksInv, NEW t \in Threads, Leave(t)
  PROVE  LocksInv'
  <1> USE DEF LocksInv
  <1>10. TypeOK'
    BY DEF TypeOK, Leave, registry, host
  <1>11. CallShape'
    BY DEF TypeOK, Leave, registry, host, CallShape
  <1>12. ListsSound'
    BY DEF TypeOK, Leave, registry, host, ListsSound, Matching, Wanted
  <1>13. RegistryHeld'
    BY DEF TypeOK, Leave, registry, host, RegistryHeld, LockOf, Wanted
  <1>14. MadeAlone'
    BY DEF TypeOK, Leave, registry, host, MadeAlone
  <1>15. HostIsLive'
    BY DEF TypeOK, Leave, registry, host, HostIsLive
  <1>16. Listed'
    BY DEF TypeOK, Leave, registry, host, Listed
  <1>17. OwnersAgree'
    BY DEF Leave, registry, host, OwnersAgree, Matching
  <1>18. CallsAllowed'
    BY DEF TypeOK, Leave, registry, host, CallsAllowed
  <1>19. WaitersKept'
    BY DEF TypeOK, Leave, registry, host, WaitersKept, Entry
  <1> QED BY <1>10, <1>11, <1>12, <1>13, <1>14, <1>15, <1>16, <1>17, <1>18, <1>19

\* The mutex is locked again after a wait.
LEMMA RelockInv ==
  ASSUME LocksInv, NEW t \in Threads, Relock(t)
  PROVE  LocksInv'
  <1> USE DEF LocksInv
  <1>1. /\ pc[t] = "relock" /\ got[t][2] # None
        /\ Deepen(t, got[t][2]) /\ Holds(t, about[t][2], 1) /\ Return(t)
        /\ UNCHANGED <<memory, guest_addr, entries, mutex_lock, cond_lock, blocked>>
    <2>1. pc[t] = "relock" /\ Len(got[t]) = 2 /\ None \notin Range(got[t])
      BY InCall DEF Relock, CallShape
    <2>2. got[t][2] # None
      BY <2>1, InGot
    <2> QED BY <2>1, <2>2 DEF Relock, registry
  <1>2. /\ about[t][2] \in Mutexes /\ about[t][2] \in Range(about[t]) /\ 2 \in 1 .. Len(got[t])
        /\ held[about[t][2]][t] < MaxDepth
    BY <1>1, InCall, LocksAssumption DEF CallShape, CallsAllowed
  <1>3. got[t][2] \in entries /\ guest_addr[got[t][2]] = about[t][2]
    BY <1>1, <1>2, MutexFound DEF CallShape
  <1>4. /\ OwnersAgree'
        /\ owner' \in [Entries -> Threads \cup {None}] /\ depth' \in [Entries -> 0 .. MaxDepth]
        /\ held' \in [Mutexes -> [Threads -> 0 .. MaxDepth]]
        /\ \A n \in Mutexes : \A u \in Threads :
             held'[n][u] = IF n = about[t][2] /\ u = t THEN held[n][u] + 1 ELSE held[n][u]
    BY <1>1, <1>2, <1>3, LockedOnceMore
  <1>5. /\ \A u \in Threads \ {t} : /\ pc'[u] = pc[u] /\ got'[u] = got[u]
                                    /\ op'[u] = op[u] /\ about'[u] = about[u]
        /\ pc'[t] = "idle" /\ got'[t] = << >> /\ about'[t] = << >>
    BY <1>1 DEF Return, TypeOK
  <1>10. TypeOK'
    BY <1>1, <1>4 DEF TypeOK, Return
  <1>11. CallShape'
    BY <1>1, <1>5 DEF CallShape
  <1>12. ListsSound'
    <2>1. ASSUME NEW u \in Threads, pc'[u] = "insert" PROVE op'[u] # "destroy" /\ Matching(Wanted(u))' = {}
      <3>1. u # t /\ pc[u] = "insert" /\ Wanted(u)' = Wanted(u)
        BY <1>5, <2>1 DEF Wanted
      <3> QED BY <1>1, <1>5, <3>1 DEF ListsSound, Matching
    <2> QED BY <1>1, <2>1 DEF ListsSound
  <1>13. RegistryHeld'
    BY <1>1, <1>5 DEF RegistryHeld, LockOf, Wanted, TypeOK
  <1>14. MadeAlone'
    <2> SUFFICES ASSUME NEW w \in Threads, pc'[w] # "idle", op'[w] \in {"init", "destroy"}
                 PROVE  /\ \A u \in Threads \ {w} : about'[w][1] \in Range(about'[u]) =>
                             about'[w][1] \in Conds /\ pc'[u] \in {"woken", "relock"}
                        /\ about'[w][1] \in Mutexes => \A u \in Threads : held'[about'[w][1]][u] = 0
      BY DEF MadeAlone
    <2>1. w # t /\ about'[w] = about[w] /\ pc[w] # "idle" /\ op[w] \in {"init", "destroy"}
      BY <1>5
    <2>2. about[w][1] # about[t][2]
      BY <1>1, <1>2, <2>1, NotMade DEF CallShape
    <2>3. \A u \in Threads \ {w} : about[w][1] \in Range(about'[u]) =>
            about[w][1] \in Conds /\ pc'[u] \in {"woken", "relock"}
      BY <1>5, <2>1, EmptyRange DEF MadeAlone
    <2>4. about[w][1] \in Mutexes => \A u \in Threads : held'[about[w][1]][u] = held[about[w][1]][u]
      BY <1>4, <2>2
    <2> QED BY <2>1, <2>3, <2>4 DEF MadeAlone
  <1>15. HostIsLive'
    BY <1>1, <1>5 DEF HostIsLive
  <1>16. Listed'
    BY <1>1, <1>5 DEF Listed
  <1>17. OwnersAgree'
    BY <1>4
  <1>18. CallsAllowed'
    <2>1. \A u \in Threads \ {t} : \A n \in Mutexes : held'[n][u] = held[n][u]
      BY <1>4
    <2>2. ASSUME NEW u \in Threads \ {t}, pc[u] \in {"enter", "scan", "insert", "use"}
          PROVE  /\ op[u] \in {"lock", "trylock"} => held'[about[u][1]][u] < MaxDepth
                 /\ op[u] = "unlock" => held'[about[u][1]][u] > 0
                 /\ op[u] = "wait" => held'[about[u][2]][u] = 1
      BY <2>1, <2>2, InCall DEF CallsAllowed
    <2>3. ASSUME NEW u \in Threads \ {t}, pc[u] \in {"blocked", "woken", "relock"}
          PROVE  held'[about[u][2]][u] = 0
      BY <2>1, <2>3, InCall DEF CallsAllowed, CallShape
    <2> QED BY <1>5, <2>2, <2>3 DEF CallsAllowed
  <1>19. WaitersKept'
    BY <1>1, <1>5, WaitersUntouched
  <1> QED BY <1>10, <1>11, <1>12, <1>13, <1>14, <1>15, <1>16, <1>17, <1>18, <1>19

-----------------------------------------------------------------------------
(* The invariant and what it shows.                                          *)

\* Each step of a lookup keeps the invariant.
LEMMA LookupInv ==
  ASSUME LocksInv, NEW t \in Threads, Lookup(t)
  PROVE  LocksInv'
  <1>1. CASE ScanHit(t)
    BY <1>1, ScanHitInv
  <1>2. CASE ScanMiss(t)
    BY <1>2, ScanMissDestroyInv, ScanMissOtherInv
  <1>3. CASE Insert(t)
    <2>1. pc[t] = "insert" /\ UNCHANGED <<op, about, held>>
      BY <1>3 DEF Insert
    <2>2. ASSUME NEW e \in Entries \ memory,
                 memory' = memory \cup {e}, guest_addr' = [guest_addr EXCEPT ![e] = Wanted(t)],
                 owner' = [owner EXCEPT ![e] = None], depth' = [depth EXCEPT ![e] = 0],
                 blocked' = [blocked EXCEPT ![e] = {}], entries' = entries \cup {e}, Found(t, e)
          PROVE  LocksInv'
      BY <2>1, <2>2, InsertEntryInv
    <2>3. CASE NoMemory(t) /\ UNCHANGED <<memory, guest_addr, entries, host>>
      BY <2>1, <2>3, InsertFailsInv
    <2> QED BY <1>3, <2>2, <2>3 DEF Insert
  <1> QED BY <1>1, <1>2, <1>3 DEF Lookup

\* Each use of a host object keeps the invariant.
LEMMA UseInv ==
  ASSUME LocksInv, NEW t \in Threads, Use(t)
  PROVE  LocksInv'
  <1>1. CASE NoHost(t) \/ TrylockBusy(t) \/ Initialised(t)
    BY <1>1, ReturnInv DEF NoHost, TrylockBusy, Initialised, Using
  <1>2. CASE Lock(t)
    BY <1>2, LockInv
  <1>3. CASE Unlock(t)
    BY <1>3, UnlockInv
  <1>4. CASE Destroy(t)
    BY <1>4, DestroyInv
  <1>5. CASE Wait(t)
    BY <1>5, WaitInv
  <1>6. CASE Signal(t)
    BY <1>6, SignalInv
  <1>7. CASE Leave(t)
    BY <1>7, LeaveInv
  <1>8. CASE Relock(t)
    BY <1>8, RelockInv
  <1> QED BY <1>1, <1>2, <1>3, <1>4, <1>5, <1>6, <1>7, <1>8 DEF Use

\* Every step keeps the invariant.
LEMMA LocksNextInv ==
  ASSUME LocksInv, [Next]_vars
  PROVE  LocksInv'
  <1>1. ASSUME NEW t \in Threads, NEW call \in Ops, NEW objects \in Lookups[call],
               Call(t, call, objects)
        PROVE  LocksInv'
    BY <1>1, CallInv
  <1>2. ASSUME NEW t \in Threads, Enter(t) PROVE LocksInv'
    BY <1>2, EnterInv
  <1>3. ASSUME NEW t \in Threads, Lookup(t) PROVE LocksInv'
    BY <1>3, LookupInv
  <1>4. ASSUME NEW t \in Threads, Use(t) PROVE LocksInv'
    BY <1>4, UseInv
  <1>5. ASSUME NEW t \in Threads, WakeUp(t) PROVE LocksInv'
    BY <1>5, WakeUpInv
  <1>6. CASE UNCHANGED vars
    <2>1. UNCHANGED <<memory, guest_addr, entries, mutex_lock, cond_lock, owner, depth, blocked,
                      pc, op, about, got, held>>
      BY <1>6 DEF vars, registry, host, calls
    <2>2. (TypeOK /\ CallShape)'
      BY <2>1 DEF LocksInv, TypeOK, CallShape
    <2>3. (ListsSound /\ RegistryHeld)'
      BY <2>1 DEF LocksInv, ListsSound, RegistryHeld, Matching, Wanted, LockOf
    <2>4. (MadeAlone /\ HostIsLive)'
      BY <2>1 DEF LocksInv, MadeAlone, HostIsLive
    <2>5. (Listed /\ OwnersAgree)'
      BY <2>1 DEF LocksInv, Listed, OwnersAgree, Matching
    <2>6. (CallsAllowed /\ WaitersKept)'
      BY <2>1 DEF LocksInv, CallsAllowed, WaitersKept, Entry
    <2> QED BY <2>2, <2>3, <2>4, <2>5, <2>6 DEF LocksInv
  <1> QED BY <1>1, <1>2, <1>3, <1>4, <1>5, <1>6 DEF Next

\* The lists of host objects, their locks, the host objects and what the
\* guest's calls have found agree at any time, for any number of threads and
\* objects: what every call relies on between its lookups and its use.
THEOREM LocksCorrect == Spec => []LocksInv
  BY LocksInitInv, LocksNextInv, PTL DEF Spec

\* The pointer a call uses after it has unlocked the list is still the host
\* object of its guest object, and is not freed under it.
THEOREM HostsAreLive == Spec => []HostIsLive
  <1>1. LocksInv => HostIsLive
    BY DEF LocksInv
  <1> QED BY <1>1, LocksCorrect, PTL

\* A guest mutex is held by one thread at a time, whether it was initialised,
\* is used without it, or was destroyed and is used again.
THEOREM MutexesExclude == Spec => []MutualExclusion
  <1>1. ASSUME LocksInv PROVE MutualExclusion
    <2> SUFFICES ASSUME NEW m \in Mutexes, NEW t \in Threads, NEW u \in Threads,
                        held[m][t] > 0, held[m][u] > 0
                 PROVE  t = u
      BY DEF MutualExclusion
    <2>1. Matching(m) # {}
      BY <1>1 DEF LocksInv, OwnersAgree
    <2>2. PICK e \in entries : guest_addr[e] = m
      BY <2>1 DEF Matching
    <2>3. \A w \in Threads : held[m][w] = IF owner[e] = w THEN depth[e] ELSE 0
      BY <1>1, <2>2 DEF LocksInv, OwnersAgree
    <2>4. owner[e] = t
      BY <2>3
    <2>5. owner[e] = u
      BY <2>3
    <2> QED BY <2>4, <2>5
  <1> QED BY <1>1, LocksCorrect, PTL

\* A thread blocked on a guest condition variable is blocked on the one host
\* object that every signal and broadcast of it will find.
THEOREM WaitersAreReachable == Spec => []WaitersReachable
  <1>1. ASSUME LocksInv PROVE WaitersReachable
    <2> SUFFICES ASSUME NEW t \in Threads, pc[t] = "blocked"
                 PROVE  t \in blocked[Entry(t)] /\ Matching(about[t][1]) = {Entry(t)}
      BY DEF WaitersReachable
    <2>1. op[t] = "wait" /\ Len(got[t]) = 2 /\ None \notin Range(got[t])
      BY <1>1, InCall DEF LocksInv, CallShape
    <2>2. 1 \in DOMAIN got[t] /\ Entry(t) # None
      <3>1. got[t] \in Seq(Entries \cup {None})
        BY <1>1 DEF LocksInv, TypeOK
      <3>2. 1 \in 1 .. Len(got[t]) /\ DOMAIN got[t] = 1 .. Len(got[t])
        BY <2>1, <3>1
      <3> QED BY <2>1, <3>1, <3>2, InRange DEF Entry
    <2>3. Entry(t) \in entries
      BY <1>1, <2>1, <2>2 DEF LocksInv, Listed, Entry
    <2>4. guest_addr[Entry(t)] = about[t][1]
      BY <1>1, <2>2 DEF LocksInv, HostIsLive, Entry
    <2>5. \A f \in entries : guest_addr[f] = guest_addr[Entry(t)] => f = Entry(t)
      BY <1>1, <2>3 DEF LocksInv, ListsSound
    <2>6. Matching(about[t][1]) = {Entry(t)}
      BY <2>3, <2>4, <2>5 DEF Matching
    <2> QED BY <1>1, <2>6 DEF LocksInv, WaitersKept
  <1> QED BY <1>1, LocksCorrect, PTL
=============================================================================
