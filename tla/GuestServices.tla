--------------------------- MODULE GuestServices ---------------------------
(* What a thread of the guest finds outside its own library: the file system *)
(* behind Android's paths (AndroidFiles) and the fake Java environment       *)
(* (JniTables).  Every thread uses both, one call at a time.                 *)
EXTENDS AndroidFiles, JniTables, TLC

ASSUME SameThreads == Clients = Threads

ServicesInit == Init /\ JniInit

\* A thread in one service is not in the other; the bound counts both.
FileStep(t) == jpc[t] = "idle" /\ File(t) /\ UNCHANGED jniVars

JniStep(t) ==
  /\ fpc[t] = "idle" /\ Jni(t)
  /\ jpc[t] = "idle" => calls > 0
  /\ calls' = IF jpc[t] = "idle" THEN calls - 1 ELSE calls
  /\ UNCHANGED <<fs, buffers, fpc, call, resolved, resolved_old, returned, writing, own, disturbed>>

ServicesNext == \E t \in Threads : FileStep(t) \/ JniStep(t)

\* Threads are alike: TLC may take one for another.
ThreadSymmetry == Permutations(Threads)

ServicesSpec == ServicesInit /\ [][ServicesNext]_<<vars, jniVars>>
=============================================================================
