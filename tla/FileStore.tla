----------------------------- MODULE FileStore -----------------------------
(* What the guest expects of its own directories: a set of files it opens,   *)
(* creates, removes and renames by name, each call taking effect at once     *)
(* somewhere between its beginning and its return.  A file opened for        *)
(* writing is empty at once and gets its contents later, under whatever name *)
(* it has by then.  AndroidFiles implements it under Android's paths.        *)
EXTENDS Integers

CONSTANTS Threads, Files,
          Contents,           \* what the guest writes
          Nothing, Dir, Empty

VARIABLES files,      \* Files -> contents, Dir, Empty or Nothing
          wanted,     \* per thread: the call it is in, or Nothing
          answer,     \* per thread: what its last call returned
          writing     \* per thread: where the file is that it has open for
                      \* writing; Nothing if there is none, or it is removed

vars == <<files, wanted, answer, writing>>

Failed == "failed"
Done == "done"

\* The system calls, on any set of files: the answer, and the files after it.  An
\* opening for reading answers with what the file holds, a directory included.
Answer(fs, call) ==
  LET file == fs[call.path] IN
    CASE call.op = "read"   -> IF file = Nothing THEN Failed ELSE file
      [] call.op = "create" -> IF file = Dir THEN Failed ELSE Done
      [] call.op = "mkdir"  -> IF file = Nothing THEN Done ELSE Failed
      [] call.op = "remove" -> IF file = Nothing THEN Failed ELSE Done
      [] call.op = "rename" -> IF file = Nothing \/ (fs[call.to] # Nothing /\ (file = Dir) # (fs[call.to] = Dir))
                               THEN Failed ELSE Done

After(fs, call) ==
  IF Answer(fs, call) # Done THEN fs
  ELSE CASE call.op = "create" -> [fs EXCEPT ![call.path] = Empty]
         [] call.op = "mkdir"  -> [fs EXCEPT ![call.path] = Dir]
         [] call.op = "remove" -> [fs EXCEPT ![call.path] = Nothing]
         [] call.op = "rename" -> [fs EXCEPT ![call.path] = Nothing,
                                             ![call.to] = fs[call.path]]

\* Where a file that was in a place is after the call.
Where(fs, call, place) ==
  CASE Answer(fs, call) # Done                       -> place
    [] call.op = "remove" /\ place = call.path       -> Nothing
    [] call.op = "rename" /\ place = call.path       -> call.to
    [] call.op = "rename" /\ place \in {call.to} \ {call.path} -> Nothing
    [] OTHER -> place

\* The files open for writing after the call of a thread.
Writers(fs, call, t) ==
  [u \in Threads |->
     IF u = t /\ call.op = "create" /\ Answer(fs, call) = Done
     THEN call.path ELSE Where(fs, call, writing[u])]

Operations == {"read", "create", "mkdir", "remove", "rename"}
Calls ==
  {call \in [op : Operations, path : Files, to : Files] :
     call.op # "rename" => call.to = call.path}

\* Calls that may fail for want of space or of a directory, or because one is not empty.
MayFail == Operations \ {"read"}

Init ==
  /\ files \in [Files -> {Nothing}]
  /\ wanted = [t \in Threads |-> Nothing]
  /\ answer = [t \in Threads |-> Nothing]
  /\ writing = [t \in Threads |-> Nothing]

\* A thread has one file at a time open for writing.
Begin(t, call) ==
  /\ wanted[t] = Nothing
  /\ call.op = "create" => writing[t] = Nothing
  /\ wanted' = [wanted EXCEPT ![t] = call]
  /\ answer' = [answer EXCEPT ![t] = Nothing]
  /\ UNCHANGED <<files, writing>>

\* The call is done, or, unless it only opens a file, may fail.
End(t) ==
  /\ wanted[t] # Nothing
  /\ \/ /\ files' = After(files, wanted[t])
        /\ writing' = Writers(files, wanted[t], t)
        /\ answer' = [answer EXCEPT ![t] = Answer(files, wanted[t])]
     \/ /\ wanted[t].op \in MayFail
        /\ answer' = [answer EXCEPT ![t] = Failed]
        /\ UNCHANGED <<files, writing>>
  /\ wanted' = [wanted EXCEPT ![t] = Nothing]

\* The thread goes on without the answer.
Leave(t) ==
  /\ wanted[t] = Nothing
  /\ answer' = [answer EXCEPT ![t] = Nothing]
  /\ UNCHANGED <<files, wanted, writing>>

\* Contents come into the file the thread has open, and it is closed.
Write(t) ==
  /\ wanted[t] = Nothing /\ writing[t] # Nothing
  /\ \E content \in Contents : files' = [files EXCEPT ![writing[t]] = content]
  /\ UNCHANGED <<wanted, answer, writing>>

Close(t) ==
  /\ wanted[t] = Nothing /\ writing[t] # Nothing
  /\ writing' = [writing EXCEPT ![t] = Nothing]
  /\ UNCHANGED <<files, wanted, answer>>

Next ==
  \E t \in Threads :
    End(t) \/ Leave(t) \/ Write(t) \/ Close(t) \/ \E call \in Calls : Begin(t, call)

Spec == Init /\ [][Next]_vars
=============================================================================
