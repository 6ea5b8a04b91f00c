------------------------- MODULE EglContexts_proofs -------------------------
(* Proofs about EglContexts for any number of threads and contexts, and any  *)
(* order of their calls: contexts share with the root, has_real_gl is the    *)
(* driver's view, and GL calls and swaps go where the thread asked, also     *)
(* where contexts are destroyed that threads still remember.                 *)
EXTENDS EglContexts, TLAPS

-----------------------------------------------------------------------------
(* The inductive invariant.                                                  *)

\* The share root needs the window, and so does everything that is current.
NothingWithoutWindow ==
  /\ root => window
  /\ ~window => \A t \in Threads : bound[t] = None

\* A thread that remembers a destroyed context is recorded as stale.
HeldAreLive ==
  \A t \in Threads : t \notin stale => last_context[t] \in made \cup {None}

\* A thread that lost its context to a creation still believes it has it.
UnboundBelieve ==
  \A t \in unbound_behind : has_real_gl[t]

\* A thread that is about to create has the share root, and the attribute says
\* that the new context shares with it.
RootBorrowed ==
  \A t \in Threads : pc[t] = "create" => share_attr /\ (root => bound[t] = Root)

\* The context a thread thinks it has is the one it asked for last.
CurrentIsLast ==
  \A t \in Threads : /\ current_context[t] \in {None, last_context[t]}
                     /\ surface[t] # None => current_context[t] # None

\* Its context is marked with the kind of its surface.
MarkedAsAsked ==
  \A t \in Threads : surface[t] # None /\ t \notin contested \cup stale =>
    (last_context[t] \in pbuffers <=> surface[t] = "pbuffer")

EglInv ==
  /\ TypeOK /\ NothingWithoutWindow /\ HeldAreLive /\ RootBorrowed
  /\ UnboundBelieve /\ CurrentIsLast /\ MarkedAsAsked
  /\ AllShareRoot /\ RealGlIsReal /\ CallsLandInLastAsked

\* What the lemmas use of the constants.
LEMMA ConstantFacts ==
  /\ Root \notin Contexts /\ None \notin Contexts /\ None # Root /\ None \notin Threads
  /\ None \notin {"window", "pbuffer"}
  BY EglAssumption

LEMMA InitInv == Init => EglInv
  <1> SUFFICES ASSUME Init PROVE EglInv
    OBVIOUS
  <1> USE ConstantFacts DEF Init
  <1>1. TypeOK
    BY DEF TypeOK
  <1>2. NothingWithoutWindow
    <2>1. CASE root = FALSE
      BY <2>1 DEF NothingWithoutWindow
    <2>2. CASE root = window
      BY <2>2 DEF NothingWithoutWindow
    <2> QED BY <2>1, <2>2
  <1>3. HeldAreLive /\ RootBorrowed /\ UnboundBelieve /\ CurrentIsLast /\ MarkedAsAsked
    BY DEF HeldAreLive, RootBorrowed, UnboundBelieve, CurrentIsLast, MarkedAsAsked
  <1>4. AllShareRoot /\ RealGlIsReal /\ CallsLandInLastAsked
    BY DEF AllShareRoot, RealGlIsReal, CallsLandInLastAsked
  <1> QED BY <1>1, <1>2, <1>3, <1>4 DEF EglInv

-----------------------------------------------------------------------------
(* One lemma for each action.                                                *)

LEMMA CreateBeginInv == \A t \in Threads : EglInv /\ CreateBegin(t) => EglInv'
  <1> SUFFICES ASSUME NEW t \in Threads, EglInv, CreateBegin(t) PROVE EglInv'
    OBVIOUS
  <1> USE ConstantFacts DEF EglInv, CreateBegin, MutexFree, Grants, local, history
  <1>1. TypeOK'
    BY DEF TypeOK
  <1>2. NothingWithoutWindow'
    BY DEF TypeOK, NothingWithoutWindow
  <1>3. HeldAreLive'
    BY DEF TypeOK, HeldAreLive, NothingWithoutWindow
  <1>4. RootBorrowed'
    BY DEF TypeOK, RootBorrowed, NothingWithoutWindow
  <1>5. CurrentIsLast'
    BY DEF TypeOK, CurrentIsLast
  <1>6. MarkedAsAsked'
    BY DEF TypeOK, MarkedAsAsked, CurrentIsLast
  <1>7. AllShareRoot'
    BY DEF TypeOK, AllShareRoot, RootBorrowed, NothingWithoutWindow
  <1>8. RealGlIsReal'
    BY DEF TypeOK, RealGlIsReal, NothingWithoutWindow, HeldAreLive, UnboundBelieve, CurrentIsLast
  <1>9. CallsLandInLastAsked'
    BY DEF TypeOK, CallsLandInLastAsked, NothingWithoutWindow, CurrentIsLast
  <1>10. UnboundBelieve'
    BY DEF TypeOK, UnboundBelieve
  <1> QED BY <1>1, <1>2, <1>3, <1>4, <1>5, <1>6, <1>7, <1>8, <1>9, <1>10

LEMMA CreateInv == \A t \in Threads : EglInv /\ Create(t) => EglInv'
  <1> SUFFICES ASSUME NEW t \in Threads, EglInv, Create(t) PROVE EglInv'
    OBVIOUS
  <1> USE ConstantFacts DEF EglInv, Create, local, history
  <1>1. TypeOK'
    BY DEF TypeOK
  <1>2. NothingWithoutWindow'
    BY DEF TypeOK, NothingWithoutWindow
  <1>3. HeldAreLive'
    BY DEF TypeOK, HeldAreLive, NothingWithoutWindow
  <1>4. RootBorrowed'
    BY DEF TypeOK, RootBorrowed, NothingWithoutWindow
  <1>5. CurrentIsLast'
    BY DEF TypeOK, CurrentIsLast
  <1>6. MarkedAsAsked'
    BY DEF TypeOK, MarkedAsAsked, CurrentIsLast
  <1>7. AllShareRoot'
    BY DEF TypeOK, AllShareRoot, RootBorrowed, NothingWithoutWindow
  <1>8. RealGlIsReal'
    BY DEF TypeOK, RealGlIsReal, NothingWithoutWindow, HeldAreLive, UnboundBelieve, CurrentIsLast
  <1>9. CallsLandInLastAsked'
    BY DEF TypeOK, CallsLandInLastAsked, NothingWithoutWindow, CurrentIsLast
  <1>10. UnboundBelieve'
    BY DEF TypeOK, UnboundBelieve
  <1> QED BY <1>1, <1>2, <1>3, <1>4, <1>5, <1>6, <1>7, <1>8, <1>9, <1>10

LEMMA CreateEndInv == \A t \in Threads : EglInv /\ CreateEnd(t) => EglInv'
  <1> SUFFICES ASSUME NEW t \in Threads, EglInv, CreateEnd(t) PROVE EglInv'
    OBVIOUS
  <1> USE ConstantFacts DEF EglInv, CreateEnd, local
  <1>1. TypeOK'
    BY DEF TypeOK
  <1>2. NothingWithoutWindow'
    BY DEF TypeOK, NothingWithoutWindow
  <1>3. HeldAreLive'
    BY DEF TypeOK, HeldAreLive, NothingWithoutWindow
  <1>4. RootBorrowed'
    BY DEF TypeOK, RootBorrowed, NothingWithoutWindow
  <1>5. CurrentIsLast'
    BY DEF TypeOK, CurrentIsLast
  <1>6. MarkedAsAsked'
    BY DEF TypeOK, MarkedAsAsked, CurrentIsLast
  <1>7. AllShareRoot'
    BY DEF TypeOK, AllShareRoot, RootBorrowed, NothingWithoutWindow
  <1>8. RealGlIsReal'
    BY DEF TypeOK, RealGlIsReal, NothingWithoutWindow, HeldAreLive, UnboundBelieve, CurrentIsLast
  <1>9. CallsLandInLastAsked'
    BY DEF TypeOK, CallsLandInLastAsked, NothingWithoutWindow, CurrentIsLast
  <1>10. UnboundBelieve'
    BY DEF TypeOK, UnboundBelieve
  <1> QED BY <1>1, <1>2, <1>3, <1>4, <1>5, <1>6, <1>7, <1>8, <1>9, <1>10

LEMMA ReleaseInv == \A t \in Threads : EglInv /\ Release(t) => EglInv'
  <1> SUFFICES ASSUME NEW t \in Threads, EglInv, Release(t) PROVE EglInv'
    OBVIOUS
  <1> USE ConstantFacts DEF EglInv, Release, ReleaseReal, creation
  <1>1. TypeOK'
    BY DEF TypeOK
  <1>2. NothingWithoutWindow'
    BY DEF TypeOK, NothingWithoutWindow
  <1>3. HeldAreLive'
    BY DEF TypeOK, HeldAreLive, NothingWithoutWindow
  <1>4. RootBorrowed'
    BY DEF TypeOK, RootBorrowed, NothingWithoutWindow
  <1>5. CurrentIsLast'
    BY DEF TypeOK, CurrentIsLast
  <1>6. MarkedAsAsked'
    BY DEF TypeOK, MarkedAsAsked, CurrentIsLast
  <1>7. AllShareRoot'
    BY DEF TypeOK, AllShareRoot, RootBorrowed, NothingWithoutWindow
  <1>8. RealGlIsReal'
    BY DEF TypeOK, RealGlIsReal, NothingWithoutWindow, HeldAreLive, UnboundBelieve, CurrentIsLast
  <1>9. CallsLandInLastAsked'
    BY DEF TypeOK, CallsLandInLastAsked, NothingWithoutWindow, CurrentIsLast
  <1>10. UnboundBelieve'
    BY DEF TypeOK, UnboundBelieve
  <1> QED BY <1>1, <1>2, <1>3, <1>4, <1>5, <1>6, <1>7, <1>8, <1>9, <1>10

LEMMA MakeCurrentInv == \A t \in Threads, c \in Contexts, kind \in {"window", "pbuffer"}, ok \in BOOLEAN : EglInv /\ MakeCurrent(t, c, kind, ok) => EglInv'
  <1> SUFFICES ASSUME NEW t \in Threads, NEW c \in Contexts,
                      NEW kind \in {"window", "pbuffer"}, NEW ok \in BOOLEAN, EglInv, MakeCurrent(t, c, kind, ok) PROVE EglInv'
    OBVIOUS
  <1> USE ConstantFacts DEF EglInv, MakeCurrent, Known, Mark, Remembered, Granted, creation
  <1>1. TypeOK'
    BY DEF TypeOK
  <1>2. NothingWithoutWindow'
    BY DEF TypeOK, NothingWithoutWindow
  <1>3. HeldAreLive'
    BY DEF TypeOK, HeldAreLive, NothingWithoutWindow
  <1>4. RootBorrowed'
    BY DEF TypeOK, RootBorrowed, NothingWithoutWindow
  <1>5. CurrentIsLast'
    BY DEF TypeOK, CurrentIsLast
  <1>6. MarkedAsAsked'
    BY DEF TypeOK, MarkedAsAsked, CurrentIsLast
  <1>7. AllShareRoot'
    BY DEF TypeOK, AllShareRoot, RootBorrowed, NothingWithoutWindow
  <1>8. RealGlIsReal'
    BY DEF TypeOK, RealGlIsReal, NothingWithoutWindow, HeldAreLive, UnboundBelieve, CurrentIsLast
  <1>9. CallsLandInLastAsked'
    BY DEF TypeOK, CallsLandInLastAsked, NothingWithoutWindow, CurrentIsLast
  <1>10. UnboundBelieve'
    BY DEF TypeOK, UnboundBelieve
  <1> QED BY <1>1, <1>2, <1>3, <1>4, <1>5, <1>6, <1>7, <1>8, <1>9, <1>10

LEMMA DestroyContextInv == \A t \in Threads, c \in Contexts : EglInv /\ DestroyContext(t, c) => EglInv'
  <1> SUFFICES ASSUME NEW t \in Threads, NEW c \in Contexts, EglInv, DestroyContext(t, c) PROVE EglInv'
    OBVIOUS
  <1> USE ConstantFacts DEF EglInv, DestroyContext, Known, local, creation
  <1>1. TypeOK'
    BY DEF TypeOK
  <1>2. NothingWithoutWindow'
    BY DEF TypeOK, NothingWithoutWindow
  <1>3. HeldAreLive'
    BY DEF TypeOK, HeldAreLive, NothingWithoutWindow
  <1>4. RootBorrowed'
    BY DEF TypeOK, RootBorrowed, NothingWithoutWindow
  <1>5. CurrentIsLast'
    BY DEF TypeOK, CurrentIsLast
  <1>6. MarkedAsAsked'
    BY DEF TypeOK, MarkedAsAsked, CurrentIsLast
  <1>7. AllShareRoot'
    BY DEF TypeOK, AllShareRoot, RootBorrowed, NothingWithoutWindow
  <1>8. RealGlIsReal'
    BY DEF TypeOK, RealGlIsReal, NothingWithoutWindow, HeldAreLive, UnboundBelieve, CurrentIsLast
  <1>9. CallsLandInLastAsked'
    BY DEF TypeOK, CallsLandInLastAsked, NothingWithoutWindow, CurrentIsLast
  <1>10. UnboundBelieve'
    BY DEF TypeOK, UnboundBelieve
  <1> QED BY <1>1, <1>2, <1>3, <1>4, <1>5, <1>6, <1>7, <1>8, <1>9, <1>10

LEMMA TerminateInv == \A t \in Threads : EglInv /\ Terminate(t) => EglInv'
  <1> SUFFICES ASSUME NEW t \in Threads, EglInv, Terminate(t) PROVE EglInv'
    OBVIOUS
  <1> USE ConstantFacts DEF EglInv, Terminate, local, creation, history
  <1>1. TypeOK'
    BY DEF TypeOK
  <1>2. NothingWithoutWindow'
    BY DEF TypeOK, NothingWithoutWindow
  <1>3. HeldAreLive'
    BY DEF TypeOK, HeldAreLive, NothingWithoutWindow
  <1>4. RootBorrowed'
    BY DEF TypeOK, RootBorrowed, NothingWithoutWindow
  <1>5. CurrentIsLast'
    BY DEF TypeOK, CurrentIsLast
  <1>6. MarkedAsAsked'
    BY DEF TypeOK, MarkedAsAsked, CurrentIsLast
  <1>7. AllShareRoot'
    BY DEF TypeOK, AllShareRoot, RootBorrowed, NothingWithoutWindow
  <1>8. RealGlIsReal'
    BY DEF TypeOK, RealGlIsReal, NothingWithoutWindow, HeldAreLive, UnboundBelieve, CurrentIsLast
  <1>9. CallsLandInLastAsked'
    BY DEF TypeOK, CallsLandInLastAsked, NothingWithoutWindow, CurrentIsLast
  <1>10. UnboundBelieve'
    BY DEF TypeOK, UnboundBelieve
  <1> QED BY <1>1, <1>2, <1>3, <1>4, <1>5, <1>6, <1>7, <1>8, <1>9, <1>10

LEMMA GlCallInv == \A t \in Threads : EglInv /\ GlCall(t) => EglInv'
  <1> SUFFICES ASSUME NEW t \in Threads, EglInv, GlCall(t) PROVE EglInv'
    OBVIOUS
  <1> USE ConstantFacts DEF EglInv, GlCall, Restored, Found, Grants, creation
  <1>1. TypeOK'
    BY DEF TypeOK
  <1>2. NothingWithoutWindow'
    BY DEF TypeOK, NothingWithoutWindow
  <1>3. HeldAreLive'
    BY DEF TypeOK, HeldAreLive, NothingWithoutWindow
  <1>4. RootBorrowed'
    BY DEF TypeOK, RootBorrowed, NothingWithoutWindow
  <1>5. CurrentIsLast'
    BY DEF TypeOK, CurrentIsLast
  <1>6. MarkedAsAsked'
    BY DEF TypeOK, MarkedAsAsked, CurrentIsLast
  <1>7. AllShareRoot'
    BY DEF TypeOK, AllShareRoot, RootBorrowed, NothingWithoutWindow
  <1>8. RealGlIsReal'
    BY DEF TypeOK, RealGlIsReal, NothingWithoutWindow, HeldAreLive, UnboundBelieve, CurrentIsLast
  <1>9. CallsLandInLastAsked'
    BY DEF TypeOK, CallsLandInLastAsked, NothingWithoutWindow, HeldAreLive, CurrentIsLast
  <1>10. UnboundBelieve'
    BY DEF TypeOK, UnboundBelieve
  <1> QED BY <1>1, <1>2, <1>3, <1>4, <1>5, <1>6, <1>7, <1>8, <1>9, <1>10

LEMMA StutterInv == EglInv /\ UNCHANGED vars => EglInv'
  <1> SUFFICES ASSUME EglInv, UNCHANGED vars PROVE EglInv'
    OBVIOUS
  <1> USE DEF EglInv, vars, local, creation, history
  <1>1. TypeOK' /\ NothingWithoutWindow' /\ HeldAreLive'
    BY DEF TypeOK, NothingWithoutWindow, HeldAreLive
  <1>2. RootBorrowed' /\ UnboundBelieve' /\ CurrentIsLast' /\ MarkedAsAsked'
    BY DEF RootBorrowed, UnboundBelieve, CurrentIsLast, MarkedAsAsked
  <1>3. AllShareRoot' /\ RealGlIsReal' /\ CallsLandInLastAsked'
    BY DEF AllShareRoot, RealGlIsReal, CallsLandInLastAsked
  <1> QED BY <1>1, <1>2, <1>3

LEMMA NextInv == EglInv /\ [Next]_vars => EglInv'
  <1> SUFFICES ASSUME EglInv, [Next]_vars PROVE EglInv'
    OBVIOUS
  <1>1. CASE UNCHANGED vars
    BY <1>1, StutterInv
  <1>2. CASE Next
    <2>1. PICK t \in Threads : Call(t)
      BY <1>2 DEF Next
    <2>2. CASE CreateBegin(t) \/ Create(t) \/ CreateEnd(t)
      BY <2>2, CreateBeginInv, CreateInv, CreateEndInv
    <2>3. CASE Release(t) \/ Terminate(t) \/ GlCall(t)
      BY <2>3, ReleaseInv, TerminateInv, GlCallInv
    <2>4. CASE \E c \in Contexts : DestroyContext(t, c)
      BY <2>4, DestroyContextInv
    <2>5. CASE \E c \in Contexts : \E kind \in {"window", "pbuffer"}, ok \in {FALSE, Grants(t, c)} :
                 MakeCurrent(t, c, kind, ok)
      <3>1. PICK c \in Contexts :
              \E kind \in {"window", "pbuffer"}, ok \in {FALSE, Grants(t, c)} : MakeCurrent(t, c, kind, ok)
        BY <2>5
      <3>2. PICK kind \in {"window", "pbuffer"}, ok \in {FALSE, Grants(t, c)} :
              MakeCurrent(t, c, kind, ok)
        BY <3>1
      <3>3. ok \in BOOLEAN
        BY DEF Grants
      <3> QED BY <3>2, <3>3, MakeCurrentInv
    <2> QED BY <2>1, <2>2, <2>3, <2>4, <2>5 DEF Call
  <1> QED BY <1>1, <1>2

-----------------------------------------------------------------------------
(* The theorems.                                                             *)

\* The invariant holds in every reachable state.
THEOREM EglCorrect == Spec => []EglInv
  BY InitInv, NextInv, PTL DEF Spec

\* The types of the shim's state are kept, the mutex among them: at most one
\* thread is inside eglCreateContext, and only there the share root is current.
THEOREM EglTypes == Spec => []TypeOK
  <1>1. EglInv => TypeOK
    BY DEF EglInv
  <1> QED BY EglCorrect, <1>1, PTL

\* Every context shares with the root, whatever threads create contexts at the
\* same time and whatever they had current, but for those the driver left alone.
THEOREM ContextsShare == Spec => []AllShareRoot
  <1>1. EglInv => AllShareRoot
    BY DEF EglInv
  <1> QED BY EglCorrect, <1>1, PTL

\* A thread whose GL calls skip the driver has the context it thinks it has, or
\* none if it created another one since.
THEOREM RealIsReal == Spec => []RealGlIsReal
  <1>1. EglInv => RealGlIsReal
    BY DEF EglInv
  <1> QED BY EglCorrect, <1>1, PTL

\* No GL call lands in a context other than the last one asked for.
THEOREM CallsLand == Spec => []CallsLandInLastAsked
  <1>1. EglInv => CallsLandInLastAsked
    BY DEF EglInv
  <1> QED BY EglCorrect, <1>1, PTL

\* A thread's frames are shown if it has a window surface, and only then.
THEOREM FramesAreShown == Spec => []SwapsReachTheWindow
  <1>1. EglInv => SwapsReachTheWindow
    BY ConstantFacts
    DEF EglInv, TypeOK, RealGlIsReal, CurrentIsLast, MarkedAsAsked, SwapsReachTheWindow, Shows, Swaps
  <1> QED BY EglCorrect, <1>1, PTL
=============================================================================
