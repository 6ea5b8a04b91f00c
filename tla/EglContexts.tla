----------------------------- MODULE EglContexts -----------------------------
(* The EGL shim (src/egl_shim.c) and the GL wrappers of src/imports.c: each  *)
(* guest thread has a thread-local idea of its context, SDL and the driver   *)
(* know which context is really current, and the wrapped GL calls, all but   *)
(* glGetString and glGetIntegerv, first try to bring the two together        *)
(* (egl_shim_ensure_current).                                                *)
(*                                                                           *)
(* A context is current in one thread at most: the driver refuses it to a    *)
(* second thread, which keeps what it had, and may refuse a free one for its *)
(* own reasons (all contexts use one window surface), the share root too.    *)
(* Every call is one step, but for eglCreateContext, which borrows the share *)
(* root under a mutex.                                                       *)
(*                                                                           *)
(* A context is named by its memory, which a later eglCreateContext may get  *)
(* again, unless the driver still has the old context current somewhere.     *)
EXTENDS Integers, FiniteSets

CONSTANTS Threads,      \* guest threads
          Contexts,     \* contexts the guest may create
          Root,         \* egl_share_root
          None          \* NULL

ASSUME EglAssumption ==
  /\ Root \notin Contexts /\ None \notin Contexts \cup {Root} /\ None \notin Threads
  /\ None \notin {"window", "pbuffer"} /\ Threads # {}

VARIABLES
  window, root,              \* egl_window, egl_share_root: are they there?
  current_context, last_context, has_real_gl,     \* thread-local
  create_mutex,              \* egl_context_create_mutex: its holder
  pc,                        \* eglCreateContext per thread: next step
  share_attr,                \* SDL_GL_SHARE_WITH_CURRENT_CONTEXT
  made, sharing,             \* live contexts, and those that share with the root
  pbuffers,                  \* contexts whose is_pbuffer is set
  bound,                     \* what the driver has current in each thread
  surface,                   \* history: surface of the thread's last eglMakeCurrent
  unbound_behind,            \* history: threads whose context the shim released
                             \* without has_real_gl since their last eglMakeCurrent
  refused,                   \* history: threads that kept another context
                             \* because their last one was refused
  contested,                 \* history: threads whose last context another
                             \* thread asked for since their last eglMakeCurrent
  stale,                     \* history: threads whose last context was destroyed
                             \* since they last asked the driver for one
  lone                       \* history: contexts made while the driver refused
                             \* the root, in a thread without a context that shares

local == <<current_context, last_context, has_real_gl>>
creation == <<create_mutex, pc, share_attr, made, sharing>>
history == <<surface, unbound_behind, refused, contested, stale>>
vars == <<window, root, local, creation, pbuffers, bound, history, lone>>

\* egl_shim_create_window, on the main thread before the guest starts: the
\* window may be missing, and so may the root.
Init ==
  /\ window \in BOOLEAN /\ root \in {FALSE, window}
  /\ current_context = [t \in Threads |-> None]
  /\ last_context = [t \in Threads |-> None]
  /\ has_real_gl = [t \in Threads |-> FALSE]
  /\ create_mutex = None /\ pc = [t \in Threads |-> "idle"] /\ share_attr = FALSE
  /\ made = {} /\ sharing = {} /\ pbuffers = {}
  /\ bound = [t \in Threads |-> None]
  /\ surface = [t \in Threads |-> None]
  /\ unbound_behind = {} /\ refused = {} /\ contested = {} /\ stale = {} /\ lone = {}

\* SDL_GL_MakeCurrent may grant a context that no other thread has.
Grants(t, c) == \A u \in Threads \ {t} : bound[u] # c

-----------------------------------------------------------------------------
(* eglCreateContext.                                                         *)

\* Mutation: contexts are created without the mutex.
MutexFreeAlways == TRUE
MutexFree == create_mutex = None

\* The mutex is taken and the share root borrowed.  Nobody looks whether the
\* driver grants it.
CreateBegin(t) ==
  /\ pc[t] = "idle" /\ MutexFree
  /\ create_mutex' = t
  /\ share_attr' = TRUE
  /\ \/ /\ root /\ Grants(t, Root)
        /\ bound' = [bound EXCEPT ![t] = Root]
        /\ pc' = [pc EXCEPT ![t] = "create"]
     \/ /\ pc' = [pc EXCEPT ![t] = IF root /\ Grants(t, Root) THEN "alone" ELSE "create"]
        /\ UNCHANGED bound
  /\ UNCHANGED <<window, root, local, made, sharing, pbuffers, history, lone>>

\* SDL_GL_CreateContext makes a context, current in this thread, that shares
\* with the one that was; or it fails, as it does without a window.
Create(t) ==
  /\ pc[t] \in {"create", "alone"}
  /\ \/ \E c \in Contexts \ (made \cup {bound[u] : u \in Threads}) :
          LET shares == share_attr /\ bound[t] \in sharing \cup {Root}
          IN /\ window
             /\ made' = made \cup {c}
             /\ sharing' = IF shares THEN sharing \cup {c} ELSE sharing
             /\ lone' = IF ~shares /\ pc[t] = "alone" THEN lone \cup {c} ELSE lone
             /\ bound' = [bound EXCEPT ![t] = c]
     \/ UNCHANGED <<made, sharing, bound, lone>>
  /\ pc' = [pc EXCEPT ![t] = "release"]
  /\ UNCHANGED <<window, root, local, create_mutex, share_attr, pbuffers, history>>

\* The thread is left without a context, whatever it had before, and
\* has_real_gl is not told.
CreateEnd(t) ==
  /\ pc[t] = "release"
  /\ share_attr' = FALSE
  /\ bound' = [bound EXCEPT ![t] = None]
  /\ create_mutex' = None
  /\ pc' = [pc EXCEPT ![t] = "idle"]
  /\ unbound_behind' = IF has_real_gl[t] THEN unbound_behind \cup {t} ELSE unbound_behind
  /\ refused' = refused \ {t}
  /\ UNCHANGED <<window, root, local, made, sharing, pbuffers, surface, contested, stale, lone>>

-----------------------------------------------------------------------------
(* eglMakeCurrent, eglDestroyContext, eglTerminate.                          *)

\* Mutation: has_real_gl survives the release.
ReleaseKeepsReal(t) == has_real_gl
ReleaseReal(t) == [has_real_gl EXCEPT ![t] = FALSE]

\* eglMakeCurrent without a context or a surface.
Release(t) ==
  /\ pc[t] = "idle"
  /\ current_context[t] # None \/ has_real_gl[t] \/ surface[t] # None
  /\ current_context' = [current_context EXCEPT ![t] = None]
  /\ bound' = IF window THEN [bound EXCEPT ![t] = None] ELSE bound
  /\ has_real_gl' = ReleaseReal(t)
  /\ surface' = [surface EXCEPT ![t] = None]
  /\ unbound_behind' = unbound_behind \ {t}
  /\ refused' = IF window THEN refused \ {t} ELSE refused
  /\ UNCHANGED <<window, root, last_context, creation, pbuffers, contested, stale, lone>>

\* Mutation: has_real_gl is set although the driver refused.
GrantedAlways(ok) == TRUE
Granted(ok) == ok

\* Mutation: the kind of the surface is recorded for window surfaces only.
MarkWindowOnly(c, kind) == IF kind = "window" THEN pbuffers ELSE pbuffers \cup {c}
Mark(c, kind) == IF kind = "window" THEN pbuffers \ {c} ELSE pbuffers \cup {c}

\* Mutation: a refused context is not remembered.
RememberedIfGranted(t, c, ok) == IF ok THEN [last_context EXCEPT ![t] = c] ELSE last_context
Remembered(t, c, ok) == [last_context EXCEPT ![t] = c]

\* A context the guest knows: it is made, and its creator has returned.
Known(c) == c \in made /\ \A u \in Threads : bound[u] = c => pc[u] # "release"

\* eglMakeCurrent of a context the guest created.  ok is the driver's answer;
\* a refusal is not reported to the guest.
MakeCurrent(t, c, kind, ok) ==
  /\ pc[t] = "idle" /\ Known(c)
  /\ pbuffers' = Mark(c, kind)
  /\ current_context' = [current_context EXCEPT ![t] = c]
  /\ last_context' = Remembered(t, c, ok)
  /\ surface' = [surface EXCEPT ![t] = kind]
  /\ contested' = (contested \cup {u \in Threads : last_context[u] = c}) \ {t}
  /\ stale' = IF window THEN stale \ {t} ELSE stale
  /\ IF ~window THEN UNCHANGED <<has_real_gl, bound, unbound_behind, refused>>
     ELSE /\ has_real_gl' = [has_real_gl EXCEPT ![t] = Granted(ok)]
          /\ unbound_behind' = unbound_behind \ {t}
          /\ IF ok
             THEN bound' = [bound EXCEPT ![t] = c] /\ refused' = refused \ {t}
             ELSE /\ refused' = IF bound[t] \in {None, c} THEN refused ELSE refused \cup {t}
                  /\ UNCHANGED bound
  /\ UNCHANGED <<window, root, creation, lone>>

\* eglDestroyContext.  SDL lets go of a context that is current in the calling
\* thread; another thread keeps it until it binds something else.  Nobody tells
\* the threads that remember it.
DestroyContext(t, c) ==
  /\ pc[t] = "idle" /\ Known(c)
  /\ made' = made \ {c} /\ sharing' = sharing \ {c} /\ lone' = lone \ {c}
  /\ pbuffers' = pbuffers \ {c}
  /\ bound' = IF bound[t] = c THEN [bound EXCEPT ![t] = None] ELSE bound
  /\ stale' = stale \cup {u \in Threads : last_context[u] = c}
  /\ UNCHANGED <<window, root, local, create_mutex, pc, share_attr,
                 surface, unbound_behind, refused, contested>>

\* eglTerminate, when the guest has released its contexts.
Terminate(t) ==
  /\ window \/ root
  /\ \A u \in Threads : pc[u] = "idle" /\ bound[u] = None
  /\ window' = FALSE /\ root' = FALSE
  /\ UNCHANGED <<local, creation, pbuffers, bound, history, lone>>

-----------------------------------------------------------------------------
(* GL calls.                                                                 *)

Restored(t) == IF current_context[t] # None THEN current_context[t] ELSE last_context[t]

\* The driver's context that ensure_current finds in what Restored points to:
\* its own; in the memory of a destroyed context it may be that of any other.
Found(t) == IF Restored(t) \in made THEN {Restored(t)} ELSE made

\* A wrapped GL call of a thread that has no real context: the one it asked
\* for, or had last, is tried again.  The call itself follows in any case.
GlCall(t) ==
  /\ pc[t] = "idle"
  /\ ~has_real_gl[t]
  /\ window /\ Restored(t) # None
  /\ \E c \in Found(t) : Grants(t, c) /\ bound' = [bound EXCEPT ![t] = c]
  /\ has_real_gl' = [has_real_gl EXCEPT ![t] = TRUE]
  /\ current_context' = [current_context EXCEPT ![t] = Restored(t)]
  /\ refused' = refused \ {t}
  /\ UNCHANGED <<window, root, last_context, creation, pbuffers,
                 surface, unbound_behind, contested, stale, lone>>

\* eglSwapBuffers calls SDL_GL_SwapWindow, and that shows a frame if the thread
\* has the window current.
Swaps(t) ==
  window /\ has_real_gl[t] /\ current_context[t] # None /\ current_context[t] \notin pbuffers
Shows(t) == Swaps(t) /\ bound[t] # None

Call(t) ==
  \/ CreateBegin(t) \/ Create(t) \/ CreateEnd(t)
  \/ Release(t) \/ Terminate(t) \/ GlCall(t)
  \/ \E c \in Contexts :
       \/ DestroyContext(t, c)
       \/ \E kind \in {"window", "pbuffer"}, ok \in {FALSE, Grants(t, c)} :
            MakeCurrent(t, c, kind, ok)

Next == \E t \in Threads : Call(t)

Spec == Init /\ [][Next]_vars

-----------------------------------------------------------------------------
(* Properties.                                                               *)

\* The type of the shim's state; a thread inside eglCreateContext holds the
\* mutex, and only there is the share root current.
TypeOK ==
  /\ window \in BOOLEAN /\ root \in BOOLEAN
  /\ current_context \in [Threads -> Contexts \cup {None}]
  /\ last_context \in [Threads -> Contexts \cup {None}]
  /\ has_real_gl \in [Threads -> BOOLEAN]
  /\ pc \in [Threads -> {"idle", "create", "alone", "release"}] /\ share_attr \in BOOLEAN
  /\ create_mutex \in Threads \cup {None}
  /\ \A t \in Threads : /\ pc[t] # "idle" <=> create_mutex = t
                        /\ bound[t] = Root => create_mutex = t
  /\ made \subseteq Contexts /\ sharing \subseteq made /\ pbuffers \subseteq made
  /\ bound \in [Threads -> Contexts \cup {Root, None}]
  /\ surface \in [Threads -> {"window", "pbuffer", None}]
  /\ unbound_behind \subseteq Threads /\ refused \subseteq Threads
  /\ contested \subseteq Threads /\ stale \subseteq Threads /\ lone \subseteq made

\* src/egl_shim.c:4-5: "We keep a bootstrap context around as the share root so
\* all contexts can share resources."  Whatever threads create contexts at the
\* same time, and whatever they have current, each context shares with the root,
\* unless the driver refused the root to a thread that had nothing that shares.
AllShareRoot == root => made \subseteq sharing \cup lone

\* has_real_gl, which lets every GL call skip the driver, is the driver's view:
\* the thread has the context it thinks it has, and that one is alive.  A thread
\* that created another context since its last eglMakeCurrent has none at all,
\* though has_real_gl says otherwise; one whose context was destroyed may have
\* anything.
RealGlIsReal ==
  \A t \in Threads :
    pc[t] = "idle" /\ has_real_gl[t] /\ t \notin stale =>
      IF t \in unbound_behind THEN bound[t] = None
      ELSE bound[t] = current_context[t] /\ bound[t] \in made

\* A GL call never lands in a context the guest did not ask for last: the
\* driver has that one or none in the thread, unless the last eglMakeCurrent
\* was refused while the thread had another, or its context was destroyed.
CallsLandInLastAsked ==
  \A t \in Threads :
    pc[t] = "idle" /\ t \notin refused \cup stale => bound[t] \in {None, last_context[t]}

\* The frames a thread swaps are shown if it asked for a window surface, and
\* only then: frames of a pbuffer never reach the window.  They are lost if the
\* thread created another context since, which takes its own away.  Nothing is
\* promised when another thread asked for the same context meanwhile, which
\* writes the kind of its surface into it even when it is refused, or when the
\* context was destroyed.
SwapsReachTheWindow ==
  \A t \in Threads :
    pc[t] = "idle" /\ window /\ has_real_gl[t] /\ surface[t] # None
    /\ t \notin contested \cup stale
      => (Shows(t) <=> surface[t] = "window" /\ t \notin unbound_behind)
=============================================================================
