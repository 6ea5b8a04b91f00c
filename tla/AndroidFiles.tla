---------------------------- MODULE AndroidFiles ----------------------------
(* The guest's files: resolve_android_path (src/util.c) sends Android's      *)
(* paths to places under the working directory, and the wrappers of fopen,   *)
(* open, mkdir, remove and rename (src/imports.c) and AAssetManager_open     *)
(* (src/android_shim.c) call the system with what it returned.  It answers   *)
(* with the caller's string or with one of two buffers of the thread.        *)
(* Openings are modelled: what is read and written through an open file goes *)
(* past this code, but contents that are written do come later (WriteOpen).  *)
(*                                                                           *)
(* A guest path is a directory and a name, the last component; a place is a  *)
(* real directory and a name.                                                *)
(*   "data"   /data/user/0/com.wb.lego.tcs/      ./data/user/0/...  "data"   *)
(*   "sd"     mnt/sdcard/TTGames/...             ./mnt/sdcard/...   "sd"     *)
(*   "sdabs"  /mnt/sdcard/TTGames/...            ./mnt/sdcard/...   "sd"     *)
(*   "abs"    any other absolute directory       itself "root",              *)
(*                                               or below . "under"          *)
(*   "rel"    the working directory              "rel"                       *)
(*   "dot"    ./mnt/sdcard/TTGames/...           ./mnt/sdcard/...   "sd"     *)
(* and ./assets is the place "assets".  Only AAssetManager_open makes a path *)
(* of "dot".  Files opened to append or to update, and paths that fill the   *)
(* buffers, are left out.  The file system is the host's; FileStore has its  *)
(* calls.                                                                    *)
EXTENDS Integers

CONSTANTS Threads, Names, Contents, Nothing, Dir, Empty,
          Asset,         \* what the files contain that came with the game
          Shipped,       \* names of the files in ./assets
          Local,         \* names that exist below the working directory under
                         \* an absolute directory of the guest
          GuestDirs,     \* directories the guest uses
          MaxCalls       \* bound: calls of the guest

VARIABLES
  fs,                       \* the host's file system
  alt_path, asset_path,     \* the buffers of resolve_android_path, per thread
  fpc, call,                \* a wrapper's next step, and the guest's call
  resolved, resolved_old,   \* what resolve_android_path returned; rename's copy
  returned,                 \* the last answer
  writing,                  \* the place of the file open for writing
  calls,                    \* calls left
  own,                      \* history: threads whose last call was for one of
                            \* the guest's own directories
  disturbed                 \* history: threads during whose call another one
                            \* made or removed a file of the same name

buffers == <<alt_path, asset_path>>
vars == <<fs, buffers, fpc, call, resolved, resolved_old, returned, writing, calls, own, disturbed>>

Places == {"data", "sd", "root", "under", "rel", "assets"} \X Names
GuestPaths == GuestDirs \X Names
Paths == GuestPaths \cup ({"dot"} \X Names)

\* The guest's own directories, under the names of their places.
Own == ({"data", "sd"} \X Names)
Home(path) == <<IF path[1] = "sdabs" THEN "sd" ELSE path[1], path[2]>>
IsOwn(path) == path[1] \in {"data", "sd", "sdabs"}

Sys == INSTANCE FileStore WITH Files <- GuestPaths, files <- fs, wanted <- call, answer <- returned

ASSUME FilesAssumption ==
  /\ Nothing \notin Contents \cup {Asset} /\ Dir \notin Contents \cup {Asset, Nothing}
  /\ Empty \notin Contents \cup {Asset, Nothing, Dir}
  /\ "done" \notin Contents \cup {Asset, Dir, Empty} /\ Nothing \notin Places
  /\ Nothing \notin [op : Sys!Operations, path : Places \cup Paths, to : Places \cup Paths]
  /\ Shipped \subseteq Names /\ Local \subseteq Names /\ MaxCalls \in Nat
  /\ GuestDirs \subseteq {"data", "sd", "sdabs", "abs", "rel"}

Init ==
  /\ fs = [p \in Places |->
             IF p \in ({"assets"} \X Shipped) \cup ({"under"} \X Local) THEN Asset ELSE Nothing]
  /\ alt_path = [t \in Threads |-> Nothing] /\ asset_path = [t \in Threads |-> Nothing]
  /\ fpc = [t \in Threads |-> "idle"] /\ call = [t \in Threads |-> Nothing]
  /\ resolved = [t \in Threads |-> Nothing] /\ resolved_old = [t \in Threads |-> Nothing]
  /\ returned = [t \in Threads |-> Nothing] /\ writing = [t \in Threads |-> Nothing]
  /\ calls = MaxCalls /\ own = {} /\ disturbed = {}

-----------------------------------------------------------------------------
(* resolve_android_path.                                                     *)

Exists(place) == fs[place] # Nothing

\* Mutation: the buffers are not thread-local.
BufferShared(t) == CHOOSE u \in Threads : TRUE
BufferOf(t) == t

\* Mutation: the guest's own directories are only used for files they hold.
RedirectedIfThere(path) == IsOwn(path) /\ Exists(Home(path))
Redirected(path) == IsOwn(path)

Rewritten(path) == Home(path)

\* The path itself, as the host sees it.
Itself(path) ==
  <<CASE path[1] \in {"abs", "sdabs", "data"} -> "root"
      [] path[1] = "dot" -> "sd"
      [] OTHER -> path[1], path[2]>>

\* Mutation: the path below the working directory is not looked for.
FoundBelowAlways(path) == path[1] = "abs"
FoundBelow(path) == path[1] = "abs" /\ Exists(<<"under", path[2]>>)

\* The three prefixes; a file that is there; below the working directory; the
\* asset of that name; or the path as it is.
Resolve(t, path) ==
  LET name == path[2]
      below == <<"under", name>>
      asset == <<"assets", name>>
      tryBelow == path[1] = "abs"
      b == BufferOf(t)
  IN
    IF Redirected(path)
    THEN /\ alt_path' = [alt_path EXCEPT ![b] = Rewritten(path)]
         /\ resolved' = [resolved EXCEPT ![t] = "alt_path"]
         /\ UNCHANGED asset_path
    ELSE IF Exists(Itself(path))
    THEN /\ resolved' = [resolved EXCEPT ![t] = "path"]
         /\ UNCHANGED buffers
    ELSE /\ alt_path' = IF tryBelow THEN [alt_path EXCEPT ![b] = below] ELSE alt_path
         /\ IF FoundBelow(path)
            THEN /\ resolved' = [resolved EXCEPT ![t] = "alt_path"]
                 /\ UNCHANGED asset_path
            ELSE /\ asset_path' = [asset_path EXCEPT ![b] = asset]
                 /\ resolved' = [resolved EXCEPT ![t] = IF Exists(asset) THEN "asset_path" ELSE "path"]

\* The string the wrapper passes on.
Pointee(t, path) ==
  CASE resolved[t] = "alt_path" -> alt_path[BufferOf(t)]
    [] resolved[t] = "asset_path" -> asset_path[BufferOf(t)]
    [] resolved[t] = "path" -> Itself(path)

-----------------------------------------------------------------------------
(* The wrappers: resolve, twice for rename, then call the system.            *)

Called(t, c) ==
  /\ fpc[t] = "idle" /\ calls > 0
  /\ call' = [call EXCEPT ![t] = c]
  /\ own' = IF IsOwn(c.path) THEN own \cup {t} ELSE own \ {t}
  /\ fpc' = [fpc EXCEPT ![t] = "resolve"]
  /\ returned' = [returned EXCEPT ![t] = Nothing]
  /\ calls' = calls - 1
  /\ disturbed' = disturbed \ {t}
  /\ UNCHANGED <<fs, buffers, resolved, resolved_old, writing>>

\* A thread has one file at a time open for writing, and renames nothing from one
\* of its own directories to another directory or back.
Begin(t) ==
  \E c \in Sys!Calls :
    /\ c.op = "create" => writing[t] = Nothing
    /\ IsOwn(c.path) = IsOwn(c.to)
    /\ Called(t, c)

\* AAssetManager_open puts g_data_path, which is ".", before a relative name, so
\* that it has none of the prefixes resolve_android_path looks for.
AssetPath(path) == IF path[1] = "sd" THEN <<"dot", path[2]>> ELSE path

OpenAsset(t) ==
  \E path \in GuestPaths :
    Called(t, [op |-> "read", path |-> AssetPath(path), to |-> AssetPath(path)])

ResolvePath(t) ==
  /\ fpc[t] = "resolve"
  /\ Resolve(t, call[t].path)
  /\ fpc' = [fpc EXCEPT ![t] = IF call[t].op = "rename" THEN "copy" ELSE "system"]
  /\ UNCHANGED <<fs, call, resolved_old, returned, writing, calls, own, disturbed>>

\* Mutation: the old path is not copied before the new one is resolved.
KeptPointer(t) == Nothing
Kept(t) == Pointee(t, call[t].path)

\* rename_fake copies the old path and resolves the new one.
RenameNew(t) ==
  /\ fpc[t] = "copy"
  /\ resolved_old' = [resolved_old EXCEPT ![t] = Kept(t)]
  /\ Resolve(t, call[t].to)
  /\ fpc' = [fpc EXCEPT ![t] = "system"]
  /\ UNCHANGED <<fs, call, returned, writing, calls, own, disturbed>>

\* The call with the places it reaches.
Passed(t) ==
  IF call[t].op = "rename"
  THEN [call[t] EXCEPT
          !.path = IF resolved_old[t] # Nothing THEN resolved_old[t] ELSE Pointee(t, call[t].path),
          !.to = Pointee(t, call[t].to)]
  ELSE [call[t] EXCEPT !.path = Pointee(t, call[t].path), !.to = Pointee(t, call[t].path)]

\* The calls of other threads whose files a step of the thread makes or removes.
Disturbs(t) ==
  {u \in Threads \ {t} :
     /\ fpc[u] # "idle"
     /\ \E p \in Places : /\ p[2] \in {call[u].path[2], call[u].to[2]}
                          /\ (fs'[p] = Nothing) # (fs[p] = Nothing)}

\* The system call, which may fail unless it only opens a file.
System(t) ==
  /\ fpc[t] = "system"
  /\ \/ /\ fs' = Sys!After(fs, Passed(t))
        /\ writing' = Sys!Writers(fs, Passed(t), t)
        /\ returned' = [returned EXCEPT ![t] = Sys!Answer(fs, Passed(t))]
     \/ /\ call[t].op \in Sys!MayFail
        /\ returned' = [returned EXCEPT ![t] = Sys!Failed]
        /\ UNCHANGED <<fs, writing>>
  /\ call' = [call EXCEPT ![t] = Nothing]
  /\ fpc' = [fpc EXCEPT ![t] = "idle"]
  /\ resolved' = [resolved EXCEPT ![t] = Nothing]
  /\ resolved_old' = [resolved_old EXCEPT ![t] = Nothing]
  /\ disturbed' = disturbed \cup Disturbs(t)
  /\ UNCHANGED <<buffers, calls, own>>

\* The C library: the thread writes to the file it has open, wherever that is now,
\* and closes it.
WriteOpen(t) ==
  /\ fpc[t] = "idle" /\ writing[t] # Nothing
  /\ \E content \in Contents : fs' = [fs EXCEPT ![writing[t]] = content]
  /\ disturbed' = disturbed \cup Disturbs(t)
  /\ UNCHANGED <<buffers, fpc, call, resolved, resolved_old, returned, writing, calls, own>>

CloseOpen(t) ==
  /\ fpc[t] = "idle" /\ writing[t] # Nothing
  /\ writing' = [writing EXCEPT ![t] = Nothing]
  /\ UNCHANGED <<fs, buffers, fpc, call, resolved, resolved_old, returned, calls, own, disturbed>>

File(t) ==
  \/ Begin(t) \/ OpenAsset(t) \/ ResolvePath(t) \/ RenameNew(t) \/ System(t)
  \/ WriteOpen(t) \/ CloseOpen(t)
Next == \E t \in Threads : File(t)

Spec == Init /\ [][Next]_vars

-----------------------------------------------------------------------------
(* Properties.                                                               *)

\* The guest's data directory and its card are private stores: what a thread
\* creates and writes there under one of the names is what it and the others
\* open, remove and rename there, under any name of the same file, whatever other
\* threads resolve meanwhile, and whatever the assets and other directories hold.
\* AAssetManager_open keeps to this with absolute names only.
Store == INSTANCE FileStore WITH
  Files <- Own,
  files <- [p \in Own |-> fs[p]],
  wanted <- [t \in Threads |->
               IF fpc[t] # "idle" /\ t \in own
               THEN [call[t] EXCEPT !.path = Home(call[t].path), !.to = Home(call[t].to)]
               ELSE Nothing],
  answer <- [t \in Threads |-> IF t \in own THEN returned[t] ELSE Nothing],
  writing <- [t \in Threads |-> IF writing[t] \in Own THEN writing[t] ELSE Nothing]
RefinesFileStore == Store!Spec

\* src/android_shim.c:4: "maps asset opens to filesystem reads".  No call in the
\* guest's own directories touches an asset, even when it names a file that is
\* not there and an asset has its name.  (A write, removal or renaming in any
\* other directory may.)
AssetsSurvive ==
  [][\A t \in Threads : t \in own /\ fpc[t] = "system" /\ fpc'[t] = "idle"
       => \A n \in Names : fs'[<<"assets", n>>] = fs[<<"assets", n>>]]_vars

\* The file a path stands for outside them, and a relative name for
\* AAssetManager_open: itself, the one below the working directory, or the asset
\* of its name.
Meant(path) ==
  IF Exists(Itself(path)) THEN Itself(path)
  ELSE IF path[1] = "abs" /\ Exists(<<"under", path[2]>>) THEN <<"under", path[2]>>
  ELSE <<"assets", path[2]>>

\* Elsewhere a call that opens a file gets the one its path stands for at that
\* time, unless another thread made or removed a file of that name between the
\* resolving and the opening.
OpensWhatIsThere ==
  [][\A t \in Threads : fpc[t] = "system" /\ fpc'[t] = "idle" /\ call[t].op = "read"
                        /\ t \notin disturbed /\ t \notin own
       => LET file == fs[Meant(call[t].path)]
          IN returned'[t] = IF file = Nothing THEN Sys!Failed ELSE file]_vars
=============================================================================
