------------------------------ MODULE SoLoader ------------------------------
(* The ELF loader (src/so_util.c) as main calls it: load, relocate, resolve, *)
(* protect, run the constructors; a stage that reports failure ends the      *)
(* program.  Boot adds main's code patch between resolve and protect.        *)
(*                                                                           *)
(* An image is what the loader looks at: its PT_LOAD segments, the           *)
(* relocations of .rela.dyn and .rela.plt, the slots of .init_array, and one *)
(* flaw of its file, if any.  It has an executable and another segment.      *)
(* Addresses are numbers, and so are the pointers in memory.                 *)
EXTENDS Integers, Sequences, FiniteSetsExt

CONSTANTS Images,       \* images to boot
          Symbols,      \* value of each symbol the image defines
          Imports,      \* dynlib_functions: function of each symbol it has
          Base,         \* where the heap begins; page-aligned
          HeapSize,     \* MEMORY_MB in bytes
          Page,         \* the page of the machine and of load_size, 4096
          PAlign        \* p_align of the segments

Flaws == {"none", "missing", "memory", "short", "magic", "class", "machine",
          "phdr", "shdr", "shstr", "nosyms"}
Types == {"ABS64", "RELATIVE", "GLOB_DAT", "JUMP_SLOT", "other"}

\* An image as so_load and the passes find it.
WellFormed(img) ==
  /\ img.flaw \in Flaws
  /\ img.segs \in Seq([x : BOOLEAN, vaddr : Nat, memsz : Nat \ {0}])
  /\ \E i, j \in DOMAIN img.segs : img.segs[i].x /\ ~img.segs[j].x
  /\ \A r \in img.rels : r.type \in Types /\ r.offset \in Nat /\ r.addend \in Nat
  /\ img.init \in Seq(Nat)
  /\ \A r, s \in img.rels : r.offset = s.offset => r = s

ASSUME LoaderAssumption ==
  /\ Page \in Nat \ {0} /\ PAlign \in Nat \ {0}
  /\ Base \in Nat /\ Base % Page = 0 /\ HeapSize \in Nat
  /\ \A s \in DOMAIN Symbols : Symbols[s] \in Nat
  /\ \A s \in DOMAIN Imports : Imports[s] \in Nat
  /\ \A img \in Images : WellFormed(img)

VARIABLES
  image,                  \* SO_NAME
  pc,                     \* main's next call, or how the program ended
  so_base,                \* is the file's buffer allocated and filled?
  text, data,             \* text_base and text_size, data_base and data_size
  load_size,
  written,                \* offsets in the heap that so_load has written
  memory,                 \* pointers in the heap, by offset
  prot,                   \* protection of the heap's pages
  called                  \* history: constructors called

vars == <<image, pc, so_base, text, data, load_size, written, memory, prot, called>>

Unset == [base |-> 0, size |-> 0]
Pages == Base \div Page .. (Base + HeapSize - 1) \div Page

Init ==
  /\ image \in Images
  /\ pc = "load"
  /\ so_base = FALSE /\ text = Unset /\ data = Unset
  /\ load_size = 0 /\ written = {}
  /\ memory = [o \in 0 .. HeapSize - 1 |-> 0]
  /\ prot = [p \in Pages |-> "RWX"]
  /\ called = << >>

-----------------------------------------------------------------------------
(* so_load                                                                   *)

AlignUp(x, a) == ((x + a - 1) \div a) * a

\* The last segment of a kind wins.
Segment(segs, x) == segs[Max({i \in DOMAIN segs : segs[i].x = x})]

\* A data segment before the first text segment.
DataFirst(segs) == ~segs[1].x

\* Mutation: the data segment's address is left out.
LoadSizeOfData(segs) == AlignUp(AlignUp(Segment(segs, FALSE).memsz, PAlign), Page)
LoadSize(segs) ==
  AlignUp(Segment(segs, FALSE).vaddr + AlignUp(Segment(segs, FALSE).memsz, PAlign), Page)

TooLarge(segs) == LoadSize(segs) > HeapSize

\* What so_load returns, in the order of its tests.
Result(img) ==
  IF img.flaw \in {"missing", "magic", "class", "machine", "phdr", "shdr", "shstr"} THEN -1
  ELSE IF img.flaw = "memory" THEN -2
  ELSE IF img.flaw = "short" THEN -3
  ELSE IF DataFirst(img.segs) THEN 0
  ELSE IF TooLarge(img.segs) THEN -3
  ELSE IF img.flaw = "nosyms" THEN -2
  ELSE 0

\* The image was placed: only the last way out of so_load.  With the data
\* first so_load gives up, returns 0 all the same, and the program goes on with
\* an image it freed; the model ends there.
Placed(img) == Result(img) = 0 /\ ~DataFirst(img.segs)

\* How linkers lay an image out, which so_load does not test: its code begins
\* at address 0 and ends before its data, and its pointers lie inside it.
LaidOut(img) ==
  Placed(img) =>
    LET code == Segment(img.segs, TRUE)
        rest == Segment(img.segs, FALSE)
    IN /\ code.vaddr = 0 /\ code.memsz <= rest.vaddr
       /\ \A r \in img.rels : r.offset < rest.vaddr + rest.memsz
       /\ \A i \in DOMAIN img.init : img.init[i] < rest.vaddr + rest.memsz

ASSUME LayoutAssumption == \A img \in Images : LaidOut(img)

Span(seg) == [base |-> Base + seg.vaddr, size |-> seg.memsz]
Offsets(seg) == seg.vaddr .. seg.vaddr + seg.memsz - 1

Load ==
  /\ pc = "load"
  /\ pc' = IF Result(image) < 0 THEN "fatal" ELSE "relocate"
  /\ IF Placed(image)
     THEN LET segs == image.segs IN
          /\ so_base' = TRUE
          /\ load_size' = LoadSize(segs)
          /\ text' = Span(Segment(segs, TRUE)) /\ data' = Span(Segment(segs, FALSE))
          /\ written' = 0 .. load_size' - 1
                          \cup Offsets(Segment(segs, TRUE)) \cup Offsets(Segment(segs, FALSE))
     ELSE UNCHANGED <<so_base, load_size, text, data, written>>
  /\ UNCHANGED <<image, memory, prot, called>>

-----------------------------------------------------------------------------
(* so_relocate, so_resolve                                                   *)

\* Mutation: a pointer to a symbol loses its addend.
SymbolAddressBare(r) == text.base + Symbols[r.sym]
SymbolAddress(r) == text.base + Symbols[r.sym] + r.addend

\* A symbol the image does not define has the value 0.
Relocated(r, old) ==
  CASE r.type = "RELATIVE" -> text.base + r.addend
    [] r.type = "ABS64" -> IF r.sym \in DOMAIN Symbols THEN SymbolAddress(r)
                           ELSE text.base + r.addend
    [] OTHER -> IF r.sym \in DOMAIN Symbols THEN SymbolAddress(r) ELSE old

\* Every relocation stores at text_base + r_offset.
Stored(value) ==
  [o \in DOMAIN memory |->
     IF \E r \in image.rels : text.base + r.offset = Base + o
     THEN value[CHOOSE r \in image.rels : text.base + r.offset = Base + o]
     ELSE memory[o]]
Old(r) == memory[text.base + r.offset - Base]

Relocate ==
  /\ pc = "relocate" /\ so_base
  /\ IF \E r \in image.rels : r.type = "other"
     THEN pc' = "fatal" /\ UNCHANGED memory
     ELSE /\ pc' = "resolve"
          /\ memory' = Stored([r \in image.rels |-> Relocated(r, Old(r))])
  /\ UNCHANGED <<image, so_base, text, data, load_size, written, prot, called>>

\* An import that dynlib_functions has not is reported and left as it was.
Resolved(r, old) ==
  IF r.type \in {"GLOB_DAT", "JUMP_SLOT"} /\ r.sym \in DOMAIN Imports \ DOMAIN Symbols
  THEN Imports[r.sym] ELSE old

Resolve ==
  /\ pc = "resolve"
  /\ memory' = Stored([r \in image.rels |-> Resolved(r, Old(r))])
  /\ pc' = "finalize"
  /\ UNCHANGED <<image, so_base, text, data, load_size, written, prot, called>>

-----------------------------------------------------------------------------
(* so_finalize, so_execute_init_array                                        *)

\* Mutation: the length is rounded up without the part below start.
ProtectedHeadless(start, len) ==
  start \div Page .. start \div Page + AlignUp(len, Page) \div Page - 1

\* The pages protect_range asks mprotect for.
Protected(start, len) ==
  LET page_base == start - (start % Page)
      plen == AlignUp(len + (start - page_base), Page)
  IN page_base \div Page .. (page_base + plen) \div Page - 1

\* mprotect refuses pages that are not mapped.
Finalize ==
  /\ pc = "finalize"
  /\ LET rx == Protected(text.base, text.size)
         rw == Protected(data.base, data.size)
     IN IF rx \cup rw \subseteq Pages
        THEN /\ prot' = [p \in Pages |-> IF p \in rw THEN "RW"
                                        ELSE IF p \in rx THEN "RX" ELSE prot[p]]
             /\ pc' = "init"
        ELSE pc' = "fatal" /\ UNCHANGED prot
  /\ UNCHANGED <<image, so_base, text, data, load_size, written, memory, called>>

\* The constructors, read from the relocated array; null ones are skipped.
Constructors == [i \in DOMAIN image.init |-> memory[text.base - Base + image.init[i]]]

Called(functions) == SelectSeq(functions, LAMBDA f : f # 0)

ExecuteInitArray ==
  /\ pc = "init"
  /\ called' = Called(Constructors)
  /\ pc' = "running"
  /\ UNCHANGED <<image, so_base, text, data, load_size, written, memory, prot>>

Next == Load \/ Relocate \/ Resolve \/ Finalize \/ ExecuteInitArray

Spec == Init /\ [][Next]_vars

-----------------------------------------------------------------------------
(* Properties.                                                               *)

\* The type of the loader's state.
TypeOK ==
  /\ pc \in {"load", "relocate", "resolve", "finalize", "init", "running", "fatal"}
  /\ so_base \in BOOLEAN
  /\ text \in [base : Nat, size : Nat] /\ data \in [base : Nat, size : Nat]
  /\ load_size \in 0 .. HeapSize /\ written \subseteq Nat
  /\ memory \in [0 .. HeapSize - 1 -> Nat]
  /\ prot \in [Pages -> {"RWX", "RX", "RW"}]

\* What a relocation means: the address of the symbol, the image's or the
\* import's, or of the place in the image, from where the image was loaded.
Linked(r) ==
  IF r.type = "RELATIVE" THEN Base + r.addend
  ELSE IF r.sym \in DOMAIN Symbols THEN Base + Symbols[r.sym] + r.addend
  ELSE IF r.sym \in DOMAIN Imports THEN Imports[r.sym]
  ELSE 0

\* The passes leave imports in data (ABS64) unresolved.
Supported(r) == r.type = "ABS64" => r.sym \in DOMAIN Symbols

\* After both passes every relocated pointer is what the linker meant, and the
\* constructors called are those of .init_array, at these pointers and in order.
LinkedAsMeant ==
  /\ pc \in {"finalize", "init", "running"} =>
       \A r \in image.rels : Supported(r) => memory[r.offset] = Linked(r)
  /\ pc = "running" /\ (\A r \in image.rels : Supported(r)) =>
       LET meant(o) == IF \E r \in image.rels : r.offset = o
                       THEN Linked(CHOOSE r \in image.rels : r.offset = o) ELSE 0
       IN called = Called([i \in DOMAIN image.init |-> meant(image.init[i])])

\* Whatever the sizes of the segments, so_load writes inside the heap only.
WritesInHeap == written \subseteq 0 .. HeapSize - 1

\* The stages after so_load work on an image that was placed; the others never
\* get there.
Placement ==
  /\ WellFormed(image) /\ LaidOut(image)
  /\ pc \in {"resolve", "finalize", "init", "running"} => so_base
  /\ pc = "load" => ~so_base
  /\ ~so_base => text = Unset /\ data = Unset
  /\ so_base => /\ Placed(image)
                /\ text = Span(Segment(image.segs, TRUE)) /\ data = Span(Segment(image.segs, FALSE))

\* The pointers in the heap, pass by pass, and what was called at them.
Pointers ==
  /\ pc \in {"load", "relocate"} => \A o \in DOMAIN memory : memory[o] = 0
  /\ pc = "resolve" =>
       \A r \in image.rels : r.type # "other" /\ memory[r.offset] = Relocated(r, 0)
  /\ pc \in {"finalize", "init", "running"} =>
       \A r \in image.rels : r.type # "other" /\ memory[r.offset] = Resolved(r, Relocated(r, 0))
  /\ \A o \in DOMAIN memory : (\A r \in image.rels : r.offset # o) => memory[o] = 0
  /\ pc = "running" => called = Called(Constructors)

\* The pages of the segments are protected, the data's after the code's.
Protection ==
  pc \in {"init", "running"} =>
    /\ \A p \in Protected(data.base, data.size) : p \in Pages /\ prot[p] = "RW"
    /\ \A p \in Protected(text.base, text.size) \ Protected(data.base, data.size) :
         p \in Pages /\ prot[p] = "RX"

\* The loader, at any time: the inductive invariant of the proofs.
LoaderInv == TypeOK /\ WritesInHeap /\ Placement /\ Pointers /\ Protection

\* When constructors run, all data is writable and all code executable, but for
\* pages that code shares with data: protect_range covers every byte.
SegmentsUsable ==
  pc \in {"init", "running"} =>
    /\ \A a \in text.base .. text.base + text.size - 1 :
         prot[a \div Page] = "RX" \/ \E b \in data.base .. data.base + data.size - 1 :
                                       a \div Page = b \div Page
    /\ \A a \in data.base .. data.base + data.size - 1 : prot[a \div Page] = "RW"
=============================================================================
