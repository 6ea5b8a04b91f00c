-------------------------------- MODULE Boot --------------------------------
(* main's boot (src/main.c): the loader's stages, and between resolve and    *)
(* protect the patch of the code, patch_all_stack_chk_branches: every call   *)
(* of __stack_chk_fail is sought, and the conditional branch to it, up to 16 *)
(* instructions before, is replaced by a NOP.  (The other patches store      *)
(* fixed words at fixed places.)                                             *)
(*                                                                           *)
(* Instructions are decoded into their kind and their raw immediate field;   *)
(* "cond" stands for b.cond, cbz and cbnz.  The decoders compute in uint32_t *)
(* and uintptr_t, here modulo Word and Ptr; fields have BlRange and CondRange *)
(* values.                                                                   *)
EXTENDS SoLoader

CONSTANTS Word, Ptr,             \* 2^32, 2^64
          BlRange, CondRange,    \* 2^26, 2^19
          Window,                \* 16, how far back a branch is sought
          Codes,                 \* code of text segments, decoded
          Displacements,         \* branch distances that occur, in instructions
          Plts                   \* places of __stack_chk_fail@plt, in instructions

Half(range) == range \div 2

NOP == [kind |-> "nop", imm |-> 0]
Other == [kind |-> "other", imm |-> 0]
Insns == {Other} \cup {[kind |-> "bl", imm |-> d % BlRange] : d \in Displacements}
                 \cup {[kind |-> "cond", imm |-> d % CondRange] : d \in Displacements}

ASSUME PatchAssumption ==
  /\ \A range \in {BlRange, CondRange} :
       /\ range \in Nat /\ range > 0 /\ range < Word /\ Half(range) * 2 = range
       /\ \A d \in Displacements : d \in -Half(range) .. Half(range) - 1
  /\ Word \in Nat /\ Ptr \in Nat /\ Window \in Nat
  /\ Base + HeapSize + 4 * Word < Ptr
  /\ 4 * Word > 8 * (BlRange + CondRange + HeapSize)
  /\ \A code \in Codes : code \in Seq(Insns)
  /\ Plts \subseteq 0 .. HeapSize

VARIABLES
  plt,               \* fail_plt, as an instruction number
  words,             \* the text segment
  i,                 \* instructions scanned
  patched, missed

patch == <<plt, words, i, patched, missed>>
bootvars == <<vars, patch>>

BootInit ==
  /\ Init
  /\ plt \in Plts
  /\ words = << >> /\ i = 0 /\ patched = 0 /\ missed = 0

-----------------------------------------------------------------------------
(* The decoders.                                                             *)

\* (value ^ sign_bit) - sign_bit in uint32_t, then widened to intptr_t.
SignExtend(value, range) ==
  LET flipped == IF value < Half(range) THEN value + Half(range) ELSE value - Half(range)
  IN (flipped - Half(range)) % Word

Address(k) == text.base + 4 * (k - 1)      \* of the k-th instruction
FailPlt == text.base + 4 * plt

BlTarget(k) == (Address(k) + 4 * SignExtend(words[k].imm, BlRange)) % Ptr
CondTarget(k) == (Address(k) + 4 * SignExtend(words[k].imm, CondRange)) % Ptr

-----------------------------------------------------------------------------
(* The scan.                                                                 *)

Count == text.size \div 4

IsCall(k) == words[k].kind = "bl" /\ BlTarget(k) = FailPlt

\* Mutation: any conditional branch before the call will do.
LeadsAnywhere(b, k) == words[b].kind = "cond"
LeadsTo(b, k) == words[b].kind = "cond" /\ CondTarget(b) = Address(k)

\* Mutation: the window is one instruction short.
ReachShort(k) == {b \in 1 .. k - 1 : k - b < Window}
Reach(k) == {b \in 1 .. k - 1 : k - b <= Window}

Branches(k) == {b \in Reach(k) : LeadsTo(b, k)}

Chosen(k) == IF Branches(k) = {} THEN {} ELSE {Max(Branches(k))}

\* One turn of the outer loop.
Scan ==
  /\ pc = "finalize"
  /\ i < Count
  /\ i' = i + 1
  /\ IF IsCall(i')
     THEN /\ words' = [k \in 1 .. Count |-> IF k \in Chosen(i') THEN NOP ELSE words[k]]
          /\ patched' = patched + Cardinality(Chosen(i'))
          /\ missed' = IF Chosen(i') = {} THEN missed + 1 ELSE missed
     ELSE UNCHANGED <<words, patched, missed>>
  /\ UNCHANGED <<plt, vars>>

-----------------------------------------------------------------------------
\* so_load copies the code in.
LoadCode ==
  /\ Load
  /\ IF Placed(image)
     THEN words' \in {code \in Codes : Len(code) = text'.size \div 4}
     ELSE UNCHANGED words
  /\ UNCHANGED <<plt, i, patched, missed>>

\* Protection is set when the code was patched.
FinalizePatched == i = Count /\ Finalize

BootNext ==
  \/ LoadCode
  \/ Scan
  \/ (Relocate \/ Resolve \/ FinalizePatched \/ ExecuteInitArray) /\ UNCHANGED patch

BootSpec == BootInit /\ [][BootNext]_bootvars

-----------------------------------------------------------------------------
(* Properties.  The processor's view: fields are signed.                     *)

Signed(value, range) == IF value < Half(range) THEN value ELSE value - range
Reaches(k, insn, range) == k + Signed(insn.imm, range)

CallsFail(k) == words[k].kind = "bl" /\ Reaches(k, words[k], BlRange) = plt + 1
GoesTo(b, insn, k) == insn.kind = "cond" /\ Reaches(b, insn, CondRange) = k

\* The type of the scan's state; each call counts once, as patched or missed.
PatchTypeOK ==
  /\ plt \in Plts /\ i \in 0 .. Count
  /\ words \in Seq(Insns \cup {NOP})
  /\ patched = Cardinality({k \in DOMAIN words : words[k] = NOP})
  /\ missed \in 0 .. i
  /\ patched + missed <= Cardinality({k \in 1 .. i : words[k].kind = "bl"})

\* The patch never touches anything but a branch to a call of
\* __stack_chk_fail, by what the processor would have done with it, although
\* the decoders get negative distances wrong.
OnlyChecksDisabled ==
  [][words # << >> =>
       \A b \in DOMAIN words : words'[b] # words[b] =>
         \E k \in b + 1 .. b + Window : k <= Count /\ CallsFail(k) /\ GoesTo(b, words[b], k)]_words

\* No call of __stack_chk_fail at k that lies in front of the plt has a live
\* branch in reach that leads to it, or one was disabled: the nearest goes.
CutOff(k) ==
  CallsFail(k) /\ plt + 1 >= k =>
    \A b \in 1 .. k - 1 : k - b <= Window /\ GoesTo(b, words[b], k) =>
      \E c \in b + 1 .. k - 1 : words[c] = NOP

\* When constructors run, every call in front of the plt is cut off.
ForwardChecksDisabled ==
  pc \in {"init", "running"} => \A k \in 1 .. Count : CutOff(k)

\* The scan works on the code that was copied in, between resolve and protect.
ScanShape ==
  /\ so_base => Len(words) = Count
  /\ ~so_base => words = << >>
  /\ pc \in {"load", "relocate", "resolve"} => i = 0
  /\ pc \in {"init", "running"} => i = Count

\* The scan, at any time: the inductive invariant of the proofs, with LoaderInv.
PatchInv ==
  PatchTypeOK /\ ScanShape /\ (\A k \in 1 .. i : CutOff(k)) /\ ForwardChecksDisabled

\* src/main.c:340, "disabled %d stack-check branches to __stack_chk_fail@plt
\* (missed %d)": each call in the code was patched or counted as missed.
CallsAccounted ==
  pc \in {"init", "running"} =>
    patched + missed = Cardinality({k \in 1 .. Count : CallsFail(k)})
=============================================================================
