------------------------------- MODULE MCBoot -------------------------------
(* Images and code for Boot.  The images have two segments of several sizes  *)
(* and distances, every flaw, and up to two relocations of every type        *)
(* against a symbol of the image, an import the program has, and one it has  *)
(* not; their code has no calls.  One more image has all programs of four    *)
(* instructions with branches of up to three instructions both ways.         *)
EXTENDS Boot

MCSymbols == [own |-> 1]
MCImports == [shim |-> 100]
Names == {"own", "shim", "nowhere"}

Segments(order, size, gap, bytes) ==
  LET first == [x |-> order[1], vaddr |-> 0, memsz |-> size]
      second == [x |-> order[2], vaddr |-> AlignUp(size, PAlign) + gap, memsz |-> bytes]
  IN <<first, second>>

\* The relocations' slots are the first two words of the second segment.
Rels(first) ==
  LET At(k) == {<<t, n, a>> : t \in Types, n \in Names, a \in {0, 2}}
      Rel(k, x) == [type |-> x[1], sym |-> x[2], addend |-> x[3], offset |-> first + k]
  IN {{}} \cup {{Rel(0, x)} : x \in At(0)}
     \cup {{Rel(0, x), Rel(1, y)} : x \in At(0), y \in {z \in At(1) : z[3] = 2 /\ z[1] # "other"}}

Image(flaw, segs, rels) ==
  [flaw |-> flaw, segs |-> segs, rels |-> rels,
   init |-> IF rels = {} THEN << >> ELSE <<segs[2].vaddr + 1, segs[2].vaddr>>]

CodeSize == 16

MCImages ==
  {Image("none", Segments(<<TRUE, FALSE>>, size, gap, bytes), {}) :
     size \in 1 .. 9, gap \in 0 .. 3, bytes \in 2 .. 17}
  \cup {Image(flaw, Segments(<<TRUE, FALSE>>, 3, 0, 2), {}) : flaw \in Flaws}
  \cup {Image("none", Segments(<<FALSE, TRUE>>, 3, 0, 3), {})}
  \cup {Image("none", Segments(<<TRUE, FALSE>>, CodeSize, 0, 2), {})}
  \cup LET segs == Segments(<<TRUE, FALSE>>, 3, 1, 3)
       IN {Image("none", segs, rels) : rels \in Rels(segs[2].vaddr)}

MCDisplacements == -3 .. 3
MCCodes == {<< >>, <<Other>>, <<Other, Other>>} \cup [1 .. CodeSize \div 4 -> Insns]
=============================================================================
