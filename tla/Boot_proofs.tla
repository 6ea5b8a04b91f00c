----------------------------- MODULE Boot_proofs -----------------------------
(* Proofs about SoLoader and Boot, for any images, page sizes and code: the  *)
(* loader writes inside its heap, links what the image means and protects    *)
(* the segments; the patch disables stack checks and nothing else.           *)
EXTENDS Boot, FiniteSetTheorems, WellFoundedInduction, TLAPS

-----------------------------------------------------------------------------
(* Numbers: minima and maxima, quotients.                                    *)

LEMMA LeastOf ==
  ASSUME NEW T \in SUBSET Nat, T # {}
  PROVE  \E x \in T : \A y \in T : x <= y
  <1> DEFINE R == OpToRel(<, Nat)
  <1>1. IsWellFoundedOn(R, Nat)
    BY NatLessThanWellFounded, Zenon
  <1>2. \A x, y \in Nat : x < y => <<x, y>> \in R
    BY DEF OpToRel
  <1> HIDE DEF R
  <1>3. \E x \in T : \A y \in T : ~ (<<y, x>> \in R)
    BY <1>1, WFMin
  <1>4. PICK x \in T : \A y \in T : ~ (<<y, x>> \in R)
    BY <1>3
  <1>5. \A y \in T : ~ (y < x)
    BY <1>2, <1>4
  <1> QED BY <1>5
LEMMA MaxOf ==
  ASSUME NEW n \in Nat, NEW S \in SUBSET (1 .. n), S # {}
  PROVE  Max(S) \in S /\ \A y \in S : y <= Max(S)
  <1> DEFINE T == {n - x : x \in S}
  <1>0. \A x \in S : x \in Int /\ n - x \in Nat
    OBVIOUS
  <1>1. T \in SUBSET Nat /\ T # {}
    BY <1>0
  <1> HIDE DEF T
  <1>2. PICK t \in T : \A u \in T : t <= u
    BY <1>1, LeastOf
  <1>3. PICK x \in S : t = n - x
    BY DEF T
  <1>4. ASSUME NEW y \in S PROVE y <= x
    <2>1. n - y \in T
      BY DEF T
    <2> QED BY <2>1, <1>2, <1>3, <1>0
  <1>5. \E m \in S : \A y \in S : y <= m
    BY <1>4
  <1>6. \A m \in S : (\A y \in S : y <= m) <=> (\A y \in S : m >= y)
    BY <1>0
  <1> QED BY <1>5, <1>6 DEF Max

LEMMA DivFacts ==
  ASSUME NEW n \in Nat, NEW d \in Nat \ {0}
  PROVE  /\ n \div d \in Nat
         /\ d * (n \div d) <= n /\ n < d * (n \div d) + d
         /\ n % d \in 0 .. d - 1 /\ n % d = n - d * (n \div d)
  BY Z3

LEMMA DivIs ==
  ASSUME NEW n \in Nat, NEW d \in Nat \ {0}, NEW q \in Nat, d * q <= n, n < d * q + d
  PROVE  n \div d = q
  BY Z3
LEMMA DivAdds ==
  ASSUME NEW q \in Nat, NEW r \in Nat, NEW d \in Nat \ {0}
  PROVE  (d * q + r) \div d = q + r \div d
  <1>1. r \div d \in Nat /\ d * (r \div d) <= r /\ r < d * (r \div d) + d
    BY DivFacts
  <1> DEFINE k == r \div d
  <1> HIDE DEF k
  <1>2. k \in Nat /\ d * k <= r /\ r < d * k + d
    BY <1>1 DEF k
  <1>3. d * (q + k) <= d * q + r /\ d * q + r < d * (q + k) + d
    BY <1>2, Z3
  <1>4. d * q + r \in Nat
    OBVIOUS
  <1>5. (d * q + r) \div d = q + k
    BY <1>2, <1>3, <1>4, DivIs
  <1> QED BY <1>5 DEF k

LEMMA AlignUpFacts ==
  ASSUME NEW n \in Nat, NEW d \in Nat \ {0}
  PROVE  AlignUp(n, d) \in Nat /\ n <= AlignUp(n, d)
  <1>1. n + d - 1 \in Nat
    OBVIOUS
  <1> DEFINE k == (n + d - 1) \div d
  <1>2. k \in Nat /\ n + d - 1 < d * k + d
    BY <1>1, DivFacts
  <1>3. AlignUp(n, d) = k * d
    BY DEF AlignUp
  <1> HIDE DEF k
  <1>4. k * d \in Nat /\ k * d = d * k
    BY <1>2
  <1> QED BY <1>2, <1>3, <1>4

\* The pages protect_range covers are those of the range's bytes.
LEMMA ProtectedIs ==
  ASSUME NEW start \in Nat, NEW len \in Nat \ {0}
  PROVE  Protected(start, len) = start \div Page .. (start + len - 1) \div Page
  <1> DEFINE q == start \div Page
             r == start % Page
             e == r + len - 1
             m == e \div Page
  <1>1. Page \in Nat \ {0}
    BY LoaderAssumption
  <1>2. q \in Nat /\ r \in 0 .. Page - 1 /\ start - r = Page * q
    <2>1. q \in Nat /\ r \in 0 .. Page - 1 /\ r = start - Page * q
      BY <1>1, DivFacts
    <2> HIDE DEF q, r
    <2>2. Page * q \in Nat
      BY <1>1, <2>1
    <2> QED BY <1>1, <2>1, <2>2
  <1>3. e \in Nat
    <2> HIDE DEF r
    <2> QED BY <1>1, <1>2
  <1>4. m \in Nat
    <2> HIDE DEF e
    <2> QED BY <1>1, <1>3, DivFacts
  <1>5. Protected(start, len) =
          (start - r) \div Page .. (start - r + AlignUp(len + (start - (start - r)), Page)) \div Page - 1
    BY DEF Protected
  <1>6. start + len - 1 = Page * q + e /\ start - (start - r) = r /\ len + r = e + 1
    <2> HIDE DEF q, r
    <2> QED BY <1>1, <1>2
  <1>7. AlignUp(e + 1, Page) = Page * (m + 1)
    <2> HIDE DEF e
    <2>1. e + 1 + Page - 1 = Page * 1 + e
      BY <1>1, <1>3
    <2>2. (Page * 1 + e) \div Page = 1 + m
      BY <1>1, <1>3, DivAdds
    <2> HIDE DEF m
    <2> QED BY <2>1, <2>2, <1>1, <1>4 DEF AlignUp
  <1> HIDE DEF q, r, e, m
  <1>8. (Page * q) \div Page = q
    <2>1. Page * q <= Page * q /\ Page * q < Page * q + Page /\ Page * q \in Nat
      BY <1>1, <1>2
    <2> QED BY <2>1, <1>1, <1>2, DivIs
  <1>9. (Page * q + Page * (m + 1)) \div Page = q + m + 1
    <2>1. Page * q + Page * (m + 1) = Page * (q + m + 1)
      BY <1>1, <1>2, <1>4
    <2>2. q + m + 1 \in Nat /\ Page * (q + m + 1) \in Nat
      BY <1>1, <1>2, <1>4
    <2> QED BY <2>1, <2>2, <1>1, DivIs
  <1>10. (start + len - 1) \div Page = q + m
    <2>1. (Page * q + e) \div Page = q + e \div Page
      BY <1>1, <1>2, <1>3, DivAdds
    <2> QED BY <2>1, <1>6 DEF m
  <1>11. Protected(start, len) = q .. (q + m + 1) - 1
    <2>1. AlignUp(len + (start - (start - r)), Page) = Page * (m + 1)
      BY <1>6, <1>7
    <2>2. (start - r) \div Page = q
      BY <1>2, <1>8
    <2>3. (start - r + AlignUp(len + (start - (start - r)), Page)) \div Page = q + m + 1
      BY <2>1, <1>2, <1>9
    <2> QED BY <2>2, <2>3, <1>5, Zenon
  <1>12. (q + m + 1) - 1 = q + m
    BY <1>2, <1>4
  <1> QED BY <1>10, <1>11, <1>12 DEF q

\* A page in between holds a byte of the range.
LEMMA PageHasByte ==
  ASSUME NEW start \in Nat, NEW len \in Nat \ {0}, NEW p \in Protected(start, len)
  PROVE  \E b \in start .. start + len - 1 : b \div Page = p
  <1>1. Page \in Nat \ {0} /\ start + len - 1 \in Nat
    BY LoaderAssumption
  <1> DEFINE q == start \div Page
             e == (start + len - 1) \div Page
  <1>2. /\ q \in Nat /\ Page * q <= start /\ start < Page * q + Page
        /\ e \in Nat /\ Page * e <= start + len - 1
    BY <1>1, DivFacts
  <1>3. p \in q .. e
    BY ProtectedIs
  <1>4. CASE p = q
    BY <1>1, <1>4
  <1>5. CASE p # q
    <2> HIDE DEF q, e
    <2>1. q + 1 <= p /\ p <= e /\ p \in Nat
      BY <1>2, <1>3, <1>5
    <2>2. Page * (q + 1) <= Page * p /\ Page * p <= Page * e
      BY <2>1, <1>1, <1>2, Z3
    <2>3. Page * (q + 1) = Page * q + Page
      BY <1>1, <1>2
    <2>4. Page * p \in Nat /\ Page * p < Page * p + Page /\ Page * q \in Nat /\ Page * e \in Nat
      BY <2>1, <1>1, <1>2
    <2>5. (Page * p) \div Page = p
      BY <2>1, <2>4, <1>1, DivIs
    <2>6. Page * p \in start .. start + len - 1
      BY <2>2, <2>3, <2>4, <1>1, <1>2
    <2> QED BY <2>5, <2>6
  <1> QED BY <1>4, <1>5

\* A byte of the range lies in a page of it.
LEMMA ByteHasPage ==
  ASSUME NEW start \in Nat, NEW len \in Nat \ {0}, NEW a \in start .. start + len - 1
  PROVE  a \div Page \in Protected(start, len)
  <1>1. Page \in Nat \ {0} /\ start + len - 1 \in Nat /\ a \in Nat
    BY LoaderAssumption
  <1> DEFINE q == start \div Page
             k == a \div Page
             e == (start + len - 1) \div Page
  <1>2. /\ q \in Nat /\ Page * q <= start
        /\ k \in Nat /\ Page * k <= a /\ a < Page * k + Page
        /\ e \in Nat /\ start + len - 1 < Page * e + Page
    BY <1>1, DivFacts
  <1>3. Protected(start, len) = q .. e
    BY ProtectedIs
  <1> HIDE DEF q, k, e
  <1>4. Page * q < Page * (k + 1) /\ Page * k < Page * (e + 1)
    <2>1. Page * (k + 1) = Page * k + Page /\ Page * (e + 1) = Page * e + Page
      BY <1>1, <1>2
    <2>2. Page * q \in Nat /\ Page * k \in Nat /\ Page * e \in Nat
      BY <1>1, <1>2
    <2> QED BY <2>1, <2>2, <1>1, <1>2
  <1>5. q < k + 1 /\ k < e + 1
    BY <1>4, <1>1, <1>2, Z3
  <1>6. k \in q .. e
    BY <1>5, <1>2
  <1> QED BY <1>3, <1>6 DEF k

-----------------------------------------------------------------------------
(* The loader: where an image lies and where its pointers are.               *)

SegmentType == [x : BOOLEAN, vaddr : Nat, memsz : Nat \ {0}]

\* There is a last segment of either kind.
LEMMA SegmentFacts ==
  ASSUME NEW img, WellFormed(img), NEW x \in BOOLEAN
  PROVE  Segment(img.segs, x) \in SegmentType
  <1> DEFINE S == {k \in DOMAIN img.segs : img.segs[k].x = x}
  <1>1. img.segs \in Seq(SegmentType) /\ \E k, j \in DOMAIN img.segs : img.segs[k].x /\ ~img.segs[j].x
    BY DEF WellFormed, SegmentType
  <1>2. DOMAIN img.segs = 1 .. Len(img.segs) /\ Len(img.segs) \in Nat
    BY <1>1
  <1>3. \A k \in DOMAIN img.segs : img.segs[k] \in SegmentType /\ img.segs[k].x \in BOOLEAN
    <2>1. \A k \in DOMAIN img.segs : img.segs[k] \in SegmentType
      BY <1>1
    <2>2. \A seg \in SegmentType : seg.x \in BOOLEAN
      BY Zenon DEF SegmentType
    <2> QED BY <2>1, <2>2
  <1>4. S \in SUBSET (1 .. Len(img.segs)) /\ S # {}
    BY <1>1, <1>2, <1>3
  <1>5. Max(S) \in S
    BY <1>2, <1>4, MaxOf
  <1>6. Segment(img.segs, x) = img.segs[Max(S)]
    BY DEF Segment
  <1> HIDE DEF S
  <1>7. Max(S) \in DOMAIN img.segs
    BY <1>5 DEF S
  <1> QED BY <1>3, <1>6, <1>7

\* A placed image lies in the heap, code before data.
LEMMA PlacedFacts ==
  ASSUME NEW img, WellFormed(img), LaidOut(img), Placed(img)
  PROVE  /\ Segment(img.segs, TRUE).vaddr = 0
         /\ Segment(img.segs, TRUE).memsz \in Nat \ {0}
         /\ Segment(img.segs, FALSE).vaddr \in Nat
         /\ Segment(img.segs, FALSE).memsz \in Nat \ {0}
         /\ Segment(img.segs, TRUE).memsz <= Segment(img.segs, FALSE).vaddr
         /\ LoadSize(img.segs) \in Nat /\ LoadSize(img.segs) <= HeapSize
         /\ Segment(img.segs, FALSE).vaddr + Segment(img.segs, FALSE).memsz <= LoadSize(img.segs)
  <1> DEFINE code == Segment(img.segs, TRUE)
             rest == Segment(img.segs, FALSE)
  <1>1. code.memsz \in Nat \ {0} /\ rest.vaddr \in Nat /\ rest.memsz \in Nat \ {0}
    BY SegmentFacts DEF SegmentType
  <1>2. code.vaddr = 0 /\ code.memsz <= rest.vaddr
    BY DEF LaidOut
  <1>3. ~TooLarge(img.segs)
    BY DEF Placed, Result
  <1> DEFINE a == AlignUp(rest.memsz, PAlign)
  <1>4. LoadSize(img.segs) = AlignUp(rest.vaddr + a, Page)
    BY DEF LoadSize
  <1> HIDE DEF code, rest
  <1>5. a \in Nat /\ rest.memsz <= a
    BY <1>1, AlignUpFacts, LoaderAssumption
  <1> HIDE DEF a
  <1>6. rest.vaddr + a \in Nat
    BY <1>1, <1>5
  <1>7. LoadSize(img.segs) \in Nat /\ rest.vaddr + a <= LoadSize(img.segs)
    BY <1>4, <1>6, AlignUpFacts, LoaderAssumption
  <1>8. LoadSize(img.segs) <= HeapSize
    BY <1>3, <1>7, LoaderAssumption DEF TooLarge
  <1>9. rest.vaddr + rest.memsz <= LoadSize(img.segs)
    BY <1>1, <1>5, <1>7
  <1> QED BY <1>1, <1>2, <1>7, <1>8, <1>9 DEF code, rest

\* Where the stages find the image, and that its pointers lie in the heap.
LEMMA WhereFacts ==
  ASSUME Placement, so_base
  PROVE  /\ text.base = Base /\ text.size \in Nat \ {0} /\ text.size <= HeapSize
         /\ data.base \in Nat /\ data.size \in Nat \ {0}
         /\ text \in [base : Nat, size : Nat] /\ data \in [base : Nat, size : Nat]
         /\ \A r \in image.rels : r.offset \in 0 .. HeapSize - 1
         /\ \A k \in DOMAIN image.init : image.init[k] \in 0 .. HeapSize - 1
  <1> DEFINE code == Segment(image.segs, TRUE)
             rest == Segment(image.segs, FALSE)
             size == LoadSize(image.segs)
  <1>1. WellFormed(image) /\ LaidOut(image) /\ Placed(image)
    BY DEF Placement
  <1>2. /\ code.vaddr = 0 /\ code.memsz \in Nat \ {0} /\ rest.vaddr \in Nat
        /\ rest.memsz \in Nat \ {0} /\ code.memsz <= rest.vaddr
        /\ size \in Nat /\ size <= HeapSize /\ rest.vaddr + rest.memsz <= size
    BY <1>1, PlacedFacts
  <1>3. text = [base |-> Base + code.vaddr, size |-> code.memsz]
        /\ data = [base |-> Base + rest.vaddr, size |-> rest.memsz]
    BY DEF Placement, Span
  <1>4. /\ \A r \in image.rels : r.offset \in Nat /\ r.offset < rest.vaddr + rest.memsz
        /\ \A k \in DOMAIN image.init : image.init[k] \in Nat /\ image.init[k] < rest.vaddr + rest.memsz
    <2>1. \A r \in image.rels : r.offset \in Nat
      BY <1>1 DEF WellFormed
    <2>2. \A k \in DOMAIN image.init : image.init[k] \in Nat
      BY <1>1 DEF WellFormed
    <2> QED BY <1>1, <2>1, <2>2 DEF LaidOut
  <1> HIDE DEF code, rest, size
  <1>5. text.base = Base /\ text.size = code.memsz /\ data.base = Base + rest.vaddr
        /\ data.size = rest.memsz
    BY <1>2, <1>3, LoaderAssumption
  <1>6. Base \in Nat /\ HeapSize \in Nat
    BY LoaderAssumption
  <1>7. code.memsz <= HeapSize
    BY <1>2, <1>6
  <1>8. text \in [base : Nat, size : Nat] /\ data \in [base : Nat, size : Nat]
    BY <1>2, <1>3, <1>6
  <1>9. \A n \in Nat : n < rest.vaddr + rest.memsz => n \in 0 .. HeapSize - 1
    BY <1>2, <1>6
  <1> QED BY <1>2, <1>4, <1>5, <1>6, <1>7, <1>8, <1>9

\* A pass stores at the relocations' slots and nowhere else.
LEMMA StoredFacts ==
  ASSUME Placement, so_base, memory \in [0 .. HeapSize - 1 -> Nat],
         NEW value, \A r \in image.rels : value[r] \in Nat
  PROVE  /\ Stored(value) \in [0 .. HeapSize - 1 -> Nat]
         /\ \A r \in image.rels : Stored(value)[r.offset] = value[r]
         /\ \A o \in 0 .. HeapSize - 1 :
              (\A r \in image.rels : r.offset # o) => Stored(value)[o] = memory[o]
  <1>1. text.base = Base /\ \A r \in image.rels : r.offset \in 0 .. HeapSize - 1
    BY WhereFacts
  <1>2. Base \in Nat
    BY LoaderAssumption
  <1>3. \A r \in image.rels, o \in 0 .. HeapSize - 1 :
          text.base + r.offset = Base + o <=> r.offset = o
    BY <1>1, <1>2
  <1>4. \A r, s \in image.rels : r.offset = s.offset => r = s
    BY DEF Placement, WellFormed
  <1>5. DOMAIN memory = 0 .. HeapSize - 1
    OBVIOUS
  <1>6. ASSUME NEW o \in 0 .. HeapSize - 1, \A r \in image.rels : r.offset # o
        PROVE  Stored(value)[o] = memory[o]
    BY <1>3, <1>5, <1>6 DEF Stored
  <1>7. ASSUME NEW r \in image.rels PROVE Stored(value)[r.offset] = value[r]
    <2> DEFINE s == CHOOSE s \in image.rels : text.base + s.offset = Base + r.offset
    <2>1. r.offset \in 0 .. HeapSize - 1 /\ text.base + r.offset = Base + r.offset
      BY <1>1
    <2>2. s \in image.rels /\ text.base + s.offset = Base + r.offset
      BY <2>1
    <2>3. Stored(value)[r.offset] = value[s]
      BY <1>5, <2>1 DEF Stored
    <2> HIDE DEF s
    <2>4. s = r
      BY <2>1, <2>2, <1>3, <1>4
    <2> QED BY <2>3, <2>4
  <1>8. ASSUME NEW o \in 0 .. HeapSize - 1 PROVE Stored(value)[o] \in Nat
    BY <1>6, <1>7
  <1>9. Stored(value) = [o \in 0 .. HeapSize - 1 |-> Stored(value)[o]]
    BY <1>5 DEF Stored
  <1> QED BY <1>6, <1>7, <1>8, <1>9

\* Both passes store addresses.
LEMMA AddressFacts ==
  ASSUME NEW r \in image.rels, WellFormed(image), text.base = Base, NEW old \in Nat
  PROVE  Relocated(r, old) \in Nat /\ Resolved(r, old) \in Nat
  <1>1. r.addend \in Nat
    BY DEF WellFormed
  <1> QED BY <1>1, LoaderAssumption DEF Relocated, Resolved, SymbolAddress

\* What these say of the next state where the image stays.
LEMMA SameAddresses ==
  ASSUME UNCHANGED text
  PROVE  \A r, old : Relocated(r, old)' = Relocated(r, old)
  BY DEF Relocated, SymbolAddress

-----------------------------------------------------------------------------
(* The loader's invariant, step by step.                                     *)

LEMMA InitLoaderInv == Init => LoaderInv
  <1> SUFFICES ASSUME Init PROVE LoaderInv
    OBVIOUS
  <1>1. /\ pc = "load" /\ so_base = FALSE /\ text = Unset /\ data = Unset
        /\ load_size = 0 /\ written = {}
        /\ memory = [o \in 0 .. HeapSize - 1 |-> 0] /\ image \in Images
    BY DEF Init
  <1>2. prot \in [Pages -> {"RWX", "RX", "RW"}]
    BY DEF Init
  <1>3. TypeOK
    <2>1. so_base \in BOOLEAN
      BY <1>1
    <2>2. text \in [base : Nat, size : Nat] /\ data \in [base : Nat, size : Nat]
      BY <1>1 DEF Unset
    <2>3. load_size \in 0 .. HeapSize /\ memory \in [0 .. HeapSize - 1 -> Nat]
      BY <1>1, LoaderAssumption
    <2> QED BY <1>1, <1>2, <2>1, <2>2, <2>3 DEF TypeOK
  <1>4. WritesInHeap
    BY <1>1 DEF WritesInHeap
  <1>5. Placement
    BY <1>1, LoaderAssumption, LayoutAssumption DEF Placement
  <1>6. Pointers
    BY <1>1 DEF Pointers
  <1>7. Protection
    BY <1>1 DEF Protection
  <1> QED BY <1>3, <1>4, <1>5, <1>6, <1>7 DEF LoaderInv

LEMMA LoadInv == LoaderInv /\ Load => LoaderInv'
  <1> SUFFICES ASSUME LoaderInv, Load PROVE LoaderInv'
    OBVIOUS
  <1>1. /\ pc = "load" /\ pc' \in {"fatal", "relocate"}
        /\ UNCHANGED <<image, memory, prot, called>>
    BY DEF Load
  <1>2. TypeOK /\ WritesInHeap /\ Placement /\ Pointers
    BY DEF LoaderInv
  <1>3. Pointers'
    BY <1>1, <1>2 DEF Pointers
  <1>4. Protection'
    BY <1>1 DEF Protection
  <1>5. ~so_base /\ text = Unset /\ data = Unset
    BY <1>1, <1>2 DEF Placement
  <1>6. WellFormed(image') /\ LaidOut(image')
    BY <1>1, <1>2 DEF Placement
  <1>7. CASE Placed(image)
    <2> DEFINE code == Segment(image.segs, TRUE)
               rest == Segment(image.segs, FALSE)
    <2>1. /\ so_base' = TRUE /\ load_size' = LoadSize(image.segs)
          /\ text' = Span(code) /\ data' = Span(rest)
          /\ written' = 0 .. load_size' - 1 \cup Offsets(code) \cup Offsets(rest)
      BY <1>7 DEF Load
    <2>2. Placement'
      BY <1>1, <1>6, <1>7, <2>1 DEF Placement
    <2>3. /\ code.vaddr = 0 /\ code.memsz \in Nat \ {0} /\ rest.vaddr \in Nat
          /\ rest.memsz \in Nat \ {0} /\ code.memsz <= rest.vaddr
          /\ load_size' \in Nat /\ load_size' <= HeapSize /\ rest.vaddr + rest.memsz <= load_size'
      BY <1>2, <1>7, <2>1, PlacedFacts DEF Placement
    <2> HIDE DEF code, rest
    <2>4. Offsets(code) = code.vaddr .. code.vaddr + code.memsz - 1
          /\ Offsets(rest) = rest.vaddr .. rest.vaddr + rest.memsz - 1
      BY DEF Offsets
    <2>5. \A o \in written' : o \in 0 .. HeapSize - 1
      BY <2>1, <2>3, <2>4, LoaderAssumption
    <2>6. text' \in [base : Nat, size : Nat] /\ data' \in [base : Nat, size : Nat]
      BY <2>1, <2>3, LoaderAssumption DEF Span
    <2>7. TypeOK'
      <3>1. so_base' \in BOOLEAN
        BY <2>1
      <3>2. load_size' \in 0 .. HeapSize /\ written' \subseteq Nat
        BY <2>3, <2>5, LoaderAssumption
      <3> QED BY <1>1, <1>2, <2>6, <3>1, <3>2 DEF TypeOK
    <2> QED BY <1>3, <1>4, <2>2, <2>5, <2>7 DEF LoaderInv, WritesInHeap
  <1>8. CASE ~Placed(image)
    <2>1. UNCHANGED <<so_base, load_size, text, data, written>>
      BY <1>8 DEF Load
    <2>2. TypeOK'
      BY <1>1, <1>2, <2>1 DEF TypeOK
    <2>3. WritesInHeap'
      BY <1>2, <2>1 DEF WritesInHeap
    <2>4. Placement'
      BY <1>1, <1>5, <1>6, <2>1 DEF Placement
    <2> QED BY <1>3, <1>4, <2>2, <2>3, <2>4 DEF LoaderInv
  <1> QED BY <1>7, <1>8

LEMMA RelocateInv == LoaderInv /\ Relocate => LoaderInv'
  <1> SUFFICES ASSUME LoaderInv, Relocate PROVE LoaderInv'
    OBVIOUS
  <1>1. /\ pc = "relocate" /\ so_base
        /\ UNCHANGED <<image, so_base, text, data, load_size, written, prot, called>>
    BY DEF Relocate
  <1>2. TypeOK /\ WritesInHeap /\ Placement /\ Pointers
    BY DEF LoaderInv
  <1>3. WritesInHeap'
    BY <1>1, <1>2 DEF WritesInHeap
  <1>4. pc' \in {"fatal", "resolve"}
    BY DEF Relocate
  <1>5. Protection'
    BY <1>4 DEF Protection
  <1>6. Placement'
    BY <1>1, <1>2, <1>4 DEF Placement
  <1>7. CASE \E r \in image.rels : r.type = "other"
    <2>1. pc' = "fatal" /\ UNCHANGED memory
      BY <1>7 DEF Relocate
    <2>2. TypeOK'
      BY <1>1, <1>2, <2>1 DEF TypeOK
    <2>3. Pointers'
      BY <1>1, <1>2, <2>1 DEF Pointers
    <2> QED BY <1>3, <1>5, <1>6, <2>2, <2>3 DEF LoaderInv
  <1>8. CASE ~ \E r \in image.rels : r.type = "other"
    <2> DEFINE value == [r \in image.rels |-> Relocated(r, Old(r))]
    <2>1. pc' = "resolve" /\ memory' = Stored(value)
      BY <1>8 DEF Relocate
    <2>2. memory \in [0 .. HeapSize - 1 -> Nat] /\ \A o \in 0 .. HeapSize - 1 : memory[o] = 0
      BY <1>1, <1>2 DEF TypeOK, Pointers
    <2>3. \A r \in image.rels : Old(r) = 0
      BY <1>1, <1>2, <2>2, WhereFacts, LoaderAssumption DEF Old
    <2>4. \A r \in image.rels : value[r] = Relocated(r, 0) /\ value[r] \in Nat
      BY <1>1, <1>2, <2>3, WhereFacts, AddressFacts DEF Placement
    <2> HIDE DEF value
    <2>5. /\ memory' \in [0 .. HeapSize - 1 -> Nat]
          /\ \A r \in image.rels : memory'[r.offset] = value[r]
          /\ \A o \in 0 .. HeapSize - 1 :
               (\A r \in image.rels : r.offset # o) => memory'[o] = memory[o]
      BY <1>1, <1>2, <2>1, <2>2, <2>4, StoredFacts
    <2>6. TypeOK'
      BY <1>1, <1>2, <2>1, <2>5 DEF TypeOK
    <2>7. \A r \in image'.rels : r.type # "other" /\ memory'[r.offset] = Relocated(r, 0)'
      BY <1>1, <1>8, <2>4, <2>5, SameAddresses
    <2>8. \A o \in DOMAIN memory' : (\A r \in image'.rels : r.offset # o) => memory'[o] = 0
      BY <1>1, <2>2, <2>5
    <2>9. Pointers'
      BY <2>1, <2>7, <2>8 DEF Pointers
    <2> QED BY <1>3, <1>5, <1>6, <2>6, <2>9 DEF LoaderInv
  <1> QED BY <1>7, <1>8

LEMMA ResolveInv == LoaderInv /\ Resolve => LoaderInv'
  <1> SUFFICES ASSUME LoaderInv, Resolve PROVE LoaderInv'
    OBVIOUS
  <1> DEFINE value == [r \in image.rels |-> Resolved(r, Old(r))]
  <1>1. /\ pc = "resolve" /\ pc' = "finalize" /\ memory' = Stored(value)
        /\ UNCHANGED <<image, so_base, text, data, load_size, written, prot, called>>
    BY DEF Resolve
  <1>2. TypeOK /\ WritesInHeap /\ Placement /\ Pointers /\ so_base
    BY <1>1 DEF LoaderInv, Placement
  <1>3. WritesInHeap'
    BY <1>1, <1>2 DEF WritesInHeap
  <1>4. Protection'
    BY <1>1 DEF Protection
  <1>5. Placement'
    BY <1>1, <1>2 DEF Placement
  <1>6. \A r \in image.rels : Old(r) = Relocated(r, 0) /\ Old(r) \in Nat /\ r.type # "other"
    <2>1. \A r \in image.rels : r.type # "other" /\ memory[r.offset] = Relocated(r, 0)
      BY <1>1, <1>2 DEF Pointers
    <2>2. \A r \in image.rels : text.base + r.offset - Base = r.offset /\ memory[r.offset] \in Nat
      BY <1>2, WhereFacts, LoaderAssumption DEF TypeOK
    <2> QED BY <2>1, <2>2 DEF Old
  <1>7. \A r \in image.rels : value[r] = Resolved(r, Relocated(r, 0)) /\ value[r] \in Nat
    BY <1>2, <1>6, WhereFacts, AddressFacts DEF Placement
  <1> HIDE DEF value
  <1>8. /\ memory' \in [0 .. HeapSize - 1 -> Nat]
        /\ \A r \in image.rels : memory'[r.offset] = value[r]
        /\ \A o \in 0 .. HeapSize - 1 :
             (\A r \in image.rels : r.offset # o) => memory'[o] = memory[o]
    BY <1>1, <1>2, <1>7, StoredFacts DEF TypeOK
  <1>9. TypeOK'
    BY <1>1, <1>2, <1>8 DEF TypeOK
  <1>10. Pointers'
    <2>1. \A r \in image'.rels :
            r.type # "other" /\ memory'[r.offset] = Resolved(r, Relocated(r, 0)')
      BY <1>1, <1>6, <1>7, <1>8, SameAddresses
    <2>2. \A o \in DOMAIN memory' : (\A r \in image'.rels : r.offset # o) => memory'[o] = 0
      BY <1>1, <1>2, <1>8 DEF TypeOK, Pointers
    <2> QED BY <1>1, <2>1, <2>2 DEF Pointers, Resolved
  <1> QED BY <1>3, <1>4, <1>5, <1>9, <1>10 DEF LoaderInv

LEMMA FinalizeInv == LoaderInv /\ Finalize => LoaderInv'
  <1> SUFFICES ASSUME LoaderInv, Finalize PROVE LoaderInv'
    OBVIOUS
  <1> DEFINE rx == Protected(text.base, text.size)
             rw == Protected(data.base, data.size)
  <1>1. /\ pc = "finalize" /\ pc' \in {"init", "fatal"}
        /\ UNCHANGED <<image, so_base, text, data, load_size, written, memory, called>>
    BY DEF Finalize
  <1>2. TypeOK /\ WritesInHeap /\ Placement /\ Pointers
    BY DEF LoaderInv
  <1>3. WritesInHeap'
    BY <1>1, <1>2 DEF WritesInHeap
  <1>4. Placement'
    BY <1>1, <1>2 DEF Placement
  <1>5. Pointers'
    <2>1. \A r : Resolved(r, Relocated(r, 0))' = Resolved(r, Relocated(r, 0))
      BY <1>1, SameAddresses DEF Resolved
    <2> QED BY <1>1, <1>2, <2>1 DEF Pointers
  <1>6. TypeOK' /\ Protection'
    <2>1. CASE rx \cup rw \subseteq Pages
      <3>1. prot' = [p \in Pages |-> IF p \in rw THEN "RW" ELSE IF p \in rx THEN "RX" ELSE prot[p]]
        BY <2>1 DEF Finalize
      <3> HIDE DEF rx, rw
      <3>2. prot' \in [Pages -> {"RWX", "RX", "RW"}]
        BY <1>2, <3>1 DEF TypeOK
      <3>3. TypeOK'
        BY <1>1, <1>2, <3>2 DEF TypeOK
      <3>4. /\ \A p \in rw : p \in Pages /\ prot'[p] = "RW"
            /\ \A p \in rx \ rw : p \in Pages /\ prot'[p] = "RX"
        BY <2>1, <3>1
      <3> QED BY <1>1, <3>3, <3>4 DEF Protection, rx, rw
    <2>2. CASE ~(rx \cup rw \subseteq Pages)
      <3>1. pc' = "fatal" /\ UNCHANGED prot
        BY <2>2 DEF Finalize
      <3> QED BY <1>1, <1>2, <3>1 DEF Protection, TypeOK
    <2> QED BY <2>1, <2>2
  <1> QED BY <1>3, <1>4, <1>5, <1>6 DEF LoaderInv

LEMMA ExecuteInitArrayInv == LoaderInv /\ ExecuteInitArray => LoaderInv'
  <1> SUFFICES ASSUME LoaderInv, ExecuteInitArray PROVE LoaderInv'
    OBVIOUS
  <1>1. /\ pc = "init" /\ pc' = "running" /\ called' = Called(Constructors)
        /\ UNCHANGED <<image, so_base, text, data, load_size, written, memory, prot>>
    BY DEF ExecuteInitArray
  <1>2. TypeOK /\ WritesInHeap /\ Placement /\ Pointers /\ Protection
    BY DEF LoaderInv
  <1>3. WritesInHeap' /\ Placement' /\ Protection' /\ TypeOK'
    BY <1>1, <1>2 DEF WritesInHeap, Placement, Protection, TypeOK
  <1>4. Pointers'
    <2>1. \A r : Resolved(r, Relocated(r, 0))' = Resolved(r, Relocated(r, 0))
      BY <1>1, SameAddresses DEF Resolved
    <2>2. Constructors' = Constructors
      BY <1>1 DEF Constructors
    <2>3. Called(Constructors)' = Called(Constructors)
      BY <2>2
    <2> QED BY <1>1, <1>2, <2>1, <2>3 DEF Pointers
  <1> QED BY <1>2, <1>3, <1>4 DEF LoaderInv

LEMMA LoaderFrame == LoaderInv /\ UNCHANGED vars => LoaderInv'
  <1> SUFFICES ASSUME LoaderInv, UNCHANGED vars PROVE LoaderInv'
    OBVIOUS
  <1>1. UNCHANGED <<image, pc, so_base, text, data, load_size, written, memory, prot, called>>
    BY DEF vars
  <1>2. TypeOK /\ WritesInHeap /\ Placement /\ Pointers /\ Protection
    BY DEF LoaderInv
  <1>3. WritesInHeap' /\ Placement' /\ Protection' /\ TypeOK'
    BY <1>1, <1>2 DEF WritesInHeap, Placement, Protection, TypeOK
  <1>4. Pointers'
    <2>1. \A r : Resolved(r, Relocated(r, 0))' = Resolved(r, Relocated(r, 0))
                 /\ Relocated(r, 0)' = Relocated(r, 0)
      BY <1>1, SameAddresses DEF Resolved
    <2>2. Constructors' = Constructors
      BY <1>1 DEF Constructors
    <2>3. Called(Constructors)' = Called(Constructors)
      BY <2>2
    <2> QED BY <1>1, <1>2, <2>1, <2>3 DEF Pointers
  <1> QED BY <1>3, <1>4 DEF LoaderInv

LEMMA LoaderStep == LoaderInv /\ [Next]_vars => LoaderInv'
  BY LoadInv, RelocateInv, ResolveInv, FinalizeInv, ExecuteInitArrayInv, LoaderFrame DEF Next

-----------------------------------------------------------------------------
(* What the loader's invariant says of a program that got that far.          *)

LEMMA AddressesMeant ==
  ASSUME NEW r, text.base = Base, r.type \in Types \ {"other"}, Supported(r)
  PROVE  Resolved(r, Relocated(r, 0)) = Linked(r)
  <1>1. r.type \in {"ABS64", "RELATIVE", "GLOB_DAT", "JUMP_SLOT"}
    BY DEF Types
  <1>2. CASE r.type = "RELATIVE"
    <2>1. Relocated(r, 0) = Base + r.addend
      BY <1>2 DEF Relocated
    <2>2. Resolved(r, Relocated(r, 0)) = Relocated(r, 0)
      BY <1>2 DEF Resolved
    <2>3. Linked(r) = Base + r.addend
      BY <1>2 DEF Linked
    <2> QED BY <2>1, <2>2, <2>3
  <1>3. CASE r.type = "ABS64"
    <2>1. Relocated(r, 0) = Base + Symbols[r.sym] + r.addend
      BY <1>3 DEF Relocated, Supported, SymbolAddress
    <2>2. Resolved(r, Relocated(r, 0)) = Relocated(r, 0)
      BY <1>3 DEF Resolved
    <2>3. Linked(r) = Base + Symbols[r.sym] + r.addend
      BY <1>3 DEF Linked, Supported
    <2> QED BY <2>1, <2>2, <2>3
  <1>4. CASE r.type \in {"GLOB_DAT", "JUMP_SLOT"}
    <2>1. CASE r.sym \in DOMAIN Symbols
      <3>1. Relocated(r, 0) = Base + Symbols[r.sym] + r.addend
        BY <1>4, <2>1 DEF Relocated, SymbolAddress
      <3>2. Resolved(r, Relocated(r, 0)) = Relocated(r, 0)
        BY <2>1 DEF Resolved
      <3>3. Linked(r) = Base + Symbols[r.sym] + r.addend
        BY <1>4, <2>1 DEF Linked
      <3> QED BY <3>1, <3>2, <3>3
    <2>2. CASE r.sym \notin DOMAIN Symbols
      <3>1. Relocated(r, 0) = 0
        BY <1>4, <2>2 DEF Relocated
      <3> QED BY <1>4, <2>2, <3>1 DEF Resolved, Linked
    <2> QED BY <2>1, <2>2
  <1> QED BY <1>1, <1>2, <1>3, <1>4

LEMMA LoaderLinks == LoaderInv => LinkedAsMeant
  <1> SUFFICES ASSUME LoaderInv PROVE LinkedAsMeant
    OBVIOUS
  <1> DEFINE meant(o) == IF \E r \in image.rels : r.offset = o
                         THEN Linked(CHOOSE r \in image.rels : r.offset = o) ELSE 0
  <1>1. TypeOK /\ Placement /\ Pointers
    BY DEF LoaderInv
  <1>2. ASSUME pc \in {"finalize", "init", "running"}, NEW r \in image.rels, Supported(r)
        PROVE  memory[r.offset] = Linked(r)
    <2>1. text.base = Base
      BY <1>1, <1>2, WhereFacts DEF Placement
    <2>2. r.type \in Types \ {"other"}
      BY <1>1, <1>2 DEF Placement, WellFormed, Pointers
    <2>3. memory[r.offset] = Resolved(r, Relocated(r, 0))
      BY <1>1, <1>2 DEF Pointers
    <2> QED BY <2>1, <2>2, <2>3, <1>2, AddressesMeant
  <1>3. ASSUME pc = "running", \A r \in image.rels : Supported(r)
        PROVE  called = Called([k \in DOMAIN image.init |-> meant(image.init[k])])
    <2>1. called = Called(Constructors)
      BY <1>1, <1>3 DEF Pointers
    <2>2. /\ text.base = Base
          /\ \A k \in DOMAIN image.init : image.init[k] \in 0 .. HeapSize - 1
      BY <1>1, <1>3, WhereFacts DEF Placement
    <2>3. ASSUME NEW o \in 0 .. HeapSize - 1 PROVE memory[o] = meant(o)
      <3>1. CASE \E r \in image.rels : r.offset = o
        <4> DEFINE r == CHOOSE r \in image.rels : r.offset = o
        <4>1. r \in image.rels /\ r.offset = o
          BY <3>1
        <4>2. meant(o) = Linked(r)
          BY <3>1
        <4> HIDE DEF r
        <4> QED BY <4>1, <4>2, <1>2, <1>3
      <3>2. CASE ~ \E r \in image.rels : r.offset = o
        <4>1. o \in DOMAIN memory
          BY <1>1 DEF TypeOK
        <4> QED BY <4>1, <3>2, <1>1 DEF Pointers
      <3> QED BY <3>1, <3>2
    <2>4. \A k \in DOMAIN image.init : text.base - Base + image.init[k] = image.init[k]
      BY <2>2, LoaderAssumption
    <2> HIDE DEF meant
    <2>5. Constructors = [k \in DOMAIN image.init |-> meant(image.init[k])]
      BY <2>2, <2>3, <2>4 DEF Constructors
    <2> QED BY <2>1, <2>5
  <1> QED BY <1>2, <1>3 DEF LinkedAsMeant

LEMMA LoaderProtects == LoaderInv => SegmentsUsable
  <1> SUFFICES ASSUME LoaderInv, pc \in {"init", "running"}
               PROVE  /\ \A a \in text.base .. text.base + text.size - 1 :
                           prot[a \div Page] = "RX" \/ \E b \in data.base .. data.base + data.size - 1 :
                                                         a \div Page = b \div Page
                      /\ \A a \in data.base .. data.base + data.size - 1 : prot[a \div Page] = "RW"
    BY DEF SegmentsUsable
  <1>1. Placement /\ Protection
    BY DEF LoaderInv
  <1>2. /\ text.base \in Nat /\ text.size \in Nat \ {0}
        /\ data.base \in Nat /\ data.size \in Nat \ {0}
    BY <1>1, WhereFacts, LoaderAssumption DEF Placement
  <1>3. /\ \A p \in Protected(data.base, data.size) : prot[p] = "RW"
        /\ \A p \in Protected(text.base, text.size) \ Protected(data.base, data.size) : prot[p] = "RX"
    BY <1>1 DEF Protection
  <1>4. ASSUME NEW a \in text.base .. text.base + text.size - 1
        PROVE  prot[a \div Page] = "RX" \/ \E b \in data.base .. data.base + data.size - 1 :
                                             a \div Page = b \div Page
    <2>1. a \div Page \in Protected(text.base, text.size)
      BY <1>2, ByteHasPage
    <2>2. CASE a \div Page \in Protected(data.base, data.size)
      BY <2>2, <1>2, PageHasByte
    <2>3. CASE a \div Page \notin Protected(data.base, data.size)
      BY <2>1, <2>3, <1>3
    <2> QED BY <2>2, <2>3
  <1>5. ASSUME NEW a \in data.base .. data.base + data.size - 1
        PROVE  prot[a \div Page] = "RW"
    <2>1. a \div Page \in Protected(data.base, data.size)
      BY <1>2, ByteHasPage
    <2> QED BY <2>1, <1>3
  <1> QED BY <1>4, <1>5

-----------------------------------------------------------------------------
(* The theorems about the loader.                                            *)

\* Its inductive invariant, so_load's stores in the heap among it.
THEOREM LoaderCorrect == Spec => []LoaderInv
  BY InitLoaderInv, LoaderStep, PTL DEF Spec

\* The pointers after so_relocate and so_resolve, and the constructors that
\* so_execute_init_array calls at them.
THEOREM PointersAreMeant == Spec => []LinkedAsMeant
  BY LoaderCorrect, LoaderLinks, PTL

\* The pages that so_finalize protects.
THEOREM ProtectionCovers == Spec => []SegmentsUsable
  BY LoaderCorrect, LoaderProtects, PTL

\* main's boot with the patch is a run of the loader, so that what holds of the
\* loader holds here.
THEOREM BootLoads == BootSpec => Spec
  <1>1. BootInit => Init
    BY DEF BootInit
  <1>2. BootNext => [Next]_vars
    BY DEF BootNext, LoadCode, Scan, FinalizePatched, Next
  <1>3. UNCHANGED bootvars => UNCHANGED vars
    BY DEF bootvars
  <1> QED BY <1>1, <1>2, <1>3, PTL DEF BootSpec, Spec

-----------------------------------------------------------------------------
(* The decoders: right for branches ahead, and what they make of branches    *)
(* back is no place in the heap.                                             *)

LEMMA ModIs ==
  ASSUME NEW n \in Int, NEW d \in Nat \ {0}, NEW q \in Int, d * q <= n, n < d * q + d
  PROVE  n % d = n - d * q
  <1>1. n \div d \in Int /\ d * (n \div d) <= n /\ n < d * (n \div d) + d
    BY Z3
  <1>2. n % d = n - d * (n \div d)
    BY Z3
  <1> DEFINE k == n \div d
  <1> HIDE DEF k
  <1>3. k \in Int /\ d * k <= n /\ n < d * k + d
    BY <1>1 DEF k
  <1>4. d * k < d * (q + 1) /\ d * q < d * (k + 1)
    <2>1. d * (q + 1) = d * q + d /\ d * (k + 1) = d * k + d
      BY <1>3
    <2>2. d * q \in Int /\ d * k \in Int
      BY <1>3
    <2> QED BY <1>3, <2>1, <2>2
  <1>5. k < q + 1 /\ q < k + 1
    BY <1>3, <1>4, Z3
  <1>6. k = q
    BY <1>3, <1>5
  <1> QED BY <1>2, <1>6 DEF k

LEMMA RangeFacts ==
  ASSUME NEW range \in {BlRange, CondRange}
  PROVE  /\ range \in Nat \ {0} /\ range < Word /\ 4 * range + 4 * HeapSize < 4 * Word
         /\ Half(range) \in Nat /\ Half(range) + Half(range) = range
         /\ Word \in Nat \ {0} /\ Ptr \in Nat \ {0} /\ HeapSize \in Nat /\ Base \in Nat
         /\ Base + HeapSize + 4 * Word < Ptr
  <1>1. /\ BlRange \in Nat /\ CondRange \in Nat /\ BlRange > 0 /\ CondRange > 0
        /\ range \in Nat /\ range > 0 /\ range < Word /\ Half(range) * 2 = range
        /\ Word \in Nat /\ Ptr \in Nat /\ Base + HeapSize + 4 * Word < Ptr
        /\ 4 * Word > 8 * (BlRange + CondRange + HeapSize)
    BY PatchAssumption
  <1>2. HeapSize \in Nat /\ Base \in Nat
    BY LoaderAssumption
  <1>3. Half(range) \in Nat
    BY <1>1, DivFacts DEF Half
  <1> QED BY <1>1, <1>2, <1>3

LEMMA SignExtendFacts ==
  ASSUME NEW range \in {BlRange, CondRange}, NEW v \in 0 .. range - 1
  PROVE  SignExtend(v, range) = IF v < Half(range) THEN v ELSE Word + v - range
  <1> DEFINE h == Half(range)
  <1>1. /\ range \in Nat \ {0} /\ range < Word /\ h \in Nat /\ h + h = range
        /\ Word \in Nat \ {0}
    BY RangeFacts
  <1>2. SignExtend(v, range) = ((IF v < h THEN v + h ELSE v - h) - h) % Word
    BY DEF SignExtend
  <1> HIDE DEF h
  <1>3. CASE v < h
    <2>1. (IF v < h THEN v + h ELSE v - h) - h = v
      BY <1>1, <1>3
    <2>2. v % Word = v
      BY <1>1, ModIs
    <2> QED BY <2>1, <2>2, <1>2, <1>3 DEF h
  <1>4. CASE ~(v < h)
    <2>1. (IF v < h THEN v + h ELSE v - h) - h = v - range /\ v - range \in Int
      BY <1>1, <1>4
    <2>2. Word * (-1) <= v - range /\ v - range < Word * (-1) + Word
      BY <1>1
    <2>3. (v - range) % Word = (v - range) - Word * (-1)
      BY <1>1, <2>1, <2>2, ModIs
    <2> QED BY <2>1, <2>3, <1>1, <1>2, <1>4 DEF h
  <1> QED BY <1>3, <1>4

\* What a decoder says of the instruction at k.
LEMMA Decodes ==
  ASSUME Placement, so_base, NEW k \in 1 .. Count,
         NEW range \in {BlRange, CondRange}, NEW v \in 0 .. range - 1, NEW m \in 0 .. HeapSize
  PROVE  (Address(k) + 4 * SignExtend(v, range)) % Ptr = text.base + 4 * m
           <=> v < Half(range) /\ k + v = m + 1
  <1> DEFINE s == SignExtend(v, range)
             a == Address(k) + 4 * s
             h == Half(range)
  <1>1. /\ range \in Nat \ {0} /\ range < Word /\ 4 * range + 4 * HeapSize < 4 * Word
        /\ h \in Nat /\ h + h = range
        /\ Word \in Nat \ {0} /\ Ptr \in Nat \ {0} /\ HeapSize \in Nat /\ Base \in Nat
        /\ Base + HeapSize + 4 * Word < Ptr
    BY RangeFacts
  <1>2. k \in Nat \ {0} /\ 4 * k <= HeapSize
    <2>1. text.size \in Nat /\ text.size <= HeapSize
      BY WhereFacts
    <2>2. Count \in Nat /\ 4 * Count <= text.size
      BY <2>1, Z3 DEF Count
    <2> QED BY <2>1, <2>2, <1>1
  <1>3. text.base = Base /\ Address(k) = Base + 4 * (k - 1)
    BY WhereFacts DEF Address
  <1>4. s = IF v < h THEN v ELSE Word + v - range
    BY SignExtendFacts
  <1> HIDE DEF s, h
  <1>5. a \in Nat /\ a < Ptr
    BY <1>1, <1>2, <1>3, <1>4
  <1>6. a % Ptr = a
    <2> HIDE DEF a
    <2>1. a % Ptr = a - Ptr * 0
      BY <1>1, <1>5, ModIs
    <2> QED BY <1>1, <1>5, <2>1
  <1>7. a = text.base + 4 * m <=> v < h /\ k + v = m + 1
    BY <1>1, <1>2, <1>3, <1>4
  <1> QED BY <1>6, <1>7 DEF s, h

LEMMA InsnFacts ==
  ASSUME NEW w \in Insns \cup {NOP}
  PROVE  /\ w.kind = "bl" => w.imm \in 0 .. BlRange - 1
         /\ w.kind = "cond" => w.imm \in 0 .. CondRange - 1
  <1>1. \A d \in Displacements : d % BlRange \in 0 .. BlRange - 1 /\ d % CondRange \in 0 .. CondRange - 1
    <2>1. \A d \in Displacements : d \in -Half(BlRange) .. Half(BlRange) - 1
      BY PatchAssumption
    <2>2. BlRange \in Nat \ {0} /\ CondRange \in Nat \ {0} /\ Half(BlRange) \in Nat
      BY RangeFacts
    <2>3. \A d \in Displacements : d \in Int
      BY <2>1, <2>2
    <2> QED BY <2>2, <2>3, Z3
  <1> QED BY <1>1 DEF Insns, NOP, Other

\* The scan finds the calls of __stack_chk_fail in front of the plt, and of the
\* branches before them those that lead there.
LEMMA CallFacts ==
  ASSUME Placement, so_base, PatchTypeOK, Len(words) = Count, NEW k \in 1 .. Count
  PROVE  /\ IsCall(k) <=> CallsFail(k) /\ plt + 1 >= k
         /\ \A b \in 1 .. k - 1 : LeadsTo(b, k) <=> GoesTo(b, words[b], k)
  <1>1. /\ plt \in 0 .. HeapSize /\ HeapSize \in Nat
        /\ words \in Seq(Insns \cup {NOP}) /\ DOMAIN words = 1 .. Count
    BY PatchAssumption, LoaderAssumption DEF PatchTypeOK
  <1>2. Count \in Nat /\ 4 * Count <= HeapSize
    <2>1. text.size \in Nat /\ text.size <= HeapSize
      BY WhereFacts
    <2>2. Count \in Nat /\ 4 * Count <= text.size
      BY <2>1, Z3 DEF Count
    <2> QED BY <2>1, <2>2, <1>1
  <1>3. \A b \in 1 .. Count : words[b] \in Insns \cup {NOP}
    BY <1>1
  <1>4. IsCall(k) <=> CallsFail(k) /\ plt + 1 >= k
    <2>1. CASE words[k].kind # "bl"
      BY <2>1 DEF IsCall, CallsFail
    <2>2. CASE words[k].kind = "bl"
      <3> DEFINE v == words[k].imm
                 h == Half(BlRange)
      <3>1. v \in 0 .. BlRange - 1
        BY <1>3, <2>2, InsnFacts
      <3>2. IsCall(k) <=> v < h /\ k + v = plt + 1
        BY <1>1, <2>2, <3>1, Decodes DEF IsCall, BlTarget, FailPlt
      <3>3. CallsFail(k) <=> k + (IF v < h THEN v ELSE v - BlRange) = plt + 1
        BY <2>2 DEF CallsFail, Reaches, Signed
      <3>4. BlRange \in Nat
        BY RangeFacts
      <3> HIDE DEF v, h
      <3> QED BY <1>1, <1>2, <3>1, <3>2, <3>3, <3>4
    <2> QED BY <2>1, <2>2
  <1>5. ASSUME NEW b \in 1 .. k - 1 PROVE LeadsTo(b, k) <=> GoesTo(b, words[b], k)
    <2>1. CASE words[b].kind # "cond"
      BY <2>1 DEF LeadsTo, GoesTo
    <2>2. CASE words[b].kind = "cond"
      <3> DEFINE v == words[b].imm
                 h == Half(CondRange)
      <3>0. b \in 1 .. Count /\ k - 1 \in 0 .. HeapSize
        BY <1>1, <1>2
      <3>1. v \in 0 .. CondRange - 1
        BY <1>3, <2>2, <3>0, InsnFacts
      <3>2. LeadsTo(b, k) <=> v < h /\ b + v = (k - 1) + 1
        <4>1. LeadsTo(b, k) <=> CondTarget(b) = text.base + 4 * (k - 1)
          BY <2>2 DEF LeadsTo, Address
        <4>2. CondTarget(b) = (Address(b) + 4 * SignExtend(v, CondRange)) % Ptr
          BY DEF CondTarget
        <4> HIDE DEF v
        <4>3. CondTarget(b) = text.base + 4 * (k - 1) <=> v < h /\ b + v = (k - 1) + 1
          BY <4>2, <3>0, <3>1, Decodes
        <4> QED BY <4>1, <4>3
      <3>3. GoesTo(b, words[b], k) <=> b + (IF v < h THEN v ELSE v - CondRange) = k
        BY <2>2 DEF GoesTo, Reaches, Signed
      <3>4. CondRange \in Nat
        BY RangeFacts
      <3> HIDE DEF v, h
      <3> QED BY <1>2, <3>0, <3>1, <3>2, <3>3, <3>4
    <2> QED BY <2>1, <2>2
  <1> QED BY <1>4, <1>5

-----------------------------------------------------------------------------
(* The patch's invariant, step by step.                                      *)

Nops == {k \in DOMAIN words : words[k] = NOP}
CallsIn(n) == {k \in 1 .. n : words[k].kind = "bl"}

\* ForwardChecksDisabled is what the other parts come to when the scan is over.
ScanInv == PatchTypeOK /\ ScanShape /\ \A k \in 1 .. i : CutOff(k)

LEMMA ScanInvFacts == ScanInv => PatchInv
  BY DEF ScanInv, PatchInv, ScanShape, ForwardChecksDisabled

LEMMA CountFacts ==
  ASSUME Placement, so_base
  PROVE  Count \in Nat
  <1>1. text.size \in Nat
    BY WhereFacts
  <1> QED BY <1>1, Z3 DEF Count

\* One turn of the loop at k that writes NOP over the instructions C: over one,
\* a branch in reach that leads to the call at k, with no other such branch
\* behind it, or over none.
Writes(C, k) ==
  /\ words' = [b \in 1 .. Count |-> IF b \in C THEN NOP ELSE words[b]]
  /\ \/ /\ C = {} /\ patched' = patched
        /\ missed' = missed \/ (missed' = missed + 1 /\ IsCall(k))
     \/ /\ \E c \in 1 .. i : C = {c}
        /\ patched' = patched + 1 /\ missed' = missed /\ IsCall(k)
  /\ \A c \in C : LeadsTo(c, k) /\ k - c <= Window
  /\ IsCall(k) => \A b \in 1 .. i : k - b <= Window /\ LeadsTo(b, k) => \E c \in C : b <= c

LEMMA ScanWrites ==
  ASSUME LoaderInv, ScanInv, Scan
  PROVE  \E C \in SUBSET (1 .. i) : Writes(C, i + 1)
  <1> DEFINE k == i + 1
  <1>1. /\ pc = "finalize" /\ i < Count /\ i' = k /\ so_base
    BY DEF Scan, LoaderInv, Placement
  <1>2. Count \in Nat /\ i \in Nat /\ Len(words) = Count /\ words \in Seq(Insns \cup {NOP})
    BY <1>1, CountFacts DEF LoaderInv, ScanInv, PatchTypeOK, ScanShape
  <1>3. words = [b \in 1 .. Count |-> words[b]]
    BY <1>2
  <1>4. k - 1 = i
    BY <1>2
  <1>5. Branches(k) = {b \in 1 .. i : k - b <= Window /\ LeadsTo(b, k)}
    BY <1>4 DEF Branches, Reach
  <1>6. CASE ~IsCall(k)
    <2>1. UNCHANGED <<words, patched, missed>>
      BY <1>1, <1>6 DEF Scan
    <2>2. Writes({}, k)
      BY <1>3, <1>6, <2>1 DEF Writes
    <2> QED BY <2>2
  <1>7. CASE IsCall(k)
    <2>1. /\ words' = [b \in 1 .. Count |-> IF b \in Chosen(k) THEN NOP ELSE words[b]]
          /\ patched' = patched + Cardinality(Chosen(k))
          /\ missed' = IF Chosen(k) = {} THEN missed + 1 ELSE missed
      BY <1>1, <1>7 DEF Scan
    <2>2. patched \in Nat /\ missed \in Nat
      <3>1. patched = Cardinality(Nops) /\ Nops \subseteq 1 .. Count /\ missed \in 0 .. i
        BY <1>2 DEF ScanInv, PatchTypeOK, Nops
      <3>2. IsFiniteSet(1 .. Count)
        BY <1>2, FS_Interval
      <3>3. IsFiniteSet(Nops)
        BY <3>1, <3>2, FS_Subset
      <3> QED BY <3>1, <3>3, <1>2, FS_CardinalityType
    <2>3. CASE Branches(k) = {}
      <3>1. Chosen(k) = {}
        BY <2>3 DEF Chosen
      <3>2. patched' = patched /\ missed' = missed + 1
        BY <2>1, <2>2, <3>1, FS_EmptySet
      <3>3. words' = [b \in 1 .. Count |-> IF b \in {} THEN NOP ELSE words[b]]
        BY <2>1, <3>1
      <3>4. \A b \in 1 .. i : ~(k - b <= Window /\ LeadsTo(b, k))
        BY <1>5, <2>3
      <3> HIDE DEF k
      <3>5. Writes({}, k)
        BY <1>7, <3>2, <3>3, <3>4 DEF Writes
      <3> QED BY <3>5 DEF k
    <2>4. CASE Branches(k) # {}
      <3> DEFINE m == Max(Branches(k))
      <3>1. Chosen(k) = {m}
        BY <2>4 DEF Chosen
      <3>2. Branches(k) \in SUBSET (1 .. i)
        BY <1>5
      <3>3. m \in Branches(k) /\ \A b \in Branches(k) : b <= m
        BY <1>2, <2>4, <3>2, MaxOf
      <3> HIDE DEF m
      <3>4. Cardinality({m}) = 1
        BY FS_Singleton
      <3>5. patched' = patched + 1 /\ missed' = missed
        BY <2>1, <3>1, <3>4
      <3>6. {m} \in SUBSET (1 .. i) /\ m \in 1 .. i /\ k - m <= Window /\ LeadsTo(m, k)
        BY <1>5, <3>3
      <3>7. \A b \in 1 .. i : k - b <= Window /\ LeadsTo(b, k) => b <= m
        BY <1>5, <3>3
      <3>8. words' = [b \in 1 .. Count |-> IF b \in {m} THEN NOP ELSE words[b]]
        BY <2>1, <3>1
      <3> HIDE DEF k
      <3>9. \A c \in {m} : LeadsTo(c, k) /\ k - c <= Window
        BY <3>6
      <3>10. \A b \in 1 .. i : k - b <= Window /\ LeadsTo(b, k) => \E c \in {m} : b <= c
        BY <3>7
      <3>11. \E c \in 1 .. i : {m} = {c}
        BY <3>6
      <3>12. Writes({m}, k)
        BY <1>7, <3>5, <3>8, <3>9, <3>10, <3>11, Zenon DEF Writes
      <3> QED BY <3>6, <3>12 DEF k
    <2> QED BY <2>3, <2>4
  <1> QED BY <1>6, <1>7

LEMMA InitScanInv == BootInit => ScanInv
  <1> SUFFICES ASSUME BootInit PROVE ScanInv
    OBVIOUS
  <1>1. /\ so_base = FALSE /\ text = Unset /\ pc = "load" /\ plt \in Plts
        /\ words = << >> /\ i = 0 /\ patched = 0 /\ missed = 0
    BY DEF BootInit, Init
  <1>2. Count = 0
    <2>1. text.size = 0
      BY <1>1 DEF Unset
    <2> QED BY <2>1, Z3 DEF Count
  <1>3. {k \in DOMAIN words : words[k] = NOP} = {} /\ {k \in 1 .. i : words[k].kind = "bl"} = {}
    BY <1>1
  <1>4. Cardinality({}) = 0
    BY FS_EmptySet
  <1>5. words \in Seq(Insns \cup {NOP}) /\ Len(words) = 0
    BY <1>1
  <1>6. PatchTypeOK
    BY <1>1, <1>2, <1>3, <1>4, <1>5 DEF PatchTypeOK
  <1>7. ScanShape
    BY <1>1 DEF ScanShape
  <1> QED BY <1>1, <1>6, <1>7 DEF ScanInv

LEMMA LoadCodeInv == LoaderInv /\ ScanInv /\ LoadCode => ScanInv'
  <1> SUFFICES ASSUME LoaderInv, ScanInv, LoadCode PROVE ScanInv'
    OBVIOUS
  <1>1. /\ pc = "load" /\ pc' \in {"fatal", "relocate"} /\ ~so_base /\ Placement
        /\ UNCHANGED <<plt, i, patched, missed>> /\ Load
    BY DEF LoadCode, Load, LoaderInv, Placement
  <1>2. /\ i = 0 /\ words = << >> /\ plt \in Plts /\ missed = 0 /\ patched = Cardinality(Nops)
    BY <1>1 DEF ScanInv, ScanShape, PatchTypeOK, Nops
  <1>3. patched = 0
    <2>1. Nops = {}
      BY <1>2 DEF Nops
    <2> QED BY <1>2, <2>1, FS_EmptySet
  <1>4. (\A k \in 1 .. i : CutOff(k))'
    BY <1>1, <1>2
  <1>5. Cardinality({k \in 1 .. i' : words'[k].kind = "bl"}) = 0
    <2>1. {k \in 1 .. i' : words'[k].kind = "bl"} = {}
      BY <1>1, <1>2
    <2> QED BY <2>1, FS_EmptySet
  <1>6. LoaderInv'
    BY LoadInv, <1>1
  <1>7. CASE Placed(image)
    <2>1. so_base' /\ words' \in {code \in Codes : Len(code) = text'.size \div 4}
      BY <1>7 DEF LoadCode, Load
    <2>2. words' \in Seq(Insns) /\ Len(words') = Count'
      BY <2>1, PatchAssumption DEF Count
    <2>3. Count' \in Nat
      BY <2>2
    <2>4. \A w \in Insns : w # NOP
      BY DEF Insns, NOP, Other
    <2>5. {k \in DOMAIN words' : words'[k] = NOP} = {}
      BY <2>2, <2>4
    <2>6. Cardinality({k \in DOMAIN words' : words'[k] = NOP}) = 0
      BY <2>5, FS_EmptySet
    <2>7. words' \in Seq(Insns \cup {NOP})
      BY <2>2
    <2>8. PatchTypeOK'
      BY <1>1, <1>2, <1>3, <1>5, <2>3, <2>6, <2>7 DEF PatchTypeOK
    <2>9. ScanShape'
      BY <1>1, <1>2, <2>1, <2>2 DEF ScanShape
    <2> QED BY <1>4, <2>8, <2>9 DEF ScanInv
  <1>8. CASE ~Placed(image)
    <2>1. UNCHANGED <<so_base, text, words>>
      BY <1>8 DEF LoadCode, Load
    <2>2. PatchTypeOK'
      BY <1>1, <2>1 DEF PatchTypeOK, ScanInv, Count
    <2>3. ScanShape'
      BY <1>1, <1>2, <2>1 DEF ScanShape
    <2> QED BY <1>4, <2>2, <2>3 DEF ScanInv
  <1> QED BY <1>7, <1>8

\* The patch's own steps aside, the scan's state stays.
LEMMA ScanFrame ==
  ASSUME ScanInv, UNCHANGED <<plt, words, i, patched, missed, text, so_base>>,
         pc' \in {"load", "relocate", "resolve"} => i = 0, pc' \in {"init", "running"} => i = Count
  PROVE  ScanInv'
  <1>1. PatchTypeOK'
    BY DEF ScanInv, PatchTypeOK, Count
  <1>2. ScanShape'
    BY DEF ScanInv, ScanShape, Count
  <1>3. (\A k \in 1 .. i : CutOff(k))'
    BY DEF ScanInv, CutOff, CallsFail, GoesTo, Reaches
  <1> QED BY <1>1, <1>2, <1>3 DEF ScanInv

LEMMA StagesInv ==
  ScanInv /\ (Relocate \/ Resolve \/ FinalizePatched \/ ExecuteInitArray) /\ UNCHANGED patch => ScanInv'
  <1> SUFFICES ASSUME ScanInv, Relocate \/ Resolve \/ FinalizePatched \/ ExecuteInitArray, UNCHANGED patch
               PROVE  ScanInv'
    OBVIOUS
  <1>1. UNCHANGED <<plt, words, i, patched, missed, text, so_base>>
    BY DEF patch, Relocate, Resolve, FinalizePatched, Finalize, ExecuteInitArray
  <1>2. /\ pc \in {"load", "relocate", "resolve"} => i = 0
        /\ pc \in {"init", "running"} => i = Count
    BY DEF ScanInv, ScanShape
  <1>3. /\ pc' \in {"load", "relocate", "resolve"} => i = 0
        /\ pc' \in {"init", "running"} => i = Count
    BY <1>2 DEF Relocate, Resolve, FinalizePatched, Finalize, ExecuteInitArray
  <1> QED BY <1>1, <1>3, ScanFrame

\* What a turn leaves: NOPs stay, branches and calls that are left are as before.
LEMMA WritesFacts ==
  ASSUME LoaderInv, ScanInv, Scan, NEW C \in SUBSET (1 .. i), Writes(C, i + 1)
  PROVE  /\ i \in Nat /\ i + 1 \in 1 .. Count /\ Count \in Nat /\ Count' = Count
         /\ i' = i + 1 /\ plt' = plt /\ Placement /\ so_base
         /\ words \in Seq(Insns \cup {NOP}) /\ DOMAIN words = 1 .. Count /\ Len(words) = Count
         /\ words' \in Seq(Insns \cup {NOP}) /\ DOMAIN words' = 1 .. Count /\ Len(words') = Count
         /\ \A b \in 1 .. Count : words'[b] = IF b \in C THEN NOP ELSE words[b]
         /\ \A c \in C : words[c].kind = "cond" /\ words[c] # NOP
         /\ NOP.kind = "nop"
  <1>1. /\ pc = "finalize" /\ i < Count /\ i' = i + 1 /\ so_base /\ plt' = plt /\ Placement
        /\ text' = text
    BY DEF Scan, LoaderInv, Placement, vars
  <1>2. Count \in Nat /\ Count' = Count /\ i \in Nat
    BY <1>1, CountFacts DEF ScanInv, PatchTypeOK, Count
  <1>3. words \in Seq(Insns \cup {NOP}) /\ Len(words) = Count
    BY <1>1 DEF ScanInv, PatchTypeOK, ScanShape
  <1>4. DOMAIN words = 1 .. Count
    BY <1>3
  <1>5. words' = [b \in 1 .. Count |-> IF b \in C THEN NOP ELSE words[b]]
    BY DEF Writes
  <1>6. words' \in [1 .. Count -> Insns \cup {NOP}]
    BY <1>3, <1>4, <1>5
  <1>7. words' \in Seq(Insns \cup {NOP}) /\ DOMAIN words' = 1 .. Count /\ Len(words') = Count
    BY <1>2, <1>6
  <1>8. NOP.kind = "nop"
    BY DEF NOP
  <1>9. \A c \in C : words[c].kind = "cond" /\ words[c] # NOP
    BY <1>8 DEF Writes, LeadsTo
  <1>10. i + 1 \in 1 .. Count
    BY <1>1, <1>2
  <1> QED BY <1>1, <1>2, <1>3, <1>4, <1>5, <1>7, <1>8, <1>9, <1>10

LEMMA ScanCounts ==
  ASSUME LoaderInv, ScanInv, Scan, NEW C \in SUBSET (1 .. i), Writes(C, i + 1)
  PROVE  PatchTypeOK'
  <1> DEFINE k == i + 1
             nops == {b \in DOMAIN words' : words'[b] = NOP}
             bls == {b \in 1 .. i' : words'[b].kind = "bl"}
  <1>1. /\ i \in Nat /\ k \in 1 .. Count /\ Count \in Nat /\ Count' = Count
        /\ i' = k /\ plt' = plt
        /\ DOMAIN words = 1 .. Count
        /\ words' \in Seq(Insns \cup {NOP}) /\ DOMAIN words' = 1 .. Count
        /\ \A b \in 1 .. Count : words'[b] = IF b \in C THEN NOP ELSE words[b]
        /\ \A c \in C : words[c].kind = "cond" /\ words[c] # NOP
        /\ NOP.kind = "nop"
    BY WritesFacts
  <1>2. /\ patched = Cardinality(Nops) /\ missed \in 0 .. i /\ plt \in Plts
        /\ patched + missed <= Cardinality(CallsIn(i))
    BY DEF ScanInv, PatchTypeOK, Nops, CallsIn
  <1>3. IsFiniteSet(Nops) /\ IsFiniteSet(CallsIn(i))
    <2>1. Nops \in SUBSET (1 .. Count) /\ CallsIn(i) \in SUBSET (1 .. Count)
      BY <1>1 DEF Nops, CallsIn
    <2>2. Count \in Nat
      BY <1>1
    <2>3. IsFiniteSet(1 .. Count)
      BY <2>2, FS_Interval
    <2> QED BY <2>1, <2>3, FS_Subset
  <1>4. patched \in Nat /\ Cardinality(CallsIn(i)) \in Nat
    BY <1>2, <1>3, FS_CardinalityType
  <1>5. \A b \in 1 .. Count : words'[b].kind = "bl" <=> words[b].kind = "bl"
    BY <1>1
  <1>6. /\ words[k].kind = "bl" => bls = CallsIn(i) \cup {k}
        /\ words[k].kind # "bl" => bls = CallsIn(i)
        /\ k \notin CallsIn(i)
    <2>1. \A b \in 1 .. k : b \in 1 .. i \/ b = k
      BY <1>1
    <2>2. 1 .. i \subseteq 1 .. k /\ 1 .. k \subseteq 1 .. Count /\ k \in 1 .. k /\ k \notin 1 .. i
      BY <1>1
    <2> HIDE DEF k
    <2> QED BY <1>1, <1>5, <2>1, <2>2 DEF CallsIn
  <1> HIDE DEF bls
  <1>7. /\ words[k].kind = "bl" => Cardinality(bls) = Cardinality(CallsIn(i)) + 1
        /\ Cardinality(bls) >= Cardinality(CallsIn(i)) /\ Cardinality(bls) \in Nat
    <2>1. Cardinality(CallsIn(i) \cup {k}) = Cardinality(CallsIn(i)) + 1
      BY <1>3, <1>6, FS_AddElement
    <2> QED BY <1>4, <1>6, <2>1
  <1>8. \/ /\ C = {} /\ patched' = patched
           /\ missed' = missed \/ (missed' = missed + 1 /\ words[k].kind = "bl")
        \/ /\ \E c \in 1 .. i : C = {c}
           /\ patched' = patched + 1 /\ missed' = missed /\ words[k].kind = "bl"
    BY DEF Writes, IsCall
  <1>9. patched' + missed' <= Cardinality(bls) /\ missed' \in 0 .. i'
    <2> DEFINE call == words[k].kind = "bl"
    <2>1. i' = i + 1 /\ i \in Nat
      BY <1>1
    <2>2. \/ patched' = patched /\ missed' = missed
          \/ patched' = patched /\ missed' = missed + 1 /\ call
          \/ patched' = patched + 1 /\ missed' = missed /\ call
      BY <1>8
    <2>3. call => Cardinality(bls) = Cardinality(CallsIn(i)) + 1
      BY <1>7
    <2> HIDE DEF k, call
    <2> QED BY <1>2, <1>4, <1>7, <2>1, <2>2, <2>3
  <1>10. patched' = Cardinality(nops)
    <2>1. nops = Nops \cup C
      <3>1. \A b : b \in nops <=> b \in 1 .. Count /\ (b \in C \/ words[b] = NOP)
        BY <1>1
      <3>2. \A b : b \in Nops <=> b \in 1 .. Count /\ words[b] = NOP
        BY <1>1 DEF Nops
      <3>3. \A b \in C : b \in 1 .. Count
        BY <1>1
      <3> HIDE DEF nops
      <3> QED BY <3>1, <3>2, <3>3
    <2> HIDE DEF nops
    <2>2. CASE C = {} /\ patched' = patched
      BY <1>2, <2>1, <2>2
    <2>3. CASE (\E c \in 1 .. i : C = {c}) /\ patched' = patched + 1
      <3>1. PICK c \in 1 .. i : C = {c}
        BY <2>3
      <3>2. c \notin Nops
        BY <1>1, <3>1 DEF Nops
      <3>3. Cardinality(Nops \cup {c}) = Cardinality(Nops) + 1
        BY <1>3, <3>2, FS_AddElement
      <3> QED BY <1>2, <2>1, <2>3, <3>1, <3>3
    <2> QED BY <1>8, <2>2, <2>3
  <1>11. i' \in 0 .. Count'
    BY <1>1
  <1> HIDE DEF nops
  <1> QED BY <1>1, <1>2, <1>9, <1>10, <1>11 DEF PatchTypeOK, bls, nops

LEMMA ScanCutsOff ==
  ASSUME LoaderInv, ScanInv, Scan, NEW C \in SUBSET (1 .. i), Writes(C, i + 1),
         NEW k \in 1 .. i + 1
  PROVE  CutOff(k)'
  <1>1. /\ i \in Nat /\ i + 1 \in 1 .. Count /\ Count \in Nat /\ plt' = plt
        /\ Placement /\ so_base /\ Len(words) = Count
        /\ \A b \in 1 .. Count : words'[b] = IF b \in C THEN NOP ELSE words[b]
        /\ NOP.kind = "nop"
    BY WritesFacts
  <1>2. k \in 1 .. Count /\ \A b \in 1 .. k - 1 : b \in 1 .. Count /\ b \in 1 .. i
    BY <1>1
  <1> SUFFICES ASSUME CallsFail(k)', plt' + 1 >= k, NEW b \in 1 .. k - 1,
                      k - b <= Window, GoesTo(b, words'[b], k)
               PROVE  \E c \in b + 1 .. k - 1 : words'[c] = NOP
    BY DEF CutOff, GoesTo, Reaches
  <1>3. words'[k] = words[k] /\ CallsFail(k) /\ plt + 1 >= k
    <2>1. words'[k].kind = "bl"
      BY DEF CallsFail
    <2>2. words'[k] = words[k]
      BY <1>1, <1>2, <2>1
    <2> QED BY <1>1, <2>2 DEF CallsFail, Reaches
  <1>4. b \notin C /\ GoesTo(b, words[b], k)
    <2>1. words'[b].kind = "cond"
      BY DEF GoesTo
    <2>2. b \notin C /\ words'[b] = words[b]
      BY <1>1, <1>2, <2>1
    <2> QED BY <2>2
  <1>5. CASE k \in 1 .. i
    <2>1. CutOff(k)
      BY <1>5 DEF ScanInv
    <2>2. PICK c \in b + 1 .. k - 1 : words[c] = NOP
      BY <1>3, <1>4, <2>1 DEF CutOff
    <2>3. c \in 1 .. Count
      BY <1>2
    <2> QED BY <1>1, <2>2, <2>3
  <1>6. CASE k = i + 1
    <2>1. PatchTypeOK
      BY DEF ScanInv
    <2>2. IsCall(k) /\ LeadsTo(b, k)
      BY <1>1, <1>2, <1>3, <1>4, <2>1, CallFacts
    <2>3. PICK c \in C : b <= c
      BY <1>2, <1>6, <2>2 DEF Writes
    <2>4. c \in 1 .. i /\ c # b
      BY <1>4
    <2>5. c \in b + 1 .. k - 1 /\ c \in 1 .. Count
      BY <1>1, <1>2, <1>6, <2>3, <2>4
    <2> QED BY <1>1, <2>5
  <1> QED BY <1>1, <1>5, <1>6

LEMMA ScanStepInv == LoaderInv /\ ScanInv /\ Scan => ScanInv'
  <1> SUFFICES ASSUME LoaderInv, ScanInv, Scan PROVE ScanInv'
    OBVIOUS
  <1>1. PICK C \in SUBSET (1 .. i) : Writes(C, i + 1)
    BY ScanWrites
  <1>2. PatchTypeOK'
    BY <1>1, ScanCounts
  <1>3. ScanShape'
    <2>1. i' = i + 1 /\ Len(words') = Count /\ Count' = Count /\ so_base
      BY <1>1, WritesFacts
    <2>2. pc' = "finalize" /\ so_base' = so_base
      BY DEF Scan, vars
    <2> QED BY <2>1, <2>2 DEF ScanShape
  <1>4. (\A k \in 1 .. i : CutOff(k))'
    <2>1. i' = i + 1
      BY <1>1, WritesFacts
    <2>2. \A k \in 1 .. i + 1 : CutOff(k)'
      BY <1>1, ScanCutsOff
    <2> QED BY <2>1, <2>2
  <1> QED BY <1>2, <1>3, <1>4 DEF ScanInv

LEMMA BootStep == LoaderInv /\ ScanInv /\ [BootNext]_bootvars => ScanInv'
  <1>1. ASSUME ScanInv, UNCHANGED bootvars PROVE ScanInv'
    <2>1. UNCHANGED <<plt, words, i, patched, missed, text, so_base, pc>>
      BY <1>1 DEF bootvars, patch, vars
    <2> QED BY <1>1, <2>1, ScanFrame DEF ScanInv, ScanShape
  <1> QED BY <1>1, LoadCodeInv, ScanStepInv, StagesInv DEF BootNext

LEMMA BootDisables ==
  LoaderInv /\ ScanInv /\ [BootNext]_bootvars =>
    [words # << >> =>
       \A b \in DOMAIN words : words'[b] # words[b] =>
         \E k \in b + 1 .. b + Window : k <= Count /\ CallsFail(k) /\ GoesTo(b, words[b], k)]_words
  <1> SUFFICES ASSUME LoaderInv, ScanInv, BootNext, words # << >>,
                      NEW b \in DOMAIN words, words'[b] # words[b]
               PROVE  \E k \in b + 1 .. b + Window : k <= Count /\ CallsFail(k) /\ GoesTo(b, words[b], k)
    BY DEF bootvars, patch
  <1>1. CASE Scan
    <2>1. PICK C \in SUBSET (1 .. i) : Writes(C, i + 1)
      BY <1>1, ScanWrites
    <2> DEFINE k == i + 1
    <2>2. /\ i \in Nat /\ k \in 1 .. Count /\ Placement /\ so_base /\ Len(words) = Count
          /\ DOMAIN words = 1 .. Count
          /\ \A c \in 1 .. Count : words'[c] = IF c \in C THEN NOP ELSE words[c]
      BY <1>1, <2>1, WritesFacts
    <2>3. b \in C
      BY <2>2
    <2>4. IsCall(k) /\ LeadsTo(b, k) /\ k - b <= Window
      BY <2>1, <2>3 DEF Writes
    <2>5. b \in 1 .. k - 1 /\ PatchTypeOK
      BY <2>2, <2>3 DEF ScanInv
    <2>6. CallsFail(k) /\ GoesTo(b, words[b], k)
      BY <2>2, <2>4, <2>5, CallFacts
    <2>7. k \in b + 1 .. b + Window /\ k <= Count
      BY <2>2, <2>4, <2>5, PatchAssumption
    <2> QED BY <2>6, <2>7
  <1>2. CASE LoadCode
    <2>1. words = << >>
      BY <1>2 DEF LoadCode, Load, LoaderInv, Placement, ScanInv, ScanShape
    <2> QED BY <2>1
  <1>3. CASE UNCHANGED words
    BY <1>3
  <1> QED BY <1>1, <1>2, <1>3 DEF BootNext, patch

-----------------------------------------------------------------------------
(* The theorems about the patch.                                             *)

\* The inductive invariant of the scan and of the stages before and after it.
THEOREM BootCorrect == BootSpec => [](LoaderInv /\ PatchInv)
  <1>1. BootSpec => []LoaderInv
    BY BootLoads, LoaderCorrect, PTL
  <1>2. BootSpec => []ScanInv
    BY <1>1, InitScanInv, BootStep, PTL DEF BootSpec
  <1> QED BY <1>1, <1>2, ScanInvFacts, PTL

\* patch_all_stack_chk_branches writes over checks only.
THEOREM PatchDisablesChecks == BootSpec => OnlyChecksDisabled
  <1>1. BootSpec => []LoaderInv
    BY BootLoads, LoaderCorrect, PTL
  <1>2. BootSpec => []ScanInv
    BY <1>1, InitScanInv, BootStep, PTL DEF BootSpec
  <1> QED BY <1>1, <1>2, BootDisables, PTL DEF BootSpec, OnlyChecksDisabled
=============================================================================
