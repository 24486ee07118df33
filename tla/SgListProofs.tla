----------------------------- MODULE SgListProofs -----------------------------
(***************************************************************************)
(* Proofs about SgList, for any page size, limits, buffer addresses and    *)
(* lengths: the types, that every return leaves nothing behind, and that   *)
(* the list names the bytes of the user.                                   *)
(***************************************************************************)
EXTENDS SgList, WellFoundedInduction, TLAPS

-----------------------------------------------------------------------------
(***************************************************************************)
(* Induction, as the least counterexample.                                 *)
(***************************************************************************)

\* Numbers, if there are any, have a least.
LEMMA Least ==
  ASSUME NEW T \in SUBSET Nat, T # {}
  PROVE  \E x \in T : \A y \in T : x <= y
<1>1. IsWellFoundedOn(OpToRel(<, Nat), Nat)
  BY NatLessThanWellFounded
<1>2. \E x \in T : \A y \in T : ~(<<y, x>> \in OpToRel(<, Nat))
  BY <1>1, WFMin, Zenon
<1>3. PICK x \in T : \A y \in T : ~(<<y, x>> \in OpToRel(<, Nat))
  BY <1>2
<1>4. \A y \in T : ~(y < x)
  BY <1>3, Zenon DEF OpToRel
<1> QED
  BY <1>4

-----------------------------------------------------------------------------
(***************************************************************************)
(* Arithmetic of pages.                                                    *)
(***************************************************************************)

\* An address is so many bytes into its page.
LEMMA PageOfSplit ==
  ASSUME NEW a \in Nat
  PROVE  /\ PageOf(a) \in Nat /\ Start(PageOf(a)) \in Nat
         /\ \E b \in 0..PageSize - 1 : a = Start(PageOf(a)) + b
<1>1. /\ a % PageSize \in 0..PageSize - 1 /\ a \div PageSize \in Nat
      /\ (a \div PageSize) * PageSize + (a % PageSize) = a
      /\ (a \div PageSize) * PageSize \in Nat
  BY PageSizeAssumption, SMT
<1> QED
  BY <1>1 DEF PageOf, Start

LEMMA StartFacts ==
  ASSUME NEW p \in Nat
  PROVE  /\ Start(p) \in Nat /\ Start(p + 1) = Start(p) + PageSize
         /\ Start(0) = 0
BY PageSizeAssumption, SMT DEF Start

LEMMA StartMono ==
  ASSUME NEW p \in Nat, NEW q \in Nat, p < q
  PROVE  Start(p) + PageSize <= Start(q)
<1> DEFINE m == q - p
<1>1. m \in Nat /\ m >= 1 /\ q = p + m
  OBVIOUS
<1> HIDE DEF m
<1>2. m * PageSize >= PageSize
  BY <1>1, PageSizeAssumption, SMT
<1>3. (p + m) * PageSize = p * PageSize + m * PageSize
  BY <1>1, PageSizeAssumption, SMT
<1>4. p * PageSize \in Nat /\ m * PageSize \in Nat
  BY <1>1, PageSizeAssumption, SMT
<1> QED
  BY <1>1, <1>2, <1>3, <1>4, PageSizeAssumption, SMT DEF Start

\* The difference of two places that are a number of pages apart.
LEMMA StartSum ==
  ASSUME NEW p \in Nat, NEW q \in Nat
  PROVE  Start(p + q) = Start(p) + Start(q)
BY PageSizeAssumption, SMT DEF Start

LEMMA PageOfIs ==
  ASSUME NEW p \in Nat, NEW b \in 0..PageSize - 1
  PROVE  PageOf(Start(p) + b) = p
<1>1. /\ p * PageSize + b \in Nat
      /\ p * PageSize + b = PageSize * p + b
  BY PageSizeAssumption, SMT
<1>2. ASSUME NEW a \in Nat, a = PageSize * p + b PROVE a \div PageSize = p
  BY <1>2, PageSizeAssumption, SMT
<1> QED
  BY <1>1, <1>2 DEF PageOf, Start

LEMMA PageOfMono ==
  ASSUME NEW a \in Nat, NEW b \in Nat, a <= b
  PROVE  PageOf(a) <= PageOf(b)
<1>1. PICK r \in 0..PageSize - 1 : a = Start(PageOf(a)) + r
  BY PageOfSplit
<1>2. PICK s \in 0..PageSize - 1 : b = Start(PageOf(b)) + s
  BY PageOfSplit
<1>3. /\ PageOf(a) \in Nat /\ PageOf(b) \in Nat
      /\ Start(PageOf(a)) \in Nat /\ Start(PageOf(b)) \in Nat
  BY PageOfSplit
<1>4. PageOf(b) < PageOf(a) => Start(PageOf(b)) + PageSize <= Start(PageOf(a))
  BY <1>3, StartMono
<1> QED
  BY <1>1, <1>2, <1>3, <1>4, PageSizeAssumption

\* A buffer of n bytes at a reaches PagesOf(a, n) pages; on a page boundary all
\* of them but the last are full.
LEMMA PagesOfFacts ==
  ASSUME NEW a \in Nat, NEW n \in Nat \ {0}
  PROVE  /\ PagesOf(a, n) \in Nat \ {0}
         /\ PageOf(a) + PagesOf(a, n) = PageOf(a + n - 1) + 1
         /\ a % PageSize = 0 => /\ a = Start(PageOf(a))
                                /\ Start(PagesOf(a, n)) - n \in 0..PageSize - 1
<1>1. a + n - 1 \in Nat /\ a <= a + n - 1
  OBVIOUS
<1>2. PageOf(a) \in Nat /\ PageOf(a + n - 1) \in Nat /\ PageOf(a) <= PageOf(a + n - 1)
  BY <1>1, PageOfSplit, PageOfMono
<1>3. /\ PagesOf(a, n) \in Nat \ {0}
      /\ PageOf(a) + PagesOf(a, n) = PageOf(a + n - 1) + 1
  BY <1>2 DEF PagesOf
<1>4. ASSUME a % PageSize = 0
      PROVE  a = Start(PageOf(a)) /\ Start(PagesOf(a, n)) - n \in 0..PageSize - 1
  <2>1. a = Start(PageOf(a))
    <3>1. (a \div PageSize) * PageSize + (a % PageSize) = a /\ (a \div PageSize) * PageSize \in Nat
      BY PageSizeAssumption, SMT
    <3> QED
      BY <1>4, <3>1 DEF PageOf, Start
  <2>2. PICK b \in 0..PageSize - 1 : a + n - 1 = Start(PageOf(a + n - 1)) + b
    BY <1>1, PageOfSplit
  <2> DEFINE p == PageOf(a)
             q == PageOf(a + n - 1)
             m == PagesOf(a, n)
  <2>3. p \in Nat /\ q \in Nat /\ m \in Nat /\ p + m = q + 1
    BY <1>2, <1>3
  <2>4. a = Start(p) /\ a + n - 1 = Start(q) + b
    BY <2>1, <2>2
  <2> HIDE DEF p, q, m
  <2>5. /\ Start(p + m) = Start(p) + Start(m) /\ Start(q + 1) = Start(q) + PageSize
        /\ Start(p) \in Nat /\ Start(q) \in Nat /\ Start(m) \in Nat
    BY <2>3, StartSum, StartFacts
  <2>6. Start(p) + Start(m) = Start(q) + PageSize
    BY <2>3, <2>5
  <2>7. Start(m) - n \in 0..PageSize - 1
    BY <2>4, <2>5, <2>6, PageSizeAssumption
  <2> QED
    BY <2>1, <2>7 DEF m
<1> QED
  BY <1>3, <1>4

-----------------------------------------------------------------------------
(***************************************************************************)
(* The inductive invariant.                                                *)
(***************************************************************************)

Pcs == {"idle", "map_alloc", "count", "pages_alloc", "pin", "unpin", "sgl_alloc",
        "offset", "fill", "dma_map", "write", "busy"}

\* The bytes the first k of n entries name, the last of which may be short.
Filled(k) == IF k < numReq THEN Start(k) ELSE length

\* A call has a buffer of the user, and once it was counted its page count.
CallOK ==
  /\ pc # "idle" => addr \in Addresses /\ length \in 1..MaxLength
  /\ pc \notin {"idle", "map_alloc", "count"} => numReq = PagesOf(addr, length)
  /\ pc \notin {"idle", "fill", "dma_map", "write", "busy"} => lenRem = length

\* Where a call is determines what is allocated and mapped.
HeapOK ==
  /\ heap = CASE pc \in {"idle", "map_alloc"} -> {}
              [] pc \in {"count", "pages_alloc"} -> {"sg_map"}
              [] pc \in {"pin", "unpin", "sgl_alloc"} -> {"sg_map", "pages"}
              [] OTHER -> Heap
  /\ (mapped <=> pc \in {"write", "busy"})

\* The pages that are pinned are the first ones of the buffer, once each.
Pinned == pc \in {"unpin", "sgl_alloc", "offset", "fill", "dma_map", "write", "busy"}
PinOK ==
  /\ ~Pinned => \A p \in Page : pins[p] = 0
  /\ Pinned =>
       /\ Len(pages) <= numReq /\ (pc # "unpin" => Len(pages) = numReq)
       /\ \A k \in 1..Len(pages) : pages[k] = PageOf(addr) + (k - 1)
       /\ \A p \in Page : pins[p] = IF \E k \in 1..Len(pages) : pages[k] = p THEN 1 ELSE 0

\* The loop over the pages: whole pages so far, and something left.
FillOK ==
  pc = "fill" =>
    /\ addr % PageSize = 0 /\ i < numReq /\ Len(sgl) = i
    /\ lenRem + Start(i) = length /\ lenRem > 0
    /\ \A k \in 1..i : sgl[k] = [page |-> pages[k], len |-> PageSize]

\* The scatterlist names the whole buffer.
FilledOK ==
  pc = "dma_map" =>
    /\ addr % PageSize = 0 /\ Len(sgl) = numReq
    /\ \A k \in 1..numReq :
         sgl[k].page = pages[k] /\ Filled(k - 1) + sgl[k].len = Filled(k)

\* A list of n entries names the bytes of the buffer, in order.
Covers(s, n) ==
  /\ n \in 1..Len(s) /\ Start(s[1].page) = addr
  /\ \A k \in 1..n : /\ s[k].len > 0 /\ addr <= Start(s[k].page)
                     /\ Start(s[k].page) + s[k].len <= addr + length
  /\ \A k \in 2..n : Start(s[k].page) = Start(s[k - 1].page) + s[k - 1].len
  /\ Start(s[n].page) + s[n].len = addr + length

SegOK == pc \in {"write", "busy"} => Covers(segs, Len(segs))

\* What was written to the list buffer is the segments, so far.
WrittenOK ==
  /\ pc = "write" => i < Len(segs) /\ i <= Len(list) /\ \A k \in 1..i : list[k] = segs[k]
  /\ pc = "busy" => /\ Len(segs) <= Len(list)
                    /\ \A k \in 1..Len(segs) : list[k] = segs[k]

Inv == /\ TypeOK /\ CallOK /\ HeapOK /\ PinOK
       /\ FillOK /\ FilledOK /\ SegOK /\ WrittenOK

-----------------------------------------------------------------------------
(***************************************************************************)
(* What a call's buffer looks like.                                        *)
(***************************************************************************)

\* Every page the buffer touches is a page.
LEMMA PageIn ==
  ASSUME NEW a \in Addresses, NEW n \in 1..MaxLength, NEW k \in 1..PagesOf(a, n)
  PROVE  PageOf(a) + (k - 1) \in Page
<1> DEFINE q == PageOf(a) + (k - 1)
           z == PageOf(a + n - 1)
<1>1. a \in Nat /\ n \in Nat \ {0} /\ MaxLength \in Nat
  BY AddressesAssumption, LimitsAssumption
<1>2. /\ PagesOf(a, n) \in Nat \ {0} /\ PageOf(a) + PagesOf(a, n) = z + 1
      /\ PageOf(a) \in Nat /\ z \in Nat
  BY <1>1, PagesOfFacts, PageOfSplit
<1>3. q \in Nat /\ PageOf(a) <= q /\ q <= z
  BY <1>2
<1>4. CASE k = 1
  <2>1. q = PageOf(a + 0) /\ 0 \in 0..MaxLength
    BY <1>1, <1>2, <1>4
  <2> QED
    BY <2>1 DEF Page
<1>5. CASE k # 1
  <2>1. PageOf(a) < q
    BY <1>2, <1>5
  <2>2. PICK b \in 0..PageSize - 1 : a = Start(PageOf(a)) + b
    BY <1>1, PageOfSplit
  <2>3. PICK c \in 0..PageSize - 1 : a + n - 1 = Start(z) + c
    BY <1>1, PageOfSplit
  <2>4. Start(PageOf(a)) + PageSize <= Start(q)
    BY <1>2, <1>3, <2>1, StartMono
  <2>5. Start(PageOf(a)) \in Nat /\ Start(q) \in Nat /\ Start(z) \in Nat
    BY <1>2, <1>3, StartFacts
  <2>6. q < z => Start(q) + PageSize <= Start(z)
    BY <1>2, <1>3, StartMono
  <2>7. Start(q) <= Start(z)
    BY <1>2, <1>3, <2>5, <2>6, PageSizeAssumption
  <2> DEFINE m == Start(q) - a
  <2>8. m \in 0..MaxLength /\ a + m = Start(q) + 0
    BY <1>1, <2>2, <2>3, <2>4, <2>5, <2>7, PageSizeAssumption
  <2>9. PageOf(Start(q) + 0) = q
    <3>1. 0 \in 0..PageSize - 1
      BY PageSizeAssumption
    <3> QED
      BY <1>3, <3>1, PageOfIs
  <2>10. q = PageOf(a + m)
    BY <2>8, <2>9
  <2> QED
    BY <2>8, <2>10 DEF Page
<1> QED
  BY <1>4, <1>5

\* Every byte of the buffer is in one of its pages.
LEMMA ByteIn ==
  ASSUME NEW a \in Nat, NEW n \in Nat \ {0}, NEW x \in Nat, a <= x, x < a + n
  PROVE  \E k \in 1..PagesOf(a, n) : PageOf(x) = PageOf(a) + (k - 1)
<1>1. /\ PagesOf(a, n) \in Nat \ {0}
      /\ PageOf(a) + PagesOf(a, n) = PageOf(a + n - 1) + 1
  BY PagesOfFacts
<1>2. a + n - 1 \in Nat /\ x <= a + n - 1
  OBVIOUS
<1>3. /\ PageOf(a) \in Nat /\ PageOf(x) \in Nat /\ PageOf(a + n - 1) \in Nat
      /\ PageOf(a) <= PageOf(x) /\ PageOf(x) <= PageOf(a + n - 1)
  BY <1>2, PageOfSplit, PageOfMono
<1> DEFINE k == PageOf(x) - PageOf(a) + 1
<1>4. k \in 1..PagesOf(a, n) /\ PageOf(x) = PageOf(a) + (k - 1)
  BY <1>1, <1>3
<1> QED
  BY <1>4

\* The pages fill up one after the other, and the last one last.
LEMMA FilledFacts ==
  ASSUME addr \in Nat, length \in Nat \ {0}, numReq = PagesOf(addr, length),
         addr % PageSize = 0
  PROVE  /\ numReq \in Nat \ {0} /\ PageOf(addr) \in Nat /\ addr = Start(PageOf(addr))
         /\ Start(numReq) - length \in 0..PageSize - 1
         /\ Filled(0) = 0 /\ Filled(numReq) = length
         /\ \A k \in 0..numReq : Filled(k) \in Nat /\ Filled(k) <= length
         /\ \A p, q \in 0..numReq : p < q => Filled(p) < Filled(q)
<1>1. /\ numReq \in Nat \ {0} /\ PageOf(addr) \in Nat /\ addr = Start(PageOf(addr))
      /\ Start(numReq) - length \in 0..PageSize - 1
  BY PagesOfFacts, PageOfSplit
<1>2. \A k \in 0..numReq : Start(k) \in Nat
  BY <1>1, StartFacts
<1>3. ASSUME NEW k \in 0..numReq - 1 PROVE Start(k) < length
  <2>1. Start(k) + PageSize <= Start(numReq)
    BY <1>1, StartMono
  <2>2. Start(k) \in Nat /\ Start(numReq) \in Nat
    BY <1>1, <1>2
  <2> QED
    BY <1>1, <2>1, <2>2, PageSizeAssumption
<1>4. Filled(0) = 0 /\ Filled(numReq) = length
  BY <1>1, StartFacts DEF Filled
<1>5. \A k \in 0..numReq : Filled(k) \in Nat /\ Filled(k) <= length
  BY <1>1, <1>2, <1>3 DEF Filled
<1>6. ASSUME NEW p \in 0..numReq, NEW q \in 0..numReq, p < q PROVE Filled(p) < Filled(q)
  <2>1. CASE q = numReq
    BY <1>1, <1>3, <1>6, <2>1 DEF Filled
  <2>2. CASE q # numReq
    <3>1. Start(p) + PageSize <= Start(q) /\ Start(p) \in Nat /\ Start(q) \in Nat
      BY <1>1, <1>2, <1>6, StartMono
    <3> QED
      BY <1>1, <1>6, <2>2, <3>1, PageSizeAssumption DEF Filled
  <2> QED
    BY <2>1, <2>2
<1> QED
  BY <1>1, <1>4, <1>5, <1>6

\* The sum over the entries is what they fill.
LEMMA BytesIs ==
  ASSUME numReq \in Nat \ {0}, Len(sgl) = numReq, Filled(0) = 0,
         \A k \in 0..numReq : Filled(k) \in Nat,
         \A k \in 1..numReq : Filled(k - 1) + sgl[k].len = Filled(k)
  PROVE  \A k \in 0..numReq : Bytes[k] = Filled(k)
<1> DEFINE F(g) == [k \in 0..Len(sgl) |-> IF k = 0 THEN 0 ELSE g[k - 1] + sgl[k].len]
           w == [k \in 0..numReq |-> Filled(k)]
<1>1. Bytes = CHOOSE g : g = F(g)
  BY DEF Bytes
<1>2. w = F(w)
  <2>1. ASSUME NEW k \in 0..numReq
        PROVE  Filled(k) = IF k = 0 THEN 0 ELSE w[k - 1] + sgl[k].len
    OBVIOUS
  <2> QED
    BY <2>1
<1> HIDE DEF w
<1>3. Bytes = F(Bytes)
  <2> HIDE DEF F
  <2>1. (CHOOSE g : g = F(g)) = F(CHOOSE g : g = F(g))
    BY <1>2
  <2> QED
    BY <1>1, <2>1
<1>4. ASSUME NEW k \in 0..numReq
      PROVE  Bytes[k] = IF k = 0 THEN 0 ELSE Bytes[k - 1] + sgl[k].len
  BY <1>3
<1> HIDE DEF F
<1> DEFINE Bad == {k \in 0..numReq : Bytes[k] # Filled(k)}
<1>5. Bad = {}
  <2> SUFFICES ASSUME Bad # {} PROVE FALSE
    OBVIOUS
  <2>1. PICK m \in Bad : \A y \in Bad : m <= y
    <3>1. Bad \in SUBSET Nat
      OBVIOUS
    <3> QED
      BY <3>1, Least
  <2>2. m \in 0..numReq /\ Bytes[m] # Filled(m)
    BY <2>1
  <2>3. m # 0
    BY <1>4, <2>2
  <2>4. m - 1 \in 0..numReq /\ m - 1 \notin Bad
    BY <2>1, <2>2, <2>3
  <2>5. Bytes[m - 1] = Filled(m - 1)
    BY <2>4
  <2>6. Bytes[m] = Filled(m)
    BY <1>4, <2>2, <2>3, <2>5
  <2> QED
    BY <2>2, <2>6
<1> QED
  BY <1>5

-----------------------------------------------------------------------------
(***************************************************************************)
(* Init, and the steps that take something or give it back.                *)
(***************************************************************************)

LEMMA InitInv == Init => Inv
<1> SUFFICES ASSUME Init PROVE Inv
  OBVIOUS
<1>1. /\ <<>> \in Seq(Page) /\ <<>> \in Seq([page : Page, len : Nat])
      /\ [p \in Page |-> 0] \in [Page -> Nat] /\ FALSE \in BOOLEAN
  OBVIOUS
<1>2. TypeOK
  BY <1>1 DEF Init, TypeOK, Heap
<1>3. CallOK /\ HeapOK /\ PinOK
  BY DEF Init, CallOK, HeapOK, PinOK, Pinned
<1>4. FillOK /\ FilledOK /\ SegOK /\ WrittenOK
  BY DEF Init, FillOK, FilledOK, SegOK, WrittenOK
<1> QED
  BY <1>2, <1>3, <1>4 DEF Inv

\* Putting the pages that are pinned leaves none pinned.
LEMMA PutAll ==
  ASSUME TypeOK, PinOK, NEW n \in Nat, n = IF Pinned THEN Len(pages) ELSE 0
  PROVE  \A p \in Page : Put(n)[p] = 0
<1> SUFFICES ASSUME NEW p \in Page PROVE Put(n)[p] = 0
  OBVIOUS
<1>1. Put(n)[p] = IF \E k \in 1..n : pages[k] = p THEN pins[p] - 1 ELSE pins[p]
  BY DEF Put
<1>2. CASE Pinned
  BY <1>1, <1>2 DEF PinOK
<1>3. CASE ~Pinned
  BY <1>1, <1>3 DEF PinOK
<1> QED
  BY <1>2, <1>3

\* A return leaves nothing behind that puts what is pinned and frees what is allocated.
LEMMA Returns ==
  ASSUME Inv, NEW n \in Nat, n = IF Pinned THEN Len(pages) ELSE 0,
         pc' = "idle", pins' = Put(n), heap' = {}, mapped' = FALSE,
         UNCHANGED <<callVars, lenRem, i, pages, sgl, segs, list, calls>>
  PROVE  Inv'
<1> USE DEF Inv
<1>1. \A p \in Page : Put(n)[p] = 0
  BY PutAll
<1>2. Put(n) \in [Page -> Nat]
  BY <1>1 DEF Put
<1>3. TypeOK'
  BY <1>2 DEF TypeOK, callVars, Heap
<1>4. CallOK' /\ HeapOK' /\ PinOK'
  BY <1>1 DEF CallOK, HeapOK, PinOK, Pinned, Heap
<1>5. FillOK' /\ FilledOK' /\ SegOK' /\ WrittenOK'
  BY DEF FillOK, FilledOK, SegOK, WrittenOK
<1> QED
  BY <1>3, <1>4, <1>5

LEMMA GiveUpInv ==
  ASSUME Inv, NEW n \in Nat, NEW freed, n = IF Pinned THEN Len(pages) ELSE 0,
         GiveUp(n, freed), heap \ freed = {}, ~mapped
  PROVE  Inv'
<1>1. mapped = FALSE
  BY Zenon DEF Inv, TypeOK
<1>2. mapped' = FALSE
  BY <1>1 DEF GiveUp
<1> QED
  BY <1>2, Returns DEF GiveUp

\* What the steps that have no list in hand keep of it.
NoList == pc \notin {"fill", "dma_map", "write", "busy"}
LEMMA NoListInv ==
  ASSUME NoList' PROVE (FillOK /\ FilledOK /\ SegOK /\ WrittenOK)'
BY DEF NoList, FillOK, FilledOK, SegOK, WrittenOK

LEMMA CallInv ==
  ASSUME Inv, NEW a \in Addresses, NEW n \in 0..MaxLength, Call(a, n)
  PROVE  Inv'
<1>1. TypeOK /\ CallOK /\ HeapOK /\ PinOK
  BY DEF Inv
<1>2. a \in Nat /\ n \in Nat
  BY AddressesAssumption, LimitsAssumption
<1>3. TypeOK'
  BY <1>1, <1>2, LimitsAssumption DEF Call, Step, TypeOK
<1>4. CallOK'
  BY <1>1, <1>2 DEF Call, Step, CallOK
<1>5. HeapOK'
  <2>1. pc = "idle" /\ pc' \in {"idle", "map_alloc"} /\ heap' = heap /\ mapped' = mapped
    BY DEF Call, Step
  <2>2. heap' = {} /\ ~mapped'
    BY <1>1, <2>1 DEF HeapOK
  <2> QED
    BY <2>1, <2>2 DEF HeapOK
<1>6. PinOK'
  BY <1>1 DEF Call, Step, PinOK, Pinned
<1>7. NoList'
  BY DEF Call, Step, NoList
<1> QED
  BY <1>3, <1>4, <1>5, <1>6, <1>7, NoListInv DEF Inv

LEMMA AllocMapInv ==
  ASSUME Inv, AllocMap PROVE Inv'
<1>1. TypeOK /\ CallOK /\ HeapOK /\ PinOK
  BY DEF Inv
<1>2. TypeOK'
  BY <1>1 DEF AllocMap, Step, TypeOK, callVars, Heap
<1>3. CallOK'
  BY <1>1 DEF AllocMap, Step, CallOK, callVars
<1>4. HeapOK'
  <2>1. heap = {} /\ ~mapped /\ mapped' = mapped
    BY <1>1 DEF AllocMap, Step, HeapOK
  <2>2. \/ pc' = "count" /\ heap' = {"sg_map"}
        \/ pc' = "idle" /\ heap' = {}
    BY <2>1 DEF AllocMap, Step
  <2> QED
    BY <2>1, <2>2 DEF HeapOK
<1>5. PinOK'
  BY <1>1 DEF AllocMap, Step, PinOK, Pinned
<1>6. NoList'
  BY DEF AllocMap, Step, NoList
<1> QED
  BY <1>2, <1>3, <1>4, <1>5, <1>6, NoListInv DEF Inv

LEMMA CountPagesInv ==
  ASSUME Inv, CountPages PROVE Inv'
<1>1. TypeOK /\ CallOK /\ HeapOK /\ PinOK
  BY DEF Inv
<1>2. PagesOf(addr, length) \in Nat
  <2>1. addr \in Nat /\ length \in Nat \ {0}
    BY <1>1, LimitsAssumption DEF CountPages, Step, CallOK, TypeOK
  <2> QED
    BY <2>1, PagesOfFacts
<1>3. TypeOK'
  BY <1>1, <1>2 DEF CountPages, Step, TypeOK
<1>4. CallOK'
  <2>1. /\ addr' = addr /\ length' = length /\ numReq' = PagesOf(addr, length)
        /\ pc = "count" /\ pc' = "pages_alloc"
    BY DEF CountPages, Step
  <2>2. addr \in Addresses /\ length \in 1..MaxLength
    BY <1>1, <2>1 DEF CallOK
  <2>3. numReq' = PagesOf(addr', length')
    BY <2>1
  <2>4. addr' \in Addresses /\ length' \in 1..MaxLength
    BY <2>1, <2>2
  <2>5. lenRem' = length'
    BY <1>1, <2>1 DEF CallOK, CountPages
  <2> QED
    BY <2>1, <2>3, <2>4, <2>5 DEF CallOK, PagesOf
<1>5. HeapOK'
  BY <1>1 DEF CountPages, Step, HeapOK
<1>6. PinOK'
  BY <1>1 DEF CountPages, Step, PinOK, Pinned
<1>7. NoList'
  BY DEF CountPages, Step, NoList
<1> QED
  BY <1>3, <1>4, <1>5, <1>6, <1>7, NoListInv DEF Inv

LEMMA TooManyPagesInv ==
  ASSUME Inv, TooManyPages PROVE Inv'
<1>1. GiveUp(0, {"sg_map"}) /\ pc = "count"
  BY DEF TooManyPages
<1>2. heap \ {"sg_map"} = {} /\ ~mapped /\ 0 = IF Pinned THEN Len(pages) ELSE 0
  BY <1>1 DEF Inv, HeapOK, Pinned
<1> QED
  BY <1>1, <1>2, GiveUpInv

LEMMA AllocPagesInv ==
  ASSUME Inv, AllocPages PROVE Inv'
<1>1. TypeOK /\ CallOK /\ HeapOK /\ PinOK /\ pc = "pages_alloc"
  BY DEF Inv, AllocPages, Step
<1>2. heap = {"sg_map"} /\ ~mapped /\ ~Pinned
  BY <1>1 DEF HeapOK, Pinned
<1>3. CASE GiveUp(0, {"sg_map"})
  BY <1>2, <1>3, GiveUpInv
<1>4. CASE /\ Step("pages_alloc", "pin") /\ heap' = heap \cup {"pages"}
           /\ UNCHANGED <<callVars, lenRem, i, pages, pins, sgl, segs, mapped, list, calls>>
  <2>1. TypeOK'
    BY <1>1, <1>4 DEF Step, TypeOK, callVars, Heap
  <2>2. CallOK'
    BY <1>1, <1>4 DEF Step, CallOK, callVars, PagesOf
  <2>3. HeapOK'
    BY <1>2, <1>4 DEF Step, HeapOK
  <2>4. PinOK'
    BY <1>1, <1>2, <1>4 DEF Step, PinOK, Pinned
  <2>5. NoList'
    BY <1>4 DEF Step, NoList
  <2> QED
    BY <2>1, <2>2, <2>3, <2>4, <2>5, NoListInv DEF Inv
<1> QED
  BY <1>3, <1>4 DEF AllocPages

LEMMA PinInv ==
  ASSUME Inv, NEW n \in 0..numReq, Pin(n) PROVE Inv'
<1>1. TypeOK /\ CallOK /\ HeapOK /\ PinOK /\ pc = "pin"
  BY DEF Inv, Pin, Step
<1>2. /\ addr \in Addresses /\ addr \in Nat /\ length \in 1..MaxLength /\ length \in Nat \ {0}
      /\ numReq = PagesOf(addr, length) /\ numReq \in Nat /\ n \in Nat
  BY <1>1, LimitsAssumption DEF CallOK, TypeOK
<1>3. \A k \in 1..n : PageOf(addr) + (k - 1) \in Page
  <2> SUFFICES ASSUME NEW k \in 1..n PROVE PageOf(addr) + (k - 1) \in Page
    OBVIOUS
  <2>1. k \in 1..PagesOf(addr, length)
    BY <1>2
  <2> QED
    BY <1>2, <2>1, PageIn
<1>4. pages' = [k \in 1..n |-> PageOf(addr) + (k - 1)]
  BY DEF Pin
<1>5. /\ pages' \in Seq(Page) /\ Len(pages') = n
      /\ \A k \in 1..n : pages'[k] = PageOf(addr) + (k - 1)
  BY <1>2, <1>3, <1>4
<1>6. \A p \in Page : pins[p] = 0
  BY <1>1 DEF PinOK, Pinned
<1>7. pins' = [p \in Page |-> IF \E k \in 1..n : pages'[k] = p THEN pins[p] + 1 ELSE pins[p]]
  BY DEF Pin
<1>8. \A p \in Page : pins'[p] = IF \E k \in 1..n : pages'[k] = p THEN 1 ELSE 0
  <2> SUFFICES ASSUME NEW p \in Page
               PROVE  pins'[p] = IF \E k \in 1..n : pages'[k] = p THEN 1 ELSE 0
    OBVIOUS
  <2>1. pins'[p] = IF \E k \in 1..n : pages'[k] = p THEN pins[p] + 1 ELSE pins[p]
    BY <1>7
  <2> QED
    BY <1>6, <2>1
<1>9. pins' \in [Page -> Nat]
  <2>1. \A p \in Page : pins'[p] \in Nat
    BY <1>8
  <2> QED
    BY <1>7, <2>1
<1>10. pc' = (IF n = numReq THEN "sgl_alloc" ELSE "unpin")
       /\ UNCHANGED <<callVars, lenRem, i, heap, sgl, segs, mapped, list, calls>>
  BY DEF Pin, Step
<1>11. TypeOK'
  BY <1>1, <1>5, <1>9, <1>10 DEF TypeOK, callVars
<1>12. CallOK'
  BY <1>1, <1>10 DEF CallOK, callVars, PagesOf
<1>13. HeapOK'
  <2>1. heap = {"sg_map", "pages"} /\ ~mapped
    BY <1>1 DEF HeapOK
  <2> QED
    BY <1>10, <2>1 DEF HeapOK
<1>14. PinOK'
  <2>1. numReq' = numReq /\ addr' = addr /\ n <= numReq
    BY <1>2, <1>10 DEF callVars
  <2>2. PageOf(addr') = PageOf(addr)
    BY <2>1
  <2>3. Pinned' /\ (pc' # "unpin" => n = numReq)
    BY <1>10 DEF Pinned
  <2> QED
    BY <1>5, <1>8, <2>1, <2>2, <2>3 DEF PinOK, PageOf
<1>15. NoList'
  BY <1>10 DEF NoList
<1> QED
  BY <1>11, <1>12, <1>13, <1>14, <1>15, NoListInv DEF Inv

LEMMA UnpinInv ==
  ASSUME Inv, Unpin PROVE Inv'
<1>1. GiveUp(Len(pages), {"pages", "sg_map"}) /\ pc = "unpin"
  BY DEF Unpin
<1>2. heap \ {"pages", "sg_map"} = {} /\ ~mapped /\ Pinned
  BY <1>1 DEF Inv, HeapOK, Pinned
<1>3. Len(pages) \in Nat
  BY DEF Inv, TypeOK
<1> QED
  BY <1>1, <1>2, <1>3, GiveUpInv

LEMMA AllocSglInv ==
  ASSUME Inv, AllocSgl PROVE Inv'
<1>1. TypeOK /\ CallOK /\ HeapOK /\ PinOK /\ pc = "sgl_alloc"
  BY DEF Inv, AllocSgl, Step
<1>2. heap = {"sg_map", "pages"} /\ ~mapped /\ Pinned /\ Len(pages) \in Nat
  BY <1>1 DEF HeapOK, Pinned, TypeOK
<1>3. CASE GiveUp(Len(pages), {"pages", "sg_map"})
  BY <1>2, <1>3, GiveUpInv
<1>4. CASE /\ Step("sgl_alloc", "offset") /\ heap' = heap \cup {"sgl"}
           /\ UNCHANGED <<callVars, lenRem, i, pages, pins, sgl, segs, mapped, list, calls>>
  <2>1. TypeOK'
    BY <1>1, <1>4 DEF Step, TypeOK, callVars, Heap
  <2>2. CallOK'
    BY <1>1, <1>4 DEF Step, CallOK, callVars, PagesOf
  <2>3. HeapOK'
    BY <1>2, <1>4 DEF Step, HeapOK, Heap
  <2>4. PinOK'
    BY <1>1, <1>2, <1>4 DEF Step, PinOK, Pinned, callVars, PageOf
  <2>5. NoList'
    BY <1>4 DEF Step, NoList
  <2> QED
    BY <2>1, <2>2, <2>3, <2>4, <2>5, NoListInv DEF Inv
<1> QED
  BY <1>3, <1>4 DEF AllocSgl

LEMMA NotAlignedInv ==
  ASSUME Inv, NotAligned PROVE Inv'
<1>1. GiveUp(Len(pages), Heap) /\ pc = "offset"
  BY DEF NotAligned
<1>2. heap \ Heap = {} /\ ~mapped /\ Pinned
  BY <1>1 DEF Inv, HeapOK, Pinned
<1>3. Len(pages) \in Nat
  BY DEF Inv, TypeOK
<1> QED
  BY <1>1, <1>2, <1>3, GiveUpInv

LEMMA MapFailsInv ==
  ASSUME Inv, MapFails PROVE Inv'
<1>1. GiveUp(Len(pages), Heap) /\ pc = "dma_map"
  BY DEF MapFails
<1>2. heap \ Heap = {} /\ ~mapped /\ Pinned
  BY <1>1 DEF Inv, HeapOK, Pinned
<1>3. Len(pages) \in Nat
  BY DEF Inv, TypeOK
<1> QED
  BY <1>1, <1>2, <1>3, GiveUpInv

LEMMA FreeSgBufInv ==
  ASSUME Inv, FreeSgBuf PROVE Inv'
<1>1. pc = "busy" /\ Pinned /\ Len(pages) \in Nat
  BY DEF FreeSgBuf, Step, Inv, TypeOK, Pinned
<1> QED
  BY <1>1, Returns DEF FreeSgBuf, Step

-----------------------------------------------------------------------------
(***************************************************************************)
(* The steps that make the list.                                           *)
(***************************************************************************)

Entry == [page : Page, len : Nat]

LEMMA CheckOffsetInv ==
  ASSUME Inv, CheckOffset PROVE Inv'
<1>1. TypeOK /\ CallOK /\ HeapOK /\ PinOK /\ pc = "offset" /\ pc' = "fill"
  BY DEF Inv, CheckOffset, Step
<1>2. /\ sgl' = <<>> /\ i' = 0 /\ addr % PageSize = 0
      /\ UNCHANGED <<addr, length, numReq>>
      /\ UNCHANGED <<lenRem, heap, pages, pins, segs, mapped, list, calls>>
  BY DEF CheckOffset, callVars
<1>3. /\ addr \in Nat /\ length \in Nat \ {0} /\ numReq = PagesOf(addr, length)
      /\ lenRem = length
  BY <1>1, LimitsAssumption DEF CallOK, TypeOK
<1>4. numReq \in Nat \ {0}
  BY <1>3, PagesOfFacts
<1>5. TypeOK'
  BY <1>1, <1>2 DEF TypeOK
<1>6. CallOK'
  BY <1>1, <1>2 DEF CallOK, PagesOf, PageOf
<1>7. HeapOK'
  BY <1>1, <1>2 DEF HeapOK
<1>8. PinOK'
  BY <1>1, <1>2 DEF PinOK, Pinned, PageOf
<1>9. FillOK'
  <2>1. Start(0) = 0
    BY StartFacts
  <2>2. lenRem + Start(0) = length /\ lenRem > 0
    BY <1>3, <2>1
  <2> QED
    BY <1>2, <1>4, <2>2 DEF FillOK, Start
<1>10. FilledOK' /\ SegOK' /\ WrittenOK'
  BY <1>1 DEF FilledOK, SegOK, WrittenOK
<1> QED
  BY <1>5, <1>6, <1>7, <1>8, <1>9, <1>10 DEF Inv

LEMMA FillSglInv ==
  ASSUME Inv, FillSgl PROVE Inv'
<1> DEFINE len == IF lenRem > PageSize THEN PageSize ELSE lenRem
<1>1. /\ TypeOK /\ CallOK /\ HeapOK /\ PinOK /\ FillOK /\ pc = "fill"
      /\ pc' = (IF lenRem = len \/ i + 1 = Len(pages) THEN "dma_map" ELSE "fill")
      /\ sgl' = Append(sgl, [page |-> pages[i + 1], len |-> len])
      /\ lenRem' = lenRem - len /\ i' = i + 1
      /\ UNCHANGED <<addr, length, numReq>>
      /\ UNCHANGED <<heap, pages, pins, segs, mapped, list, calls>>
  BY DEF Inv, FillSgl, Step, callVars
<1>2. /\ addr \in Nat /\ length \in Nat \ {0} /\ numReq = PagesOf(addr, length)
      /\ addr % PageSize = 0 /\ Len(pages) = numReq
      /\ pages \in Seq(Page) /\ sgl \in Seq(Entry) /\ Len(sgl) = i
      /\ i \in Nat /\ i < numReq /\ lenRem \in Nat \ {0} /\ lenRem + Start(i) = length
      /\ \A k \in 1..i : sgl[k] = [page |-> pages[k], len |-> PageSize]
  BY <1>1, LimitsAssumption DEF CallOK, TypeOK, FillOK, PinOK, Pinned, Entry
<1>3. /\ numReq \in Nat \ {0} /\ Start(numReq) - length \in 0..PageSize - 1
      /\ Filled(numReq) = length
  BY <1>2, FilledFacts
<1>4. Start(i) \in Nat /\ Start(i + 1) = Start(i) + PageSize /\ Start(numReq) \in Nat
  BY <1>2, <1>3, StartFacts
<1>5. i + 1 < numReq => Start(i + 1) + PageSize <= Start(numReq)
  BY <1>2, <1>3, StartMono
<1>6. i + 1 < numReq => lenRem > PageSize
  BY <1>2, <1>3, <1>4, <1>5, PageSizeAssumption, SMTT(30)
<1>7. i + 1 = numReq => ~(lenRem > PageSize)
  BY <1>2, <1>3, <1>4, PageSizeAssumption, SMTT(30)
<1>8. len \in Nat /\ len <= lenRem /\ pages[i + 1] \in Page
  BY <1>2, <1>3, PageSizeAssumption
<1> DEFINE e == [page |-> pages[i + 1], len |-> len]
<1>9. e \in Entry
  BY <1>8 DEF Entry
<1>10. sgl' = Append(sgl, e)
  BY <1>1
<1>11. e.page = pages[i + 1] /\ e.len = len
  OBVIOUS
<1>12. e = [page |-> pages[i + 1], len |-> len]
  OBVIOUS
<1> HIDE DEF e
<1>13. /\ sgl' \in Seq(Entry) /\ Len(sgl') = i + 1 /\ sgl'[i + 1] = e
       /\ \A k \in 1..i : sgl'[k] = sgl[k]
  BY <1>2, <1>9, <1>10
<1>14. TypeOK'
  <2>1. lenRem' \in Nat /\ i' \in Nat /\ pc' \in {"fill", "dma_map"}
    BY <1>1, <1>2, <1>8
  <2> HIDE DEF len
  <2> QED
    BY <1>1, <1>13, <2>1 DEF TypeOK, Entry
<1>15. pc' \in {"fill", "dma_map"} /\ (pc' = "fill" <=> i + 1 < numReq)
  <2>1. CASE i + 1 < numReq
    <3>1. lenRem > PageSize /\ len = PageSize /\ lenRem # len /\ i + 1 # Len(pages)
      BY <1>2, <1>6, <2>1, PageSizeAssumption
    <3> QED
      BY <1>1, <2>1, <3>1
  <2>2. CASE ~(i + 1 < numReq)
    <3>1. i + 1 = Len(pages)
      BY <1>2, <1>3, <2>2
    <3> QED
      BY <1>1, <2>2, <3>1
  <2> QED
    BY <2>1, <2>2
<1> HIDE DEF len
<1>16. CallOK'
  BY <1>1, <1>15 DEF CallOK, PagesOf, PageOf
<1>17. HeapOK'
  BY <1>1, <1>15 DEF HeapOK
<1>18. PinOK'
  BY <1>1, <1>15 DEF PinOK, Pinned, PageOf
<1>19. FillOK'
  <2> SUFFICES ASSUME pc' = "fill" PROVE FillOK'
    BY DEF FillOK
  <2>1. i + 1 < numReq
    BY <1>15
  <2>2. len = PageSize
    BY <1>6, <2>1 DEF len
  <2>3. lenRem' = lenRem - PageSize /\ lenRem' > 0
    BY <1>1, <1>2, <1>6, <2>1, <2>2, PageSizeAssumption
  <2>4. lenRem' + Start(i + 1) = length
    BY <1>2, <1>4, <2>3, PageSizeAssumption
  <2>5. \A k \in 1..i + 1 : sgl'[k] = [page |-> pages[k], len |-> PageSize]
    <3> SUFFICES ASSUME NEW k \in 1..i + 1
                 PROVE  sgl'[k] = [page |-> pages[k], len |-> PageSize]
      OBVIOUS
    <3>1. CASE k = i + 1
      BY <1>12, <1>13, <2>2, <3>1
    <3>2. CASE k # i + 1
      <4>1. k \in 1..i
        BY <1>2, <3>2
      <4> QED
        BY <1>2, <1>13, <4>1
    <3> QED
      BY <3>1, <3>2
  <2> QED
    BY <1>1, <1>2, <1>13, <2>1, <2>3, <2>4, <2>5 DEF FillOK, Start
<1>20. FilledOK'
  <2> SUFFICES ASSUME pc' = "dma_map" PROVE FilledOK'
    BY DEF FilledOK
  <2>1. i + 1 = numReq /\ len = lenRem
    BY <1>2, <1>3, <1>7, <1>15 DEF len
  <2>2. ASSUME NEW k \in 1..numReq
        PROVE  sgl'[k].page = pages[k] /\ Filled(k - 1) + sgl'[k].len = Filled(k)
    <3>1. CASE k = numReq
      <4>1. Filled(k - 1) = Start(i)
        BY <1>2, <2>1, <3>1 DEF Filled
      <4>2. sgl'[k].page = pages[k] /\ sgl'[k].len = lenRem
        BY <1>11, <1>13, <2>1, <3>1
      <4> QED
        BY <1>2, <1>3, <1>4, <3>1, <4>1, <4>2
    <3>2. CASE k # numReq
      <4>1. k \in 1..i /\ k - 1 \in Nat /\ k - 1 < numReq /\ k < numReq
        BY <1>2, <2>1, <3>2
      <4>2. sgl'[k] = [page |-> pages[k], len |-> PageSize]
        BY <1>2, <1>13, <4>1
      <4>3. Filled(k - 1) = Start(k - 1) /\ Filled(k) = Start(k)
        BY <4>1 DEF Filled
      <4>4. Start((k - 1) + 1) = Start(k - 1) + PageSize
        BY <4>1, StartFacts
      <4>5. (k - 1) + 1 = k
        BY <4>1
      <4> QED
        BY <4>2, <4>3, <4>4, <4>5
    <3> QED
      BY <3>1, <3>2
  <2>3. \A k \in 1..numReq' :
          sgl'[k].page = pages'[k] /\ Filled(k - 1)' + sgl'[k].len = Filled(k)'
    BY <1>1, <2>2 DEF Filled
  <2>4. Len(sgl') = numReq'
    BY <1>1, <1>13, <2>1
  <2> QED
    BY <1>1, <1>2, <2>3, <2>4 DEF FilledOK, Filled
<1>21. SegOK' /\ WrittenOK'
  BY <1>15 DEF SegOK, WrittenOK
<1> QED
  BY <1>14, <1>16, <1>17, <1>18, <1>19, <1>20, <1>21 DEF Inv

LEMMA MapInv ==
  ASSUME Inv, Map PROVE Inv'
<1>1. /\ TypeOK /\ CallOK /\ HeapOK /\ PinOK /\ FilledOK /\ pc = "dma_map" /\ pc' = "write"
      /\ mapped' = TRUE /\ i' = 0
      /\ UNCHANGED <<addr, length, numReq>>
      /\ UNCHANGED <<lenRem, heap, pages, pins, sgl, list, calls>>
  BY DEF Inv, Map, Step, callVars
<1>a. PICK n \in 1..Len(sgl) : \E first \in [1..n + 1 -> 1..Len(sgl) + 1] :
        /\ Split(n, first)
        /\ segs' = [k \in 1..n |-> [page |-> sgl[first[k]].page,
                     len |-> Bytes[first[k + 1] - 1] - Bytes[first[k] - 1]]]
  BY DEF Map
<1>2. PICK first \in [1..n + 1 -> 1..Len(sgl) + 1] :
        /\ Split(n, first)
        /\ segs' = [k \in 1..n |-> [page |-> sgl[first[k]].page,
                     len |-> Bytes[first[k + 1] - 1] - Bytes[first[k] - 1]]]
  BY <1>a
<1>3. /\ addr \in Nat /\ length \in Nat \ {0} /\ numReq = PagesOf(addr, length)
      /\ addr % PageSize = 0 /\ Len(pages) = numReq
      /\ pages \in Seq(Page) /\ Len(sgl) = numReq
      /\ \A k \in 1..numReq : pages[k] = PageOf(addr) + (k - 1)
      /\ \A k \in 1..numReq :
           sgl[k].page = pages[k] /\ Filled(k - 1) + sgl[k].len = Filled(k)
  <2>1. /\ addr \in Nat /\ length \in Nat \ {0} /\ numReq = PagesOf(addr, length)
    BY <1>1, LimitsAssumption DEF CallOK, TypeOK
  <2>2. /\ Len(pages) = numReq /\ pages \in Seq(Page)
        /\ \A k \in 1..Len(pages) : pages[k] = PageOf(addr) + (k - 1)
    BY <1>1 DEF TypeOK, PinOK, Pinned
  <2>3. /\ addr % PageSize = 0 /\ Len(sgl) = numReq
        /\ \A k \in 1..numReq :
             sgl[k].page = pages[k] /\ Filled(k - 1) + sgl[k].len = Filled(k)
    BY <1>1 DEF FilledOK
  <2> QED
    BY <2>1, <2>2, <2>3
<1>4. /\ numReq \in Nat \ {0} /\ PageOf(addr) \in Nat /\ addr = Start(PageOf(addr))
      /\ Filled(0) = 0 /\ Filled(numReq) = length
      /\ \A k \in 0..numReq : Filled(k) \in Nat /\ Filled(k) <= length
      /\ \A p, q \in 0..numReq : p < q => Filled(p) < Filled(q)
  BY <1>3, FilledFacts
<1>5. \A k \in 0..numReq : Bytes[k] = Filled(k)
  BY <1>3, <1>4, BytesIs
<1>6. n \in Nat \ {0} /\ first[1] = 1 /\ first[n + 1] = numReq + 1
  BY <1>a, <1>2, <1>3, <1>4 DEF Split
<1>b. numReq \in Nat
  BY <1>4
<1>c. \A j \in 1..numReq : sgl[j].page = PageOf(addr) + (j - 1) /\ sgl[j].page \in Page
  <2> SUFFICES ASSUME NEW j \in 1..numReq
               PROVE  sgl[j].page = PageOf(addr) + (j - 1) /\ sgl[j].page \in Page
    OBVIOUS
  <2>1. pages[j] \in Page
    BY <1>3, <1>b
  <2> QED
    BY <1>3, <2>1
<1>7. ASSUME NEW k \in 1..n
      PROVE  /\ first[k] \in 1..numReq
             /\ first[k] - 1 \in 0..numReq /\ first[k + 1] - 1 \in 0..numReq
             /\ first[k] - 1 < first[k + 1] - 1
  <2>1. k \in 1..n + 1 /\ k + 1 \in 1..n + 1
    BY <1>6
  <2>2. first[k] \in 1..numReq + 1 /\ first[k + 1] \in 1..numReq + 1
    BY <1>2, <1>3, <2>1
  <2>3. first[k + 1] - first[k] \in 1..MaxSegment
    BY <1>2 DEF Split
  <2>4. first[k + 1] - first[k] >= 1
    BY <2>2, <2>3, LimitsAssumption
  <2> DEFINE u == first[k]
             v == first[k + 1]
  <2>5. u \in 1..numReq + 1 /\ v \in 1..numReq + 1 /\ v - u >= 1
    BY <2>2, <2>4
  <2> HIDE DEF u, v
  <2>6. u \in 1..numReq /\ u - 1 \in 0..numReq /\ v - 1 \in 0..numReq /\ u - 1 < v - 1
    BY <1>b, <2>5
  <2> QED
    BY <2>6 DEF u, v
<1> DEFINE P(k) == sgl[first[k]].page
           L(k) == Bytes[first[k + 1] - 1] - Bytes[first[k] - 1]
<1>8. ASSUME NEW k \in 1..n
      PROVE  /\ P(k) \in Page /\ P(k) = PageOf(addr) + (first[k] - 1)
             /\ Start(P(k)) \in Nat /\ Start(P(k)) = addr + Filled(first[k] - 1)
             /\ L(k) = Filled(first[k + 1] - 1) - Filled(first[k] - 1)
             /\ L(k) \in Nat \ {0}
  <2> DEFINE a == first[k] - 1
             b == first[k + 1] - 1
  <2>1. /\ a \in 0..numReq /\ b \in 0..numReq /\ a < b /\ first[k] = a + 1
        /\ first[k] \in 1..numReq
    <3>1. /\ first[k] \in 1..numReq /\ a \in 0..numReq /\ b \in 0..numReq /\ a < b
      BY <1>7
    <3>2. first[k] = a + 1
      BY <1>b, <3>1
    <3> QED
      BY <3>1, <3>2
  <2>2. P(k) \in Page /\ P(k) = PageOf(addr) + (first[k] - 1)
    BY <1>c, <2>1
  <2> HIDE DEF a, b
  <2>3. Start(PageOf(addr) + a) = Start(PageOf(addr)) + Start(a) /\ Start(a) \in Nat
    <3>1. a \in Nat
      BY <1>4, <2>1
    <3> QED
      BY <1>4, <3>1, StartSum, StartFacts
  <2>4. Filled(a) = Start(a) /\ Bytes[a] = Filled(a) /\ Bytes[b] = Filled(b)
    BY <1>4, <1>5, <2>1 DEF Filled
  <2>5. Filled(a) \in Nat /\ Filled(b) \in Nat /\ Filled(a) < Filled(b)
    BY <1>4, <2>1
  <2>6. L(k) = Filled(b) - Filled(a)
    BY <2>4 DEF a, b
  <2>7. L(k) \in Nat \ {0}
    BY <2>5, <2>6, SMTT(30)
  <2>8. P(k) = PageOf(addr) + a
    BY <2>2 DEF a
  <2>9. Start(P(k)) = addr + Filled(a) /\ Start(P(k)) \in Nat
    <3>1. Start(P(k)) = Start(PageOf(addr)) + Start(a)
      BY <2>3, <2>8
    <3>2. Start(PageOf(addr)) = addr /\ Start(a) = Filled(a) /\ addr \in Nat
      BY <1>3, <1>4, <2>4
    <3> HIDE DEF P
    <3> QED
      BY <2>3, <3>1, <3>2
  <2> QED
    BY <2>2, <2>6, <2>7, <2>9 DEF a, b
<1> HIDE DEF P, L
<1>9. segs' = [k \in 1..n |-> [page |-> P(k), len |-> L(k)]]
  BY <1>2 DEF P, L
<1>10. \A k \in 1..n : [page |-> P(k), len |-> L(k)] \in Entry
  BY <1>8 DEF Entry
<1>11. /\ segs' \in Seq(Entry) /\ Len(segs') = n
       /\ \A k \in 1..n : segs'[k].page = P(k) /\ segs'[k].len = L(k)
  BY <1>6, <1>9, <1>10
<1>12. Covers(segs, n)'
  <2>1. n \in 1..Len(segs')
    BY <1>6, <1>11
  <2>2. Start(P(1)) = addr
    <3>1. 1 \in 1..n /\ first[1] - 1 = 0
      BY <1>6
    <3>2. Start(P(1)) = addr + Filled(first[1] - 1)
      BY <1>8, <3>1
    <3> QED
      BY <1>3, <1>4, <3>1, <3>2
  <2>3. ASSUME NEW k \in 1..n
        PROVE  L(k) > 0 /\ addr <= Start(P(k)) /\ Start(P(k)) + L(k) <= addr + length
    <3> DEFINE a == first[k] - 1
               b == first[k + 1] - 1
    <3>1. Start(P(k)) = addr + Filled(a) /\ L(k) = Filled(b) - Filled(a) /\ L(k) \in Nat \ {0}
      BY <1>8
    <3>2. a \in 0..numReq /\ b \in 0..numReq
      BY <1>b, <1>7
    <3> HIDE DEF a, b
    <3>3. Filled(a) \in Nat /\ Filled(b) \in Nat /\ Filled(b) <= length
      BY <1>4, <3>2
    <3>4. addr \in Nat /\ length \in Nat
      BY <1>3
    <3>5. Start(P(k)) + L(k) = addr + Filled(b)
      BY <3>1, <3>3, <3>4
    <3>6. L(k) > 0 /\ addr <= Start(P(k))
      BY <3>1, <3>3, <3>4, SMTT(30)
    <3>7. addr + Filled(b) <= addr + length
      BY <3>3, <3>4
    <3> QED
      BY <3>5, <3>6, <3>7
  <2>4. ASSUME NEW k \in 2..n PROVE Start(P(k)) = Start(P(k - 1)) + L(k - 1)
    <3>1. k - 1 \in 1..n /\ k \in 1..n /\ (k - 1) + 1 = k
      BY <1>6
    <3> DEFINE a == first[k - 1] - 1
               b == first[k] - 1
    <3>2. /\ Start(P(k - 1)) = addr + Filled(a) /\ L(k - 1) = Filled(first[(k - 1) + 1] - 1) - Filled(a)
          /\ Start(P(k)) = addr + Filled(b)
      BY <1>8, <3>1
    <3>3. L(k - 1) = Filled(b) - Filled(a)
      BY <3>1, <3>2
    <3>4. a \in 0..numReq /\ b \in 0..numReq
      <4>1. a \in 0..numReq
        BY <1>b, <1>7, <3>1
      <4>2. b \in 0..numReq
        BY <1>b, <1>7, <3>1
      <4> QED
        BY <4>1, <4>2
    <3> HIDE DEF a, b
    <3>5. Filled(a) \in Nat /\ Filled(b) \in Nat
      BY <1>4, <3>4
    <3> QED
      BY <1>3, <3>2, <3>3, <3>5
  <2>5. Start(P(n)) + L(n) = addr + length
    <3>1. n \in 1..n /\ first[n + 1] - 1 = numReq
      BY <1>4, <1>6
    <3> DEFINE a == first[n] - 1
    <3>2. Start(P(n)) = addr + Filled(a) /\ L(n) = Filled(first[n + 1] - 1) - Filled(a)
      BY <1>8, <3>1
    <3>3. L(n) = length - Filled(a)
      BY <1>4, <3>1, <3>2
    <3>4. a \in 0..numReq
      BY <1>4, <1>7, <3>1
    <3> HIDE DEF a
    <3>5. Filled(a) \in Nat
      BY <1>4, <3>4
    <3> QED
      BY <1>3, <3>2, <3>3, <3>5
  <2>6. 1 \in 1..n /\ n \in 1..n /\ \A k \in 2..n : k \in 1..n /\ k - 1 \in 1..n
    BY <1>6
  <2>7. addr' = addr /\ length' = length
    BY <1>1
  <2> QED
    BY <1>11, <2>1, <2>2, <2>3, <2>4, <2>5, <2>6, <2>7 DEF Covers, Start
<1>13. TypeOK'
  BY <1>1, <1>11 DEF TypeOK, Entry
<1>14. CallOK'
  BY <1>1 DEF CallOK, PagesOf, PageOf
<1>15. HeapOK'
  BY <1>1 DEF HeapOK
<1>16. PinOK'
  BY <1>1 DEF PinOK, Pinned, PageOf
<1>17. SegOK'
  BY <1>11, <1>12 DEF SegOK
<1>18. FillOK' /\ FilledOK' /\ WrittenOK'
  BY <1>1, <1>6, <1>11 DEF FillOK, FilledOK, WrittenOK, TypeOK
<1> QED
  BY <1>13, <1>14, <1>15, <1>16, <1>17, <1>18 DEF Inv

LEMMA WriteEntryInv ==
  ASSUME Inv, WriteEntry PROVE Inv'
<1>1. /\ TypeOK /\ CallOK /\ HeapOK /\ PinOK /\ SegOK /\ WrittenOK
      /\ pc = "write" /\ pc' = (IF i + 1 = Len(segs) THEN "busy" ELSE "write")
      /\ i' = i + 1
      /\ UNCHANGED <<addr, length, numReq>>
      /\ UNCHANGED <<lenRem, heap, pages, pins, sgl, segs, mapped, calls>>
  BY DEF Inv, WriteEntry, Step, callVars
<1>2. list' = IF i < Len(list) THEN [list EXCEPT ![i + 1] = segs[i + 1]]
                               ELSE Append(list, segs[i + 1])
  BY DEF WriteEntry
<1>3. /\ list \in Seq(Entry) /\ segs \in Seq(Entry) /\ i \in Nat /\ i < Len(segs)
      /\ i <= Len(list) /\ \A k \in 1..i : list[k] = segs[k]
  BY <1>1 DEF TypeOK, WrittenOK, Entry
<1>4. segs[i + 1] \in Entry
  BY <1>3
<1> DEFINE e == segs[i + 1]
<1> HIDE DEF e
<1>5. e \in Entry /\ list' = IF i < Len(list) THEN [list EXCEPT ![i + 1] = e] ELSE Append(list, e)
  BY <1>2, <1>4 DEF e
<1>6. /\ list' \in Seq(Entry) /\ i + 1 <= Len(list') /\ list'[i + 1] = e
      /\ \A k \in 1..i : list'[k] = list[k]
  <2>1. CASE i < Len(list)
    <3>1. list' = [list EXCEPT ![i + 1] = e]
      BY <1>5, <2>1
    <3> QED
      BY <1>3, <1>5, <2>1, <3>1
  <2>2. CASE ~(i < Len(list))
    <3>1. list' = Append(list, e) /\ Len(list) = i
      BY <1>3, <1>5, <2>2
    <3> QED
      BY <1>3, <1>5, <3>1
  <2> QED
    BY <2>1, <2>2
<1>7. \A k \in 1..i + 1 : list'[k] = segs[k]
  <2> SUFFICES ASSUME NEW k \in 1..i + 1 PROVE list'[k] = segs[k]
    OBVIOUS
  <2>1. CASE k = i + 1
    BY <1>6, <2>1 DEF e
  <2>2. CASE k # i + 1
    <3>1. k \in 1..i
      BY <1>3, <2>2
    <3> QED
      BY <1>3, <1>6, <3>1
  <2> QED
    BY <2>1, <2>2
<1>8. pc' \in {"write", "busy"} /\ (pc' = "busy" => i + 1 = Len(segs))
      /\ (pc' = "write" => i + 1 < Len(segs))
  <2>1. Len(segs) \in Nat
    BY <1>3
  <2> QED
    BY <1>1, <1>3, <2>1
<1>9. TypeOK'
  <2>1. i' \in Nat /\ list' \in Seq(Entry)
    BY <1>1, <1>3, <1>6
  <2>2. list' \in Seq([page : Page, len : Nat])
    BY <2>1 DEF Entry
  <2>3. i' \in Nat
    BY <2>1
  <2> QED
    BY <1>1, <1>8, <2>2, <2>3 DEF TypeOK
<1>10. CallOK'
  BY <1>1, <1>8 DEF CallOK, PagesOf, PageOf
<1>11. HeapOK'
  BY <1>1, <1>8 DEF HeapOK
<1>12. PinOK'
  BY <1>1, <1>8 DEF PinOK, Pinned, PageOf
<1>13. SegOK'
  BY <1>1, <1>8 DEF SegOK, Covers, Start
<1>14. WrittenOK'
  BY <1>1, <1>3, <1>6, <1>7, <1>8 DEF WrittenOK
<1>15. FillOK' /\ FilledOK'
  BY <1>8 DEF FillOK, FilledOK
<1> QED
  BY <1>9, <1>10, <1>11, <1>12, <1>13, <1>14, <1>15 DEF Inv

LEMMA StutterInv ==
  ASSUME Inv, UNCHANGED vars PROVE Inv'
<1>1. /\ UNCHANGED <<addr, length, numReq>>
      /\ UNCHANGED <<pc, lenRem, i, heap, pages, pins, sgl, segs, mapped, list, calls>>
  BY DEF vars, callVars
<1> QED
  BY <1>1 DEF Inv, TypeOK, CallOK, HeapOK, PinOK, Pinned, FillOK, FilledOK, Filled, SegOK,
              Covers, WrittenOK, PagesOf, PageOf, Start

LEMMA NextInv == Inv /\ [Next]_vars => Inv'
<1> SUFFICES ASSUME Inv, [Next]_vars PROVE Inv'
  OBVIOUS
<1>1. CASE UNCHANGED vars
  BY <1>1, StutterInv
<1>2. ASSUME NEW a \in Addresses, NEW n \in 0..MaxLength, Call(a, n) PROVE Inv'
  BY <1>2, CallInv
<1>3. ASSUME NEW n \in 0..numReq, Pin(n) PROVE Inv'
  BY <1>3, PinInv
<1>4. CASE AllocMap \/ CountPages \/ TooManyPages \/ AllocPages
  BY <1>4, AllocMapInv, CountPagesInv, TooManyPagesInv, AllocPagesInv
<1>5. CASE Unpin \/ AllocSgl \/ CheckOffset \/ NotAligned \/ FillSgl
  BY <1>5, UnpinInv, AllocSglInv, CheckOffsetInv, NotAlignedInv, FillSglInv
<1>6. CASE Map \/ MapFails \/ WriteEntry \/ FreeSgBuf
  BY <1>6, MapInv, MapFailsInv, WriteEntryInv, FreeSgBufInv
<1> QED
  BY <1>1, <1>2, <1>3, <1>4, <1>5, <1>6 DEF Next

-----------------------------------------------------------------------------
(***************************************************************************)
(* The theorems.                                                           *)
(***************************************************************************)

\* get_sg_list keeps the invariant: what is allocated, pinned, filled in and
\* written to the list is what its place in the code says.
THEOREM SgListInv == Spec => []Inv
BY InitInv, NextInv, PTL DEF Spec

\* Every variable of get_sg_list keeps its type: the page counts do not go
\* negative and no reference on a page is dropped that was not taken.
THEOREM SgListTypes == Spec => []TypeOK
<1>1. Inv => TypeOK
  BY DEF Inv
<1> QED
  BY <1>1, SgListInv, PTL

\* Whichever of its nine returns get_sg_list takes, and after free_sg_buf,
\* nothing is allocated, mapped or pinned, for any buffer and any page size.
THEOREM SgListNothingLeft == Spec => []NothingLeft
<1>1. Inv => NothingLeft
  BY DEF Inv, HeapOK, PinOK, Pinned, NothingLeft
<1> QED
  BY <1>1, SgListInv, PTL

\* The entries the card reads name the bytes of the user, all of them, once and
\* in order, and only bytes of pinned pages, however dma_map_sg merges the pages.
THEOREM SgListListCovers == Spec => []ListCovers
<1>1. Inv => ListCovers
  <2> SUFFICES ASSUME Inv, pc = "busy" PROVE ListCovers
    BY DEF ListCovers
  <2>1. /\ TypeOK /\ CallOK /\ PinOK /\ Covers(segs, Len(segs))
        /\ \A k \in 1..Len(segs) : list[k] = segs[k]
    BY DEF Inv, SegOK, WrittenOK
  <2>2. /\ Len(segs) \in Nat \ {0} /\ 1 \in 1..Len(segs) /\ Len(segs) \in 1..Len(segs)
        /\ \A k \in Listed \ {1} : k \in 2..Len(segs) /\ k \in 1..Len(segs) /\ k - 1 \in 1..Len(segs)
    BY <2>1 DEF Covers, Listed, TypeOK
  <2>3. /\ addr \in Nat /\ length \in Nat \ {0} /\ numReq = PagesOf(addr, length)
        /\ Len(pages) = numReq /\ \A k \in 1..numReq : pages[k] = PageOf(addr) + (k - 1)
        /\ \A p \in Page : pins[p] = IF \E k \in 1..numReq : pages[k] = p THEN 1 ELSE 0
    BY <2>1, LimitsAssumption DEF CallOK, TypeOK, PinOK, Pinned
  <2>4. ASSUME NEW k \in Listed, NEW b \in 0..list[k].len - 1,
               PageOf(Start(list[k].page) + b) \in Page
        PROVE  pins[PageOf(Start(list[k].page) + b)] = 1
    <3>1. /\ list[k] = segs[k] /\ segs[k].len > 0 /\ addr <= Start(segs[k].page)
          /\ Start(segs[k].page) + segs[k].len <= addr + length
      BY <2>1 DEF Covers, Listed
    <3>2. segs[k] \in Entry
      <4>1. segs \in Seq(Entry)
        BY <2>1 DEF TypeOK, Entry
      <4> QED
        BY <4>1 DEF Listed
    <3>3. segs[k].page \in Page /\ segs[k].len \in Nat
      BY <3>2 DEF Entry
    <3>4. segs[k].page \in Nat
      <4>1. ASSUME NEW a \in Addresses, NEW n \in 0..MaxLength PROVE PageOf(a + n) \in Nat
        <5>1. a + n \in Nat
          BY AddressesAssumption, LimitsAssumption
        <5> QED
          BY <5>1, PageOfSplit
      <4> QED
        BY <3>3, <4>1 DEF Page
    <3>5. Start(segs[k].page) \in Nat
      BY <3>4, StartFacts
    <3> DEFINE x == Start(list[k].page) + b
    <3>6. x \in Nat /\ addr <= x /\ x < addr + length
      BY <2>3, <3>1, <3>3, <3>5
    <3>7. PICK j \in 1..numReq : PageOf(x) = PageOf(addr) + (j - 1)
      BY <2>3, <3>6, ByteIn
    <3>8. pages[j] = PageOf(x)
      BY <2>3, <3>7
    <3> HIDE DEF x
    <3>9. PageOf(x) \in Page
      BY <2>4 DEF x
    <3>10. pins[PageOf(x)] = 1
      BY <2>3, <3>8, <3>9
    <3> QED
      BY <3>10 DEF x
  <2>5. /\ Start(list[1].page) = addr
        /\ \A k \in Listed \ {1} :
             Start(list[k].page) = Start(list[k - 1].page) + list[k - 1].len
        /\ Start(list[Len(segs)].page) + list[Len(segs)].len = addr + length
        /\ \A k \in Listed : list[k].len > 0
    BY <2>1, <2>2 DEF Covers, Listed
  <2> QED
    BY <2>4, <2>5 DEF ListCovers
<1> QED
  BY <1>1, SgListInv, PTL

==============================================================================
