------------------------------- MODULE SgList -------------------------------
(***************************************************************************)
(* get_sg_list and free_sg_buf (sgdma.c): how the user buffer of a         *)
(* scatter-gather call becomes pinned pages, a scatterlist, DMA segments   *)
(* and the entries of the list buffer the card reads, what every early     *)
(* return puts back, and the release after the transfer.                   *)
(*                                                                         *)
(* One caller, call after call.  The list buffer keeps what was written to *)
(* it, so that a shorter list is followed by the entries of an older one.  *)
(***************************************************************************)
EXTENDS Naturals, Sequences

CONSTANTS
  PageSize,   \* PAGE_SIZE, in bytes
  SgNumMax,   \* SG_NUM_MAX: the most pages of a call
  ListRoom,   \* entries in SGDMA_LIST_BUFFER_SIZE
  MaxSegment, \* dma_set_max_seg_size, in pages
  Addresses,  \* the addresses a user buffer may have
  MaxLength,  \* bound on the length of a call
  MaxCalls    \* bound on the calls

ASSUME PageSizeAssumption == PageSize \in Nat \ {0}
ASSUME LimitsAssumption ==
  /\ SgNumMax \in Nat \ {0} /\ ListRoom \in Nat \ {0} /\ MaxSegment \in Nat \ {0}
  /\ MaxLength \in Nat /\ MaxCalls \in Nat
ASSUME AddressesAssumption == Addresses \subseteq Nat

\* The page an address is in, and the first byte of a page.
PageOf(a) == a \div PageSize
Start(p)  == p * PageSize

\* The allocations of a call: sg_map, its pages array and its sgl array.
Heap == {"sg_map", "pages", "sgl"}

VARIABLES
  pc,      \* the next step of get_sg_list, "idle", or "busy" while the call has its list
  addr,    \* userdata
  length,  \* length
  numReq,  \* num_pages_req
  lenRem,  \* len_rem
  i,       \* the loop index
  heap,    \* the allocations not freed
  pages,   \* pages[]: the pages get_user_pages returned
  pins,    \* pins[p]: references taken on page p and not put
  sgl,     \* the scatterlist: the page and the bytes of each entry
  segs,    \* the DMA segments dma_map_sg made of it
  mapped,  \* the scatterlist is mapped for the device
  list,    \* the list buffer: what was written to each entry
  calls    \* how many calls were made

callVars == <<addr, length, numReq>>
vars == <<pc, callVars, lenRem, i, heap, pages, pins, sgl, segs, mapped, list, calls>>

\* Every page a call can touch.
Page == {PageOf(a + n) : a \in Addresses, n \in 0..MaxLength}

Init ==
  /\ pc = "idle" /\ addr = 0 /\ length = 0 /\ numReq = 0 /\ lenRem = 0 /\ i = 0
  /\ heap = {} /\ pages = <<>> /\ pins = [p \in Page |-> 0]
  /\ sgl = <<>> /\ segs = <<>> /\ mapped = FALSE /\ list = <<>> /\ calls = 0

-----------------------------------------------------------------------------
\* put_page for the first n pages.
Put(n) == [p \in Page |->
  IF \E k \in 1..n : pages[k] = p THEN pins[p] - 1 ELSE pins[p]]

\* An early return: NULL, after n pages were put and the allocations in `freed`.
GiveUp(n, freed) ==
  /\ pc' = "idle" /\ pins' = Put(n) /\ heap' = heap \ freed
  /\ UNCHANGED <<callVars, lenRem, i, pages, sgl, segs, mapped, list, calls>>

Step(from, to) == pc = from /\ pc' = to

\* A length of 0 is refused here; sg_h2c refuses it before, sg_c2h does not.
Call(a, n) ==
  /\ calls < MaxCalls /\ calls' = calls + 1
  /\ Step("idle", IF n = 0 THEN "idle" ELSE "map_alloc")
  /\ addr' = a /\ length' = n /\ lenRem' = n
  /\ UNCHANGED <<numReq, i, heap, pages, pins, sgl, segs, mapped, list>>

AllocMap ==
  /\ \/ /\ Step("map_alloc", "count") /\ heap' = heap \cup {"sg_map"}
        /\ UNCHANGED pins
     \/ Step("map_alloc", "idle") /\ UNCHANGED <<heap, pins>>
  /\ UNCHANGED <<callVars, lenRem, i, pages, sgl, segs, mapped, list, calls>>

\* The pages the buffer touches.
PagesOf(a, n) == (PageOf(a + n - 1) - PageOf(a)) + 1

CountPages ==
  /\ Step("count", "pages_alloc") /\ PagesOf(addr, length) <= SgNumMax
  /\ numReq' = PagesOf(addr, length)
  /\ UNCHANGED <<addr, length, lenRem, i, heap, pages, pins, sgl, segs, mapped, list, calls>>

TooManyPages ==
  /\ pc = "count" /\ PagesOf(addr, length) > SgNumMax
  /\ GiveUp(0, {"sg_map"})

AllocPages ==
  \/ /\ Step("pages_alloc", "pin") /\ heap' = heap \cup {"pages"}
     /\ UNCHANGED <<callVars, lenRem, i, pages, pins, sgl, segs, mapped, list, calls>>
  \/ pc = "pages_alloc" /\ GiveUp(0, {"sg_map"})

\* get_user_pages takes a reference on the pages it could get, in order.
Pin(n) ==
  /\ Step("pin", IF n = numReq THEN "sgl_alloc" ELSE "unpin")
  /\ pages' = [k \in 1..n |-> PageOf(addr) + (k - 1)]
  /\ pins' = [p \in Page |-> IF \E k \in 1..n : pages'[k] = p THEN pins[p] + 1 ELSE pins[p]]
  /\ UNCHANGED <<callVars, lenRem, i, heap, sgl, segs, mapped, list, calls>>

\* num_pages != num_pages_req: what was pinned is put.
Unpin == pc = "unpin" /\ GiveUp(Len(pages), {"pages", "sg_map"})

AllocSgl ==
  \/ /\ Step("sgl_alloc", "offset") /\ heap' = heap \cup {"sgl"}
     /\ UNCHANGED <<callVars, lenRem, i, pages, pins, sgl, segs, mapped, list, calls>>
  \/ pc = "sgl_alloc" /\ GiveUp(Len(pages), {"pages", "sg_map"})

\* A buffer that does not begin on a page is refused, all pages pinned.
CheckOffset ==
  /\ Step("offset", "fill") /\ addr % PageSize = 0
  /\ sgl' = <<>> /\ i' = 0
  /\ UNCHANGED <<callVars, lenRem, heap, pages, pins, segs, mapped, list, calls>>

\* Faulty variant: the pages stay pinned.
NotAlignedPinned ==
  /\ pc = "offset" /\ addr % PageSize # 0
  /\ GiveUp(0, Heap)

NotAligned ==
  /\ pc = "offset" /\ addr % PageSize # 0
  /\ GiveUp(Len(pages), Heap)

\* Faulty variant: what remains is not counted down.
FillWhole ==
  LET len == IF lenRem > PageSize THEN PageSize ELSE lenRem
  IN /\ Step("fill", IF i + 1 = Len(pages) THEN "dma_map" ELSE "fill")
     /\ sgl' = Append(sgl, [page |-> pages[i + 1], len |-> len])
     /\ i' = i + 1
     /\ UNCHANGED <<callVars, lenRem, heap, pages, pins, segs, mapped, list, calls>>

\* One round of the loop over the pages.
FillSgl ==
  LET len == IF lenRem > PageSize THEN PageSize ELSE lenRem
  IN /\ Step("fill", IF lenRem = len \/ i + 1 = Len(pages) THEN "dma_map" ELSE "fill")
     /\ sgl' = Append(sgl, [page |-> pages[i + 1], len |-> len])
     /\ lenRem' = lenRem - len /\ i' = i + 1
     /\ UNCHANGED <<callVars, heap, pages, pins, segs, mapped, list, calls>>

-----------------------------------------------------------------------------
(***************************************************************************)
(* dma_map_sg may merge entries whose pages happen to be adjacent for the  *)
(* device into one segment, up to the largest segment size.                *)
(***************************************************************************)

\* The bytes of the first k entries.
Bytes == LET sum[k \in 0..Len(sgl)] == IF k = 0 THEN 0 ELSE sum[k - 1] + sgl[k].len
         IN sum

\* first[k] is the first entry of the k-th of n segments.
Split(n, first) ==
  /\ first[1] = 1 /\ first[n + 1] = Len(sgl) + 1
  /\ \A k \in 1..n : first[k + 1] - first[k] \in 1..MaxSegment

Map ==
  /\ Step("dma_map", "write")
  /\ \E n \in 1..Len(sgl) : \E first \in [1..n + 1 -> 1..Len(sgl) + 1] :
       /\ Split(n, first)
       /\ segs' = [k \in 1..n |-> [page |-> sgl[first[k]].page,
                    len |-> Bytes[first[k + 1] - 1] - Bytes[first[k] - 1]]]
  /\ mapped' = TRUE /\ i' = 0
  /\ UNCHANGED <<callVars, lenRem, heap, pages, pins, sgl, list, calls>>

MapFails == pc = "dma_map" /\ GiveUp(Len(pages), Heap)

\* One entry of the list buffer.  Nothing compares i with the size of the buffer.
WriteEntry ==
  /\ Step("write", IF i + 1 = Len(segs) THEN "busy" ELSE "write")
  /\ list' = IF i < Len(list) THEN [list EXCEPT ![i + 1] = segs[i + 1]]
                              ELSE Append(list, segs[i + 1])
  /\ i' = i + 1
  /\ UNCHANGED <<callVars, lenRem, heap, pages, pins, sgl, segs, mapped, calls>>

\* Faulty variant: every page is put twice.
FreeTwice ==
  /\ Step("busy", "idle")
  /\ mapped' = FALSE /\ heap' = {}
  /\ pins' = [p \in Page |-> pins[p] - 2 * (pins[p] - Put(Len(pages))[p])]
  /\ UNCHANGED <<callVars, lenRem, i, pages, sgl, segs, list, calls>>

\* free_sg_buf, on every exit of the call.
FreeSgBuf ==
  /\ Step("busy", "idle")
  /\ mapped' = FALSE /\ pins' = Put(Len(pages)) /\ heap' = {}
  /\ UNCHANGED <<callVars, lenRem, i, pages, sgl, segs, list, calls>>

-----------------------------------------------------------------------------
Next ==
  \/ \E a \in Addresses, n \in 0..MaxLength : Call(a, n)
  \/ AllocMap \/ CountPages \/ TooManyPages \/ AllocPages
  \/ \E n \in 0..numReq : Pin(n)
  \/ Unpin \/ AllocSgl \/ CheckOffset \/ NotAligned \/ FillSgl
  \/ Map \/ MapFails \/ WriteEntry \/ FreeSgBuf

Spec == Init /\ [][Next]_vars

-----------------------------------------------------------------------------
(***************************************************************************)
(* Properties.                                                             *)
(***************************************************************************)

\* Every variable has its type.
TypeOK ==
  /\ pc \in {"idle", "map_alloc", "count", "pages_alloc", "pin", "unpin", "sgl_alloc",
             "offset", "fill", "dma_map", "write", "busy"}
  /\ addr \in Nat /\ length \in Nat /\ numReq \in Nat /\ lenRem \in Nat
  /\ i \in Nat /\ calls \in Nat
  /\ heap \subseteq Heap /\ mapped \in BOOLEAN
  /\ pages \in Seq(Page) /\ pins \in [Page -> Nat]
  /\ sgl \in Seq([page : Page, len : Nat]) /\ segs \in Seq([page : Page, len : Nat])
  /\ list \in Seq([page : Page, len : Nat])

\* Between calls nothing is allocated, pinned or mapped, whichever of its nine
\* returns get_sg_list took (sgdma.c:59-308, 375-467).
NothingLeft ==
  pc = "idle" => heap = {} /\ ~mapped /\ \A p \in Page : pins[p] = 0

\* The entries the card will read name the bytes of the user, all of them, once
\* and in order: each begins where the one before ended, and the device reaches
\* no byte of a page that is not pinned (sgdma.c:264-344).
Listed == 1..Len(segs)
ListCovers ==
  pc = "busy" =>
    /\ Start(list[1].page) = addr
    /\ \A k \in Listed \ {1} :
         Start(list[k].page) = Start(list[k - 1].page) + list[k - 1].len
    /\ LET last == list[Len(segs)]
       IN Start(last.page) + last.len = addr + length
    /\ \A k \in Listed :
         /\ list[k].len > 0
         /\ \A b \in 0..list[k].len - 1 :
              PageOf(Start(list[k].page) + b) \in Page
              => pins[PageOf(Start(list[k].page) + b)] = 1

\* What the tools say: one scatter-gather transfer is at most as many pages as
\* the list buffer has entries, "SG_NUM_MAX x PAGE_SIZE = 512 x 4KB"
\* (sgdma_from_device.c:34).
ListFits == Len(list) <= ListRoom

=============================================================================
