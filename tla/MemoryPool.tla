----------------------------- MODULE MemoryPool -----------------------------
(***************************************************************************)
(* The pool of huge pages that all addresses are drawn from, and the two   *)
(* translations between virtual and physical addresses.  Addresses are     *)
(* numbers of bytes; 0 is the null pointer.                                *)
(*                                                                         *)
(* The operating system is external: a layout says which pages mmap hands  *)
(* out, in this order, and on which physical frames their parts lie.       *)
(***************************************************************************)
EXTENDS Integers, Sequences

CONSTANTS
  page_size,          \* pool->config->page_size
  num_pages,
  granularity,        \* the size of a cache line
  OSPageSize,         \* sysconf(_SC_PAGESIZE)
  Layouts             \* records: pages of mmap, and the page map of their parts

ASSUME PoolAssumption ==
  /\ {page_size, num_pages, granularity, OSPageSize} \subseteq Nat \ {0}
  /\ page_size % granularity = 0 /\ page_size % OSPageSize = 0
  /\ \A l \in Layouts :
       /\ l.pages \in Seq({v \in Nat : v > 0 /\ v % page_size = 0})
       /\ \A k, n \in DOMAIN l.pages :
            k # n => l.pages[k] # l.pages[n]
       /\ l.frame \in [{v \div OSPageSize : v \in
            UNION {l.pages[k] .. l.pages[k] + page_size - 1 :
                     k \in DOMAIN l.pages}} -> Nat]

VARIABLES
  layout,
  pages               \* pool->pages, <<>> for the null pointer

InitPool ==
  /\ layout \in Layouts
  /\ pages = <<>>

(* mmap has a page for every page asked for.                               *)
InitMemoryPool ==
  /\ Len(layout.pages) >= num_pages
  /\ pages' = SubSeq(layout.pages, 1, num_pages)
  /\ UNCHANGED layout

(* It has not: the program exits, and the system takes back all pages.     *)
MapFails ==
  /\ Len(layout.pages) < num_pages
  /\ UNCHANGED <<layout, pages>>

FreeMemoryPool ==
  /\ pages # <<>>
  /\ pages' = <<>>
  /\ UNCHANGED layout

(* The page map of the process, read for a page that is present.           *)
VirtToPhys(vaddr) ==
  layout.frame[vaddr \div OSPageSize] * OSPageSize + (vaddr % OSPageSize)

(* The last cache line of a page of the pool.                              *)
LastLine(k) == pages[k] + page_size - granularity

(* A variant: the last line of a page is not looked for.                   *)
HoldsButLast(k, paddr) ==
  VirtToPhys(pages[k]) <= paddr /\ paddr < VirtToPhys(LastLine(k))

Holds(k, paddr) ==
  VirtToPhys(pages[k]) <= paddr /\ paddr <= VirtToPhys(LastLine(k))

(* A page whose last frame lies before its first, which a huge page does   *)
(* not have.                                                               *)
HoldsBackwards(k, paddr) ==
  VirtToPhys(LastLine(k)) <= paddr /\ paddr <= VirtToPhys(pages[k])

Finds(k, paddr) == Holds(k, paddr) \/ HoldsBackwards(k, paddr)

At(k, paddr) ==
  IF Holds(k, paddr)
  THEN pages[k] + (paddr - VirtToPhys(pages[k]))
  ELSE LastLine(k) + (paddr - VirtToPhys(LastLine(k)))

(* The first page that finds it counts.                                    *)
PhysToVirt(paddr) ==
  IF \A k \in DOMAIN pages : ~Finds(k, paddr) THEN 0
  ELSE CHOOSE vaddr \in {At(k, paddr) : k \in DOMAIN pages} :
         \E k \in DOMAIN pages :
           /\ Finds(k, paddr) /\ vaddr = At(k, paddr)
           /\ \A l \in 1 .. k - 1 : ~Finds(l, paddr)

(* GenerateRandomAddressTuple: a page and an offset, rounded to a line.    *)
Tuple(vaddr) == [vaddr |-> vaddr, paddr |-> VirtToPhys(vaddr)]

RandomAddressTuples ==
  {Tuple(pages[page_num] + (offset \div granularity) * granularity) :
     page_num \in DOMAIN pages, offset \in 0 .. page_size - 1}

PoolLines ==
  {pages[k] + line * granularity :
     k \in DOMAIN pages, line \in 0 .. (page_size \div granularity) - 1}

-----------------------------------------------------------------------------
(* Huge pages: a page of the pool lies on consecutive frames, and no two   *)
(* pages share one.                                                        *)
Contiguous(l) ==
  \A k \in DOMAIN l.pages : \A part \in 1 .. (page_size \div OSPageSize) - 1 :
    l.frame[l.pages[k] \div OSPageSize + part] = l.frame[l.pages[k] \div OSPageSize] + part

Disjoint(l) ==
  \A part, other \in DOMAIN l.frame :
    l.frame[part] = l.frame[other] => part = other

(* The translations are inverse: the address of every line of the pool is  *)
(* found again from its physical address, and no other address than its    *)
(* own is found for a byte.  A line missed would never be measured; a      *)
(* wrong one would be measured under the name of another.                  *)
Translates ==
  Contiguous(layout) /\ Disjoint(layout) =>
    /\ \A v \in PoolLines : PhysToVirt(VirtToPhys(v)) = v
    /\ \A part \in DOMAIN layout.frame, byte \in 0 .. OSPageSize - 1 :
         LET v == part * OSPageSize + byte
         IN  PhysToVirt(VirtToPhys(v)) \in {0, v}

(* They are as soon as the pool is set up.                                 *)
TranslationsInvert == [][pages = <<>> => Translates']_pages
=============================================================================
