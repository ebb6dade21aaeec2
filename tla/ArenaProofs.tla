----------------------------- MODULE ArenaProofs -------------------------------
(***************************************************************************)
(* What Arena's run checks on two small regions, proved for any number of  *)
(* regions and any sizes, alignments, thresholds and region sizes.         *)
(*                                                                         *)
(* The calls of the allocator are built from a few steps on blocks, and so *)
(* is the argument: Heap(a, h, X) says that arena a is well formed and     *)
(* serves a program that holds h, while the allocator has the blocks of X  *)
(* in hand: neither free nor the program's.  Each step moves blocks        *)
(* between the free list, X and h, and a call leaves X empty.              *)
(***************************************************************************)
EXTENDS Arena, FiniteSetTheorems, SequenceTheorems, WellFoundedInduction, TLAPS

Addresses == Regions \X Nat
Headers == [span : Nat \ {0}, requested : Nat, user_offset : Nat, alignment : Nat,
            previous : Addresses \cup {Null}, next : Addresses \cup {Null}, is_free : BOOLEAN]

BlocksType(blk) ==
    /\ DOMAIN blk \subseteq Addresses /\ IsFiniteSet(DOMAIN blk)
    /\ blk \in [DOMAIN blk -> Headers]

RegionsType(reg) == reg \in [Regions -> [mapping_size : Nat, direct : BOOLEAN]]

\* The blocks of every mapped region cover it, linked in order, and none begins
\* inside another.
Tiled(reg, blk) ==
    /\ \A b \in DOMAIN blk :
          /\ reg[b[1]].mapping_size > 0 /\ b[2] >= RegionHeader
          /\ b[2] + blk[b].span <= reg[b[1]].mapping_size
          /\ blk[b].next = Null => b[2] + blk[b].span = reg[b[1]].mapping_size
          /\ blk[b].next # Null => blk[b].next \in DOMAIN blk /\ blk[b].next = RestOf(b, blk[b].span)
          /\ blk[b].previous = Null => b[2] = RegionHeader
          /\ blk[b].previous # Null => /\ blk[b].previous \in DOMAIN blk
                                       /\ b = RestOf(blk[b].previous, blk[blk[b].previous].span)
    /\ \A b, c \in DOMAIN blk : b[1] = c[1] /\ b[2] < c[2] => b[2] + blk[b].span <= c[2]
    /\ \A r \in Regions : reg[r].mapping_size > 0 => <<r, RegionHeader>> \in DOMAIN blk

Layout(reg, blk) == RegionsType(reg) /\ BlocksType(blk) /\ Tiled(reg, blk)

\* A direct mapping is one block in use, of an arena that has such mappings.
Direct(reg, blk, threshold) ==
    \A r \in Regions : reg[r].direct =>
        /\ threshold # 0 /\ reg[r].mapping_size > 0
        /\ \A b \in DOMAIN blk : b[1] = r => ~blk[b].is_free /\ blk[b].next = Null

\* No two free blocks are neighbours.
Coalesced(blk) ==
    \A b \in DOMAIN blk : blk[b].is_free /\ blk[b].next # Null => ~blk[blk[b].next].is_free

\* The free list holds the free blocks, each once.
Listed(blk, list) ==
    /\ list \in Seq(Addresses)
    /\ \A i, j \in 1..Len(list) : list[i] = list[j] => i = j
    /\ \A b : (\E i \in 1..Len(list) : list[i] = b) <=> (b \in DOMAIN blk /\ blk[b].is_free)

\* The blocks in use are those the program holds, with room for what it asked,
\* and those in hand.
Served(blk, h, b) ==
    /\ h[b] \in Sizes /\ blk[b].requested = h[b] /\ blk[b].alignment \in Alignments
    /\ blk[b].user_offset = UserOffset(b, blk[b].alignment)
    /\ blk[b].user_offset + h[b] <= blk[b].span
Held(blk, h, X) ==
    /\ X \subseteq DOMAIN blk /\ \A b \in X : ~blk[b].is_free
    /\ h = [b \in DOMAIN h |-> h[b]]
    /\ DOMAIN h = {b \in DOMAIN blk : ~blk[b].is_free} \ X
    /\ \A b \in DOMAIN h : Served(blk, h, b)
    /\ \A b \in DOMAIN blk : blk[b].is_free => blk[b].requested = 0

\* An arena, field by field.
Made(reg, blk, list, first, next, threshold, bytes) ==
    [regions |-> reg, block |-> blk, free_blocks |-> list, initial_region_size |-> first,
     next_region_size |-> next, direct_threshold |-> threshold, used |-> bytes]
With3(a, blk, list, bytes) ==
    Made(a.regions, blk, list, a.initial_region_size, a.next_region_size, a.direct_threshold, bytes)
Scalars(a) ==
    /\ a = With3(a, a.block, a.free_blocks, a.used)
    /\ a.initial_region_size \in Nat \ {0} /\ a.next_region_size \in Nat \ {0}
    /\ a.direct_threshold \in Nat /\ a.used \in Int

Heap(a, h, X) ==
    /\ Scalars(a) /\ Layout(a.regions, a.block)
    /\ Direct(a.regions, a.block, a.direct_threshold)
    /\ Coalesced(a.block) /\ Listed(a.block, a.free_blocks)
    /\ Held(a.block, h, X)

HeapInv == Heap(arena, live, {}) /\ UsedIsSum

--------------------------------------------------------------------------------
\* Addresses and numbers.

LEMMA Numbers ==
    /\ RegionHeader \in Nat \ {0} /\ Header \in Nat \ {0} /\ Page \in Nat \ {0} /\ MaxRegionSize \in Nat \ {0}
    /\ MinimumFreeSpan \in Nat \ {0} /\ MinimumFreeSpan > Header
    /\ RegionSizes \subseteq Nat \ {0} /\ Sizes \subseteq Nat \ {0} /\ Alignments \subseteq Nat \ {0}
    /\ Thresholds \subseteq Nat /\ Regions \subseteq Nat
  BY ArenaAssumption

LEMMA Remainder ==
    ASSUME NEW x \in Int, NEW m \in Nat \ {0}
    PROVE  x % m \in Nat /\ x % m < m
  OBVIOUS

LEMMA RoundUp ==
    ASSUME NEW x \in Nat, NEW m \in Nat \ {0}
    PROVE  ((x + m - 1) \div m) * m \in Nat /\ ((x + m - 1) \div m) * m >= x
<1>1. (x + m - 1) \div m \in Nat
  OBVIOUS
<1>2. x + m - 1 = ((x + m - 1) \div m) * m + ((x + m - 1) % m)
  OBVIOUS
<1>3. (x + m - 1) % m < m /\ (x + m - 1) % m \in Nat
  OBVIOUS
<1>4. ((x + m - 1) \div m) * m \in Nat
  BY <1>1
<1> QED
  BY <1>2, <1>3, <1>4

LEMMA Pairs == ASSUME NEW b \in Addresses PROVE b[1] \in Regions /\ b[2] \in Nat /\ b # Null
  BY DEF Addresses, Null

LEMMA SamePair ==
    ASSUME NEW b \in Addresses, NEW c \in Addresses, b[1] = c[1], b[2] = c[2]
    PROVE  b = c
<1>1. b = <<b[1], b[2]>> /\ c = <<c[1], c[2]>>
  BY DEF Addresses
<1> QED
  BY <1>1

LEMMA Rests ==
    ASSUME NEW b \in Addresses, NEW s \in Nat
    PROVE  /\ RestOf(b, s) \in Addresses
           /\ RestOf(b, s)[1] = b[1] /\ RestOf(b, s)[2] = b[2] + s
<1>1. b[1] \in Regions /\ b[2] \in Nat /\ b[2] + s \in Nat
  BY DEF Addresses
<1>2. RestOf(b, s) \in Addresses
  BY <1>1 DEF Addresses, RestOf
<1>3. RestOf(b, s)[1] = b[1]
  BY DEF RestOf
<1>4. RestOf(b, s)[2] = b[2] + s
  BY DEF RestOf
<1> QED
  BY <1>2, <1>3, <1>4

LEMMA Offsets ==
    ASSUME NEW b \in Addresses, NEW alignment \in Alignments
    PROVE  UserOffset(b, alignment) \in Nat \ {0} /\ UserOffset(b, alignment) >= Header
           /\ UserOffset(b, alignment) < Header + alignment
<1>1. 0 - (b[2] + Header) \in Int /\ alignment \in Nat \ {0} /\ Header \in Nat \ {0}
  BY Numbers, Pairs
<1>2. (0 - (b[2] + Header)) % alignment \in Nat /\ (0 - (b[2] + Header)) % alignment < alignment
  BY <1>1, Remainder
<1> QED
  BY <1>1, <1>2 DEF UserOffset

--------------------------------------------------------------------------------
\* Blocks and their neighbours.

LEMMA BlockTypes ==
    ASSUME NEW blk, BlocksType(blk), NEW b \in DOMAIN blk
    PROVE  /\ b \in Addresses /\ b # Null /\ b[1] \in Regions /\ b[2] \in Nat
           /\ blk[b] \in Headers
           /\ blk[b].span \in Nat \ {0} /\ blk[b].requested \in Nat
           /\ blk[b].next \in Addresses \cup {Null} /\ blk[b].previous \in Addresses \cup {Null}
           /\ blk[b].is_free \in BOOLEAN
<1>1. b \in Addresses /\ blk[b] \in Headers
  BY DEF BlocksType
<1>2. b # Null /\ b[1] \in Regions /\ b[2] \in Nat
  BY <1>1, Pairs
<1>3. /\ blk[b].span \in Nat \ {0} /\ blk[b].requested \in Nat
      /\ blk[b].next \in Addresses \cup {Null} /\ blk[b].previous \in Addresses \cup {Null}
      /\ blk[b].is_free \in BOOLEAN
  BY <1>1 DEF Headers
<1> QED
  BY <1>1, <1>2, <1>3

\* Where a block lies.
LEMMA Places ==
    ASSUME NEW reg, NEW blk, Layout(reg, blk), NEW b \in DOMAIN blk
    PROVE  /\ b \in Addresses /\ b # Null /\ b[1] \in Regions /\ b[2] \in Nat
           /\ blk[b].span \in Nat \ {0} /\ b[2] >= RegionHeader /\ RegionHeader \in Nat
           /\ reg[b[1]].mapping_size \in Nat /\ reg[b[1]].mapping_size > 0
           /\ b[2] + blk[b].span <= reg[b[1]].mapping_size
<1>1. /\ b \in Addresses /\ b # Null /\ b[1] \in Regions /\ b[2] \in Nat
      /\ blk[b].span \in Nat \ {0}
  BY BlockTypes DEF Layout
<1>2. /\ b[2] >= RegionHeader /\ reg[b[1]].mapping_size > 0
      /\ b[2] + blk[b].span <= reg[b[1]].mapping_size
  BY DEF Layout, Tiled
<1>3. RegionHeader \in Nat
  BY Numbers
<1>4. reg[b[1]].mapping_size \in Nat
  BY <1>1 DEF Layout, RegionsType
<1> QED
  BY <1>1, <1>2, <1>3, <1>4

\* Two blocks that begin or end at one place are one.
LEMMA SameBlock ==
    ASSUME NEW reg, NEW blk, Layout(reg, blk), NEW b \in DOMAIN blk, NEW c \in DOMAIN blk, b[1] = c[1],
           b[2] = c[2] \/ b[2] + blk[b].span = c[2] + blk[c].span
    PROVE  b = c
<1>1. /\ b \in Addresses /\ b[2] \in Nat /\ blk[b].span \in Nat \ {0}
      /\ c \in Addresses /\ c[2] \in Nat /\ blk[c].span \in Nat \ {0}
  BY Places
<1>2. b[2] < c[2] => b[2] + blk[b].span <= c[2]
  BY DEF Layout, Tiled
<1>3. c[2] < b[2] => c[2] + blk[c].span <= b[2]
  BY DEF Layout, Tiled
<1>4. b[2] = c[2]
  BY <1>1, <1>2, <1>3
<1> QED
  BY <1>1, <1>4, SamePair

LEMMA NextOf ==
    ASSUME NEW reg, NEW blk, Layout(reg, blk), NEW b \in DOMAIN blk, blk[b].next # Null
    PROVE  /\ blk[b].next \in DOMAIN blk /\ blk[b].next = RestOf(b, blk[b].span)
           /\ blk[b].next[1] = b[1] /\ blk[b].next[2] = b[2] + blk[b].span
           /\ blk[b].next # b
<1>1. b \in Addresses /\ b[2] \in Nat /\ blk[b].span \in Nat \ {0}
  BY Places
<1>2. blk[b].next \in DOMAIN blk /\ blk[b].next = RestOf(b, blk[b].span)
  BY DEF Layout, Tiled
<1>3. RestOf(b, blk[b].span)[1] = b[1] /\ RestOf(b, blk[b].span)[2] = b[2] + blk[b].span
  BY <1>1, Rests
<1>4. blk[b].next # b
  BY <1>1, <1>2, <1>3
<1> QED
  BY <1>2, <1>3, <1>4

LEMMA PreviousOf ==
    ASSUME NEW reg, NEW blk, Layout(reg, blk), NEW b \in DOMAIN blk, blk[b].previous # Null
    PROVE  /\ blk[b].previous \in DOMAIN blk
           /\ b = RestOf(blk[b].previous, blk[blk[b].previous].span)
           /\ blk[b].previous[1] = b[1] /\ b[2] = blk[b].previous[2] + blk[blk[b].previous].span
           /\ blk[b].previous # b /\ b[2] # RegionHeader
           /\ blk[blk[b].previous].next = b
<1>0. blk[b].previous \in DOMAIN blk /\ b = RestOf(blk[b].previous, blk[blk[b].previous].span)
  BY DEF Layout, Tiled
<1>1. PICK p \in DOMAIN blk : p = blk[b].previous /\ b = RestOf(p, blk[p].span)
  BY <1>0
<1>2. p \in Addresses /\ p[2] \in Nat /\ blk[p].span \in Nat \ {0} /\ p[2] >= RegionHeader /\ RegionHeader \in Nat
  BY Places
<1>3. b[1] = p[1] /\ b[2] = p[2] + blk[p].span
  <2>1. RestOf(p, blk[p].span)[1] = p[1] /\ RestOf(p, blk[p].span)[2] = p[2] + blk[p].span
    BY <1>2, Rests
  <2> QED
    BY <1>1, <2>1
<1>4. b # p /\ b[2] # RegionHeader
  BY <1>2, <1>3
<1>5. blk[p].next # Null
  <2>1. blk[p].next = Null => p[2] + blk[p].span = reg[p[1]].mapping_size
    BY DEF Layout, Tiled
  <2>2. /\ b[2] \in Nat /\ blk[b].span \in Nat \ {0} /\ reg[b[1]].mapping_size \in Nat
        /\ b[2] + blk[b].span <= reg[b[1]].mapping_size
    BY Places
  <2> QED
    BY <1>2, <1>3, <2>1, <2>2
<1>6. blk[p].next = b
  BY <1>1, <1>5, NextOf
<1> QED
  BY <1>1, <1>3, <1>4, <1>6

\* The next block's link leads back.
LEMMA NextLinksBack ==
    ASSUME NEW reg, NEW blk, Layout(reg, blk), NEW b \in DOMAIN blk, blk[b].next # Null
    PROVE  blk[blk[b].next].previous = b
<1>1. PICK n \in DOMAIN blk : n = blk[b].next /\ n[1] = b[1] /\ n[2] = b[2] + blk[b].span
  BY NextOf
<1>2. b[2] \in Nat /\ blk[b].span \in Nat \ {0} /\ b[2] >= RegionHeader /\ RegionHeader \in Nat
  BY Places
<1>3. blk[n].previous # Null
  <2>1. blk[n].previous = Null => n[2] = RegionHeader
    BY DEF Layout, Tiled
  <2> QED
    BY <1>1, <1>2, <2>1
<1>4. PICK p \in DOMAIN blk : p = blk[n].previous /\ p[1] = n[1] /\ n[2] = p[2] + blk[p].span
  BY <1>3, PreviousOf
<1>5. p = b
  BY <1>1, <1>4, SameBlock
<1> QED
  BY <1>1, <1>4, <1>5

--------------------------------------------------------------------------------
\* What the steps change, field by field.

LEMMA Fields ==
    ASSUME NEW a, Scalars(a), NEW blk, NEW list, NEW bytes
    PROVE  /\ With3(a, blk, list, bytes).regions = a.regions
           /\ With3(a, blk, list, bytes).block = blk
           /\ With3(a, blk, list, bytes).free_blocks = list
           /\ With3(a, blk, list, bytes).direct_threshold = a.direct_threshold
           /\ With3(a, blk, list, bytes).next_region_size = a.next_region_size
           /\ With3(a, blk, list, bytes).initial_region_size = a.initial_region_size
           /\ With3(a, blk, list, bytes).used = bytes
           /\ bytes \in Int => Scalars(With3(a, blk, list, bytes))
<1>1. /\ With3(a, blk, list, bytes).regions = a.regions
      /\ With3(a, blk, list, bytes).block = blk
      /\ With3(a, blk, list, bytes).free_blocks = list
      /\ With3(a, blk, list, bytes).direct_threshold = a.direct_threshold
      /\ With3(a, blk, list, bytes).next_region_size = a.next_region_size
      /\ With3(a, blk, list, bytes).initial_region_size = a.initial_region_size
      /\ With3(a, blk, list, bytes).used = bytes
  BY DEF With3, Made
<1>2. With3(a, blk, list, bytes) = With3(With3(a, blk, list, bytes), blk, list, bytes)
  BY DEF With3, Made
<1>3. bytes \in Int => Scalars(With3(a, blk, list, bytes))
  BY <1>1, <1>2 DEF Scalars
<1> QED
  BY <1>1, <1>3

LEMMA UnlistFields ==
    ASSUME NEW a, Scalars(a), NEW b
    PROVE  Unlist(a, b) = With3(a, [a.block EXCEPT ![b].is_free = FALSE], RemoveFirst(a.free_blocks, b), a.used)
<1>1. a = With3(a, a.block, a.free_blocks, a.used)
  BY DEF Scalars
<1>2. Unlist(a, b) = [a EXCEPT !.free_blocks = RemoveFirst(a.free_blocks, b),
                              !.block = [a.block EXCEPT ![b].is_free = FALSE]]
  BY DEF Unlist
<1> QED
  BY <1>1, <1>2 DEF With3, Made

LEMMA InsertFields ==
    ASSUME NEW a, Scalars(a), NEW b
    PROVE  Insert(a, b) = With3(a, [a.block EXCEPT ![b].is_free = TRUE], <<b>> \o a.free_blocks, a.used)
<1>1. a = With3(a, a.block, a.free_blocks, a.used)
  BY DEF Scalars
<1>2. Insert(a, b) = [a EXCEPT !.free_blocks = <<b>> \o a.free_blocks,
                              !.block = [a.block EXCEPT ![b].is_free = TRUE]]
  BY DEF Insert
<1> QED
  BY <1>1, <1>2 DEF With3, Made

LEMMA BlockFields ==
    ASSUME NEW a, Scalars(a), NEW blk
    PROVE  [a EXCEPT !.block = blk] = With3(a, blk, a.free_blocks, a.used)
<1>1. a = With3(a, a.block, a.free_blocks, a.used)
  BY DEF Scalars
<1> QED
  BY <1>1 DEF With3, Made

LEMMA UsedFields ==
    ASSUME NEW a, Scalars(a), NEW bytes
    PROVE  [a EXCEPT !.used = bytes] = With3(a, a.block, a.free_blocks, bytes)
<1>1. a = With3(a, a.block, a.free_blocks, a.used)
  BY DEF Scalars
<1> QED
  BY <1>1 DEF With3, Made

LEMMA BlockAndUsedFields ==
    ASSUME NEW a, Scalars(a), NEW blk, NEW bytes
    PROVE  [a EXCEPT !.block = blk, !.used = bytes] = With3(a, blk, a.free_blocks, bytes)
<1>1. a = With3(a, a.block, a.free_blocks, a.used)
  BY DEF Scalars
<1>2. [a EXCEPT !.block = blk] = With3(a, blk, a.free_blocks, a.used)
  BY <1>1 DEF With3, Made
<1>3. [With3(a, blk, a.free_blocks, a.used) EXCEPT !.used = bytes] = With3(a, blk, a.free_blocks, bytes)
  BY DEF With3, Made
<1>4. [a EXCEPT !.block = blk, !.used = bytes] = [[a EXCEPT !.block = blk] EXCEPT !.used = bytes]
  OBVIOUS
<1> QED
  BY <1>2, <1>3, <1>4

LEMMA ClearFields ==
    ASSUME NEW a, Scalars(a), NEW b
    PROVE  [a EXCEPT !.block[b].requested = 0, !.block[b].user_offset = 0, !.block[b].alignment = 0]
           = With3(a, [a.block EXCEPT ![b].requested = 0, ![b].user_offset = 0, ![b].alignment = 0],
                   a.free_blocks, a.used)
<1>1. a = With3(a, a.block, a.free_blocks, a.used)
  BY DEF Scalars
<1>2. [a EXCEPT !.block[b].requested = 0, !.block[b].user_offset = 0, !.block[b].alignment = 0]
        = [a EXCEPT !.block = [a.block EXCEPT ![b].requested = 0, ![b].user_offset = 0, ![b].alignment = 0]]
  OBVIOUS
<1> QED
  BY <1>1, <1>2 DEF With3, Made

Serve(a, b, size, offset, alignment, bytes) ==
    [a EXCEPT !.block[b].requested = size, !.block[b].user_offset = offset,
              !.block[b].alignment = alignment, !.used = bytes]

Rewritten(blk, b, size, offset, alignment) ==
    [blk EXCEPT ![b].requested = size, ![b].user_offset = offset, ![b].alignment = alignment]

LEMMA ServeFields ==
    ASSUME NEW a, Scalars(a), NEW b, NEW size, NEW offset, NEW alignment, NEW bytes
    PROVE  Serve(a, b, size, offset, alignment, bytes)
           = With3(a, Rewritten(a.block, b, size, offset, alignment), a.free_blocks, bytes)
<1>1. PICK blk : blk = [a.block EXCEPT ![b].requested = size, ![b].user_offset = offset,
                                       ![b].alignment = alignment]
  OBVIOUS
<1>2. [a EXCEPT !.block[b].requested = size, !.block[b].user_offset = offset,
               !.block[b].alignment = alignment, !.used = bytes]
        = [a EXCEPT !.block = blk, !.used = bytes]
  <2>1. [a EXCEPT !.block[b].requested = size, !.block[b].user_offset = offset,
                  !.block[b].alignment = alignment, !.used = bytes]
          = [[a EXCEPT !.block[b].requested = size, !.block[b].user_offset = offset,
                       !.block[b].alignment = alignment] EXCEPT !.used = bytes]
    OBVIOUS
  <2>2. [a EXCEPT !.block[b].requested = size, !.block[b].user_offset = offset,
                  !.block[b].alignment = alignment] = [a EXCEPT !.block = blk]
    BY <1>1
  <2>3. [[a EXCEPT !.block = blk] EXCEPT !.used = bytes] = [a EXCEPT !.block = blk, !.used = bytes]
    OBVIOUS
  <2> QED
    BY <2>1, <2>2, <2>3
<1>3. [a EXCEPT !.block = blk, !.used = bytes] = With3(a, blk, a.free_blocks, bytes)
  BY BlockAndUsedFields
<1> QED
  BY <1>1, <1>2, <1>3 DEF Serve, Rewritten

Resized(a, b, size, bytes) == [a EXCEPT !.used = bytes, !.block[b].requested = size]
Rerequested(blk, b, size) == [blk EXCEPT ![b].requested = size]

LEMMA ResizeFields ==
    ASSUME NEW a, Scalars(a), NEW b, NEW size, NEW bytes
    PROVE  Resized(a, b, size, bytes) = With3(a, Rerequested(a.block, b, size), a.free_blocks, bytes)
<1>1. PICK blk : blk = [a.block EXCEPT ![b].requested = size]
  OBVIOUS
<1>2. [a EXCEPT !.used = bytes, !.block[b].requested = size] = [a EXCEPT !.block = blk, !.used = bytes]
  BY <1>1
<1>3. [a EXCEPT !.block = blk, !.used = bytes] = With3(a, blk, a.free_blocks, bytes)
  BY BlockAndUsedFields
<1> QED
  BY <1>1, <1>2, <1>3 DEF Resized, Rerequested

--------------------------------------------------------------------------------
\* Steps that leave the places and the links of all blocks alone.

SameShape(blk, blk2) ==
    /\ BlocksType(blk2) /\ DOMAIN blk2 = DOMAIN blk
    /\ \A c \in DOMAIN blk : /\ blk2[c].span = blk[c].span
                             /\ blk2[c].next = blk[c].next /\ blk2[c].previous = blk[c].previous

LEMMA ShapeKeepsLayout ==
    ASSUME NEW reg, NEW blk, NEW blk2, Layout(reg, blk), SameShape(blk, blk2)
    PROVE  Layout(reg, blk2)
<1>1. Tiled(reg, blk2)
  <2>1. ASSUME NEW b \in DOMAIN blk2
        PROVE  /\ reg[b[1]].mapping_size > 0 /\ b[2] >= RegionHeader
               /\ b[2] + blk2[b].span <= reg[b[1]].mapping_size
               /\ blk2[b].next = Null => b[2] + blk2[b].span = reg[b[1]].mapping_size
               /\ blk2[b].next # Null => blk2[b].next \in DOMAIN blk2 /\ blk2[b].next = RestOf(b, blk2[b].span)
               /\ blk2[b].previous = Null => b[2] = RegionHeader
               /\ blk2[b].previous # Null => /\ blk2[b].previous \in DOMAIN blk2
                                             /\ b = RestOf(blk2[b].previous, blk2[blk2[b].previous].span)
    <3>1. /\ b \in DOMAIN blk /\ blk2[b].span = blk[b].span /\ blk2[b].next = blk[b].next
          /\ blk2[b].previous = blk[b].previous
      BY DEF SameShape
    <3>2. blk2[b].previous # Null =>
            blk2[b].previous \in DOMAIN blk /\ blk2[blk2[b].previous].span = blk[blk[b].previous].span
      BY <3>1 DEF Layout, Tiled, SameShape
    <3>3. DOMAIN blk2 = DOMAIN blk
      BY DEF SameShape
    <3> QED
      BY <3>1, <3>2, <3>3 DEF Layout, Tiled
  <2>2. \A b, c \in DOMAIN blk2 : b[1] = c[1] /\ b[2] < c[2] => b[2] + blk2[b].span <= c[2]
    BY DEF SameShape, Layout, Tiled
  <2>3. \A r \in Regions : reg[r].mapping_size > 0 => <<r, RegionHeader>> \in DOMAIN blk2
    BY DEF SameShape, Layout, Tiled
  <2> QED
    BY <2>1, <2>2, <2>3 DEF Tiled
<1> QED
  BY <1>1 DEF Layout, SameShape

\* A block is put on the free list, or taken off.
Marked(blk, blk2, b, free) ==
    /\ SameShape(blk, blk2) /\ blk2[b].is_free = free
    /\ \A c \in DOMAIN blk : /\ blk2[c].requested = blk[c].requested
                             /\ blk2[c].user_offset = blk[c].user_offset
                             /\ blk2[c].alignment = blk[c].alignment
                             /\ c # b => blk2[c].is_free = blk[c].is_free

LEMMA Marking ==
    ASSUME NEW blk, BlocksType(blk), NEW b \in DOMAIN blk, NEW free \in BOOLEAN
    PROVE  Marked(blk, [blk EXCEPT ![b].is_free = free], b, free)
<1>1. PICK blk2 : blk2 = [blk EXCEPT ![b].is_free = free]
  OBVIOUS
<1>2. DOMAIN blk2 = DOMAIN blk
  BY <1>1
<1>3. blk[b] \in Headers
  BY BlockTypes
<1>4. blk2[b] = [blk[b] EXCEPT !.is_free = free] /\ \A c \in DOMAIN blk : c # b => blk2[c] = blk[c]
  BY <1>1
<1>5. /\ blk2[b] \in Headers /\ blk2[b].is_free = free
      /\ blk2[b].span = blk[b].span /\ blk2[b].next = blk[b].next /\ blk2[b].previous = blk[b].previous
      /\ blk2[b].requested = blk[b].requested /\ blk2[b].user_offset = blk[b].user_offset
      /\ blk2[b].alignment = blk[b].alignment
  BY <1>3, <1>4 DEF Headers
<1>6. BlocksType(blk2)
  <2>1. \A c \in DOMAIN blk : blk2[c] \in Headers
    BY <1>4, <1>5 DEF BlocksType
  <2>2. blk2 = [c \in DOMAIN blk |-> blk2[c]]
    BY <1>1
  <2> QED
    BY <1>2, <2>1, <2>2 DEF BlocksType
<1>7. Marked(blk, blk2, b, free)
  BY <1>2, <1>4, <1>5, <1>6 DEF Marked, SameShape
<1> QED
  BY <1>1, <1>7

\* What a block is used for is written into its header.
Edited(blk, blk2, b, size, offset, alignment) ==
    /\ SameShape(blk, blk2)
    /\ blk2[b].requested = size /\ blk2[b].user_offset = offset /\ blk2[b].alignment = alignment
    /\ \A c \in DOMAIN blk : /\ blk2[c].is_free = blk[c].is_free
                             /\ c # b => /\ blk2[c].requested = blk[c].requested
                                         /\ blk2[c].user_offset = blk[c].user_offset
                                         /\ blk2[c].alignment = blk[c].alignment

LEMMA Editing ==
    ASSUME NEW blk, BlocksType(blk), NEW b \in DOMAIN blk,
           NEW size \in Nat, NEW offset \in Nat, NEW alignment \in Nat
    PROVE  /\ Edited(blk, [blk EXCEPT ![b].requested = size, ![b].user_offset = offset, ![b].alignment = alignment],
                     b, size, offset, alignment)
           /\ Edited(blk, [blk EXCEPT ![b].requested = size], b, size, blk[b].user_offset, blk[b].alignment)
<1>1. blk[b] \in Headers
  BY BlockTypes
<1>2. ASSUME NEW blk2, DOMAIN blk2 = DOMAIN blk, blk2 = [c \in DOMAIN blk |-> blk2[c]],
             NEW o \in Nat, NEW al \in Nat,
             blk2[b] \in Headers,
             blk2[b].span = blk[b].span /\ blk2[b].next = blk[b].next /\ blk2[b].previous = blk[b].previous,
             blk2[b].is_free = blk[b].is_free,
             blk2[b].requested = size /\ blk2[b].user_offset = o /\ blk2[b].alignment = al,
             \A c \in DOMAIN blk : c # b => blk2[c] = blk[c]
      PROVE  Edited(blk, blk2, b, size, o, al)
  <2>1. \A c \in DOMAIN blk : blk2[c] \in Headers
    BY <1>2 DEF BlocksType
  <2>2. BlocksType(blk2)
    BY <1>2, <2>1 DEF BlocksType
  <2>3. SameShape(blk, blk2)
    BY <1>2, <2>2 DEF SameShape
  <2> QED
    BY <1>2, <2>3 DEF Edited
<1>3. Edited(blk, [blk EXCEPT ![b].requested = size, ![b].user_offset = offset, ![b].alignment = alignment],
             b, size, offset, alignment)
  <2>1. PICK blk2 : blk2 = [blk EXCEPT ![b].requested = size, ![b].user_offset = offset, ![b].alignment = alignment]
    OBVIOUS
  <2>2. blk2[b] = [blk[b] EXCEPT !.requested = size, !.user_offset = offset, !.alignment = alignment]
    BY <2>1
  <2>3. /\ DOMAIN blk2 = DOMAIN blk /\ blk2 = [c \in DOMAIN blk |-> blk2[c]]
        /\ \A c \in DOMAIN blk : c # b => blk2[c] = blk[c]
    BY <2>1
  <2>4. /\ blk2[b] \in Headers
        /\ blk2[b].span = blk[b].span /\ blk2[b].next = blk[b].next /\ blk2[b].previous = blk[b].previous
        /\ blk2[b].is_free = blk[b].is_free
        /\ blk2[b].requested = size /\ blk2[b].user_offset = offset /\ blk2[b].alignment = alignment
    BY <1>1, <2>2 DEF Headers
  <2> QED
    BY <1>2, <2>1, <2>3, <2>4
<1>4. Edited(blk, [blk EXCEPT ![b].requested = size], b, size, blk[b].user_offset, blk[b].alignment)
  <2>1. PICK blk2 : blk2 = [blk EXCEPT ![b].requested = size]
    OBVIOUS
  <2>2. blk2[b] = [blk[b] EXCEPT !.requested = size]
    BY <2>1
  <2>3. /\ DOMAIN blk2 = DOMAIN blk /\ blk2 = [c \in DOMAIN blk |-> blk2[c]]
        /\ \A c \in DOMAIN blk : c # b => blk2[c] = blk[c]
    BY <2>1
  <2>4. /\ blk2[b] \in Headers /\ blk[b].user_offset \in Nat /\ blk[b].alignment \in Nat
        /\ blk2[b].span = blk[b].span /\ blk2[b].next = blk[b].next /\ blk2[b].previous = blk[b].previous
        /\ blk2[b].is_free = blk[b].is_free
        /\ blk2[b].requested = size /\ blk2[b].user_offset = blk[b].user_offset
        /\ blk2[b].alignment = blk[b].alignment
    BY <1>1, <2>2 DEF Headers
  <2> QED
    BY <1>2, <2>1, <2>3, <2>4
<1> QED
  BY <1>3, <1>4

--------------------------------------------------------------------------------
\* The free list.

\* The list without its one entry for a block.
LEMMA RemoveOne ==
    ASSUME NEW list \in Seq(Addresses), NEW k \in 1..Len(list), NEW b, list[k] = b,
           \A i, j \in 1..Len(list) : list[i] = list[j] => i = j
    PROVE  /\ RemoveFirst(list, b) \in Seq(Addresses)
           /\ Len(RemoveFirst(list, b)) = Len(list) - 1
           /\ \A i \in 1..(Len(list) - 1) :
                 RemoveFirst(list, b)[i] = IF i < k THEN list[i] ELSE list[i + 1]
<1>1. {i \in 1..Len(list) : list[i] = b} = {k}
  OBVIOUS
<1>2. Min({k}) = k
  BY DEF Min
<1>3. SelectInSeq(list, LAMBDA v : v = b) = k
  BY <1>1, <1>2 DEF SelectInSeq
<1>4. RemoveFirst(list, b) = SubSeq(list, 1, k - 1) \o SubSeq(list, k + 1, Len(list))
  BY <1>3 DEF RemoveFirst, RemoveAt
<1>5. /\ SubSeq(list, 1, k - 1) \in Seq(Addresses) /\ Len(SubSeq(list, 1, k - 1)) = k - 1
      /\ \A i \in 1..(k - 1) : SubSeq(list, 1, k - 1)[i] = list[i]
  OBVIOUS
<1>6. /\ SubSeq(list, k + 1, Len(list)) \in Seq(Addresses) /\ Len(SubSeq(list, k + 1, Len(list))) = Len(list) - k
      /\ \A i \in 1..(Len(list) - k) : SubSeq(list, k + 1, Len(list))[i] = list[i + k]
  OBVIOUS
<1>7. ASSUME NEW p \in Seq(Addresses), NEW q \in Seq(Addresses), Len(p) = k - 1, Len(q) = Len(list) - k,
             \A i \in 1..(k - 1) : p[i] = list[i], \A i \in 1..(Len(list) - k) : q[i] = list[i + k]
      PROVE  /\ p \o q \in Seq(Addresses) /\ Len(p \o q) = Len(list) - 1
             /\ \A i \in 1..(Len(list) - 1) : (p \o q)[i] = IF i < k THEN list[i] ELSE list[i + 1]
  <2>1. p \o q \in Seq(Addresses) /\ Len(p \o q) = Len(list) - 1
    <3>1. p \o q \in Seq(Addresses)
      OBVIOUS
    <3>2. Len(p \o q) = Len(p) + Len(q)
      OBVIOUS
    <3> QED
      BY <1>7, <3>1, <3>2
  <2>2. ASSUME NEW i \in 1..(Len(list) - 1) PROVE (p \o q)[i] = IF i < k THEN list[i] ELSE list[i + 1]
    <3>1. CASE i < k
      BY <1>7, <3>1
    <3>2. CASE ~(i < k)
      <4>1. (p \o q)[i] = q[i - (k - 1)] /\ i - (k - 1) \in 1..(Len(list) - k)
        BY <1>7, <3>2
      <4>2. q[i - (k - 1)] = list[(i - (k - 1)) + k]
        BY <1>7, <4>1
      <4>3. (i - (k - 1)) + k = i + 1
        OBVIOUS
      <4> QED
        BY <3>2, <4>1, <4>2, <4>3
    <3> QED
      BY <3>1, <3>2
  <2> QED
    BY <2>1, <2>2
<1>8. PICK p : p = SubSeq(list, 1, k - 1)
  OBVIOUS
<1>9. PICK q : q = SubSeq(list, k + 1, Len(list))
  OBVIOUS
<1>10. RemoveFirst(list, b) = p \o q
  BY <1>4, <1>8, <1>9
<1>11. /\ p \in Seq(Addresses) /\ Len(p) = k - 1 /\ \A i \in 1..(k - 1) : p[i] = list[i]
       /\ q \in Seq(Addresses) /\ Len(q) = Len(list) - k /\ \A i \in 1..(Len(list) - k) : q[i] = list[i + k]
  BY <1>5, <1>6, <1>8, <1>9
<1>12. /\ p \o q \in Seq(Addresses) /\ Len(p \o q) = Len(list) - 1
       /\ \A i \in 1..(Len(list) - 1) : (p \o q)[i] = IF i < k THEN list[i] ELSE list[i + 1]
  BY <1>7, <1>11
<1> QED
  BY <1>10, <1>12

LEMMA Unlisting ==
    ASSUME NEW blk, NEW list, Listed(blk, list), NEW b \in DOMAIN blk, blk[b].is_free,
           NEW blk2, Marked(blk, blk2, b, FALSE)
    PROVE  Listed(blk2, RemoveFirst(list, b))
<1>1. PICK k \in 1..Len(list) : list[k] = b
  BY DEF Listed
<1>2. /\ list \in Seq(Addresses) /\ Len(list) \in Nat
      /\ \A i, j \in 1..Len(list) : list[i] = list[j] => i = j
  BY DEF Listed
<1>3. /\ RemoveFirst(list, b) \in Seq(Addresses) /\ Len(RemoveFirst(list, b)) = Len(list) - 1
      /\ \A i \in 1..(Len(list) - 1) :
            RemoveFirst(list, b)[i] = IF i < k THEN list[i] ELSE list[i + 1]
  BY <1>1, <1>2, RemoveOne
<1>9. PICK rest : rest = RemoveFirst(list, b)
  OBVIOUS
<1>4. /\ rest \in Seq(Addresses) /\ Len(rest) = Len(list) - 1
      /\ \A i \in 1..(Len(list) - 1) : rest[i] = IF i < k THEN list[i] ELSE list[i + 1]
  BY <1>9, <1>3
<1>5. \A i, j \in 1..Len(rest) : rest[i] = rest[j] => i = j
  BY <1>1, <1>2, <1>4
<1>6. ASSUME NEW c
      PROVE  (\E i \in 1..Len(rest) : rest[i] = c) <=> (c # b /\ \E i \in 1..Len(list) : list[i] = c)
  <2>1. ASSUME NEW i \in 1..Len(rest), rest[i] = c
        PROVE  c # b /\ \E j \in 1..Len(list) : list[j] = c
    <3>1. CASE i < k
      BY <1>1, <1>2, <1>4, <2>1, <3>1
    <3>2. CASE ~(i < k)
      <4>1. i + 1 \in 1..Len(list) /\ list[i + 1] = c /\ i + 1 # k
        BY <1>1, <1>2, <1>4, <2>1, <3>2
      <4> QED
        BY <1>1, <1>2, <4>1
    <3> QED
      BY <3>1, <3>2
  <2>2. ASSUME NEW j \in 1..Len(list), list[j] = c, c # b
        PROVE  \E i \in 1..Len(rest) : rest[i] = c
    <3>1. j # k
      BY <1>1, <2>2
    <3>2. CASE j < k
      BY <1>2, <1>4, <2>2, <3>2
    <3>3. CASE ~(j < k)
      <4>1. j - 1 \in 1..Len(rest) /\ ~(j - 1 < k) /\ (j - 1) + 1 = j
        BY <1>1, <1>2, <1>4, <3>1, <3>3
      <4>2. rest[j - 1] = list[j]
        BY <1>4, <4>1
      <4> QED
        BY <2>2, <4>1, <4>2
    <3> QED
      BY <3>2, <3>3
  <2> QED
    BY <2>1, <2>2
<1>7. ASSUME NEW c
      PROVE  (\E i \in 1..Len(rest) : rest[i] = c) <=> (c \in DOMAIN blk2 /\ blk2[c].is_free)
  <2>1. (\E i \in 1..Len(list) : list[i] = c) <=> (c \in DOMAIN blk /\ blk[c].is_free)
    BY DEF Listed
  <2>2. DOMAIN blk2 = DOMAIN blk /\ blk2[b].is_free = FALSE
        /\ (c \in DOMAIN blk /\ c # b => blk2[c].is_free = blk[c].is_free)
    BY DEF Marked, SameShape
  <2> QED
    BY <1>6, <2>1, <2>2
<1>8. Listed(blk2, rest)
  BY <1>4, <1>5, <1>7 DEF Listed
<1> QED
  BY <1>9, <1>8

LEMMA Listing ==
    ASSUME NEW blk, NEW list, Listed(blk, list), NEW b \in DOMAIN blk, b \in Addresses, ~blk[b].is_free,
           NEW blk2, Marked(blk, blk2, b, TRUE)
    PROVE  Listed(blk2, <<b>> \o list)
<1>1. /\ list \in Seq(Addresses) /\ Len(list) \in Nat
      /\ \A i, j \in 1..Len(list) : list[i] = list[j] => i = j
      /\ \A i \in 1..Len(list) : list[i] # b
  BY DEF Listed
<1>2. PICK more : more = <<b>> \o list
  OBVIOUS
<1>3. /\ more \in Seq(Addresses) /\ Len(more) = Len(list) + 1
      /\ more[1] = b /\ \A i \in 1..Len(list) : more[i + 1] = list[i]
  BY <1>1, <1>2
<1>4. \A i \in 1..Len(more) : i # 1 => i - 1 \in 1..Len(list) /\ more[i] = list[i - 1]
  <2>1. SUFFICES ASSUME NEW i \in 1..Len(more), i # 1
                 PROVE  i - 1 \in 1..Len(list) /\ more[i] = list[i - 1]
    OBVIOUS
  <2>2. i - 1 \in 1..Len(list) /\ (i - 1) + 1 = i
    BY <1>1, <1>3, <2>1
  <2> QED
    BY <1>3, <2>2
<1>5. \A i, j \in 1..Len(more) : more[i] = more[j] => i = j
  <2>1. SUFFICES ASSUME NEW i \in 1..Len(more), NEW j \in 1..Len(more), more[i] = more[j]
                 PROVE  i = j
    OBVIOUS
  <2>2. CASE i = 1
    BY <1>1, <1>3, <1>4, <2>1, <2>2
  <2>3. CASE j = 1
    BY <1>1, <1>3, <1>4, <2>1, <2>3
  <2>4. CASE i # 1 /\ j # 1
    <3>1. i - 1 = j - 1
      BY <1>1, <1>4, <2>1, <2>4
    <3> QED
      BY <1>1, <1>3, <3>1
  <2> QED
    BY <2>2, <2>3, <2>4
<1>6. ASSUME NEW c
      PROVE  (\E i \in 1..Len(more) : more[i] = c) <=> (c = b \/ \E i \in 1..Len(list) : list[i] = c)
  <2>1. ASSUME NEW i \in 1..Len(more), more[i] = c
        PROVE  c = b \/ \E j \in 1..Len(list) : list[j] = c
    BY <1>3, <1>4, <2>1
  <2>2. ASSUME NEW j \in 1..Len(list), list[j] = c
        PROVE  \E i \in 1..Len(more) : more[i] = c
    <3>1. j + 1 \in 1..Len(more) /\ more[j + 1] = c
      BY <1>1, <1>3, <2>2
    <3> QED
      BY <3>1
  <2>3. 1 \in 1..Len(more)
    BY <1>1, <1>3
  <2> QED
    BY <1>3, <2>1, <2>2, <2>3
<1>7. ASSUME NEW c
      PROVE  (\E i \in 1..Len(more) : more[i] = c) <=> (c \in DOMAIN blk2 /\ blk2[c].is_free)
  <2>1. (\E i \in 1..Len(list) : list[i] = c) <=> (c \in DOMAIN blk /\ blk[c].is_free)
    BY DEF Listed
  <2>2. DOMAIN blk2 = DOMAIN blk /\ blk2[b].is_free = TRUE
        /\ (c \in DOMAIN blk /\ c # b => blk2[c].is_free = blk[c].is_free)
    BY DEF Marked, SameShape
  <2> QED
    BY <1>6, <2>1, <2>2
<1>8. Listed(blk2, more)
  BY <1>3, <1>5, <1>7 DEF Listed
<1> QED
  BY <1>2, <1>8

--------------------------------------------------------------------------------
\* Steps between the free list, the allocator's hand and the program.

Kept(a, a2) ==
    a2.regions = a.regions /\ a2.direct_threshold = a.direct_threshold /\ a2.used = a.used

LEMMA HeapFacts ==
    ASSUME NEW a, NEW h, NEW X, Heap(a, h, X)
    PROVE  /\ Scalars(a) /\ Layout(a.regions, a.block) /\ BlocksType(a.block) /\ a.used \in Int
           /\ Direct(a.regions, a.block, a.direct_threshold)
           /\ Coalesced(a.block) /\ Listed(a.block, a.free_blocks) /\ Held(a.block, h, X)
  BY DEF Heap, Layout, Scalars

\* A free block is taken off the list.
LEMMA UnlistStep ==
    ASSUME NEW a, NEW h, NEW X, Heap(a, h, X), NEW b \in DOMAIN a.block, a.block[b].is_free
    PROVE  /\ Heap(Unlist(a, b), h, X \cup {b}) /\ Kept(a, Unlist(a, b))
           /\ Marked(a.block, Unlist(a, b).block, b, FALSE)
<1>1. PICK blk2 : blk2 = [a.block EXCEPT ![b].is_free = FALSE]
  OBVIOUS
<1>2. PICK a2 : a2 = Unlist(a, b)
  OBVIOUS
<1>3. Marked(a.block, blk2, b, FALSE)
  BY <1>1, HeapFacts, Marking
<1>4. a2 = With3(a, blk2, RemoveFirst(a.free_blocks, b), a.used)
  BY <1>1, <1>2, HeapFacts, UnlistFields
<1>5. /\ a2.regions = a.regions /\ a2.block = blk2 /\ a2.free_blocks = RemoveFirst(a.free_blocks, b)
      /\ a2.direct_threshold = a.direct_threshold /\ a2.used = a.used /\ Scalars(a2)
  BY <1>4, HeapFacts, Fields
<1>6. Layout(a.regions, blk2)
  BY <1>3, HeapFacts, ShapeKeepsLayout DEF Marked
<1>7. DOMAIN blk2 = DOMAIN a.block /\ \A c \in DOMAIN a.block : /\ blk2[c].is_free => a.block[c].is_free
                                                                /\ blk2[c].next = a.block[c].next
  BY <1>3 DEF Marked, SameShape
<1>8. Direct(a.regions, blk2, a.direct_threshold)
  BY <1>7, HeapFacts DEF Direct
<1>9. Coalesced(blk2)
  <2>1. SUFFICES ASSUME NEW c \in DOMAIN blk2, blk2[c].is_free, blk2[c].next # Null
                 PROVE  ~blk2[blk2[c].next].is_free
    BY DEF Coalesced
  <2>2. c \in DOMAIN a.block /\ a.block[c].is_free /\ a.block[c].next # Null
    BY <1>7, <2>1
  <2>3. ~a.block[a.block[c].next].is_free /\ a.block[c].next \in DOMAIN a.block
    BY <2>2, HeapFacts, NextOf DEF Coalesced
  <2> QED
    BY <1>7, <2>2, <2>3
<1>10. Listed(blk2, RemoveFirst(a.free_blocks, b))
  BY <1>3, HeapFacts, Unlisting
<1>11. Held(blk2, h, X \cup {b})
  <2>1. Held(a.block, h, X)
    BY HeapFacts
  <2>2. /\ DOMAIN blk2 = DOMAIN a.block /\ blk2[b].is_free = FALSE
        /\ \A c \in DOMAIN a.block : /\ c # b => blk2[c].is_free = a.block[c].is_free
                                     /\ blk2[c].requested = a.block[c].requested
                                     /\ blk2[c].user_offset = a.block[c].user_offset
                                     /\ blk2[c].alignment = a.block[c].alignment
                                     /\ blk2[c].span = a.block[c].span
    BY <1>3 DEF Marked, SameShape
  <2>3. X \cup {b} \subseteq DOMAIN blk2 /\ \A c \in X \cup {b} : ~blk2[c].is_free
    BY <2>1, <2>2 DEF Held
  <2>4. DOMAIN h = {c \in DOMAIN blk2 : ~blk2[c].is_free} \ (X \cup {b})
    BY <2>1, <2>2 DEF Held
  <2>5. \A c \in DOMAIN h : Served(blk2, h, c)
    BY <2>1, <2>2 DEF Held, Served
  <2>6. \A c \in DOMAIN blk2 : blk2[c].is_free => blk2[c].requested = 0
    BY <2>1, <2>2 DEF Held
  <2>7. h = [c \in DOMAIN h |-> h[c]]
    BY <2>1 DEF Held
  <2> QED
    BY <2>3, <2>4, <2>5, <2>6, <2>7 DEF Held
<1>12. Heap(a2, h, X \cup {b})
  BY <1>5, <1>6, <1>8, <1>9, <1>10, <1>11 DEF Heap
<1> QED
  BY <1>2, <1>3, <1>5, <1>12 DEF Kept

\* A block in hand, cleared and without a free neighbour, becomes free.
LEMMA InsertStep ==
    ASSUME NEW a, NEW h, NEW X, Heap(a, h, X), NEW b \in X, a.block[b].requested = 0,
           ~a.regions[b[1]].direct,
           a.block[b].next # Null => ~a.block[a.block[b].next].is_free,
           a.block[b].previous # Null => ~a.block[a.block[b].previous].is_free
    PROVE  /\ Heap(Insert(a, b), h, X \ {b}) /\ Kept(a, Insert(a, b))
           /\ Marked(a.block, Insert(a, b).block, b, TRUE)
<1>0. b \in DOMAIN a.block /\ ~a.block[b].is_free /\ b \in Addresses
  BY HeapFacts, BlockTypes DEF Held
<1>1. PICK blk2 : blk2 = [a.block EXCEPT ![b].is_free = TRUE]
  OBVIOUS
<1>2. PICK a2, list : a2 = Insert(a, b) /\ list = <<b>> \o a.free_blocks
  OBVIOUS
<1>3. Marked(a.block, blk2, b, TRUE)
  BY <1>0, <1>1, HeapFacts, Marking
<1>4. a2 = With3(a, blk2, list, a.used)
  BY <1>1, <1>2, HeapFacts, InsertFields
<1>5. /\ a2.regions = a.regions /\ a2.block = blk2 /\ a2.free_blocks = list
      /\ a2.direct_threshold = a.direct_threshold /\ a2.used = a.used /\ Scalars(a2)
  BY <1>4, HeapFacts, Fields
<1>6. Layout(a.regions, blk2)
  BY <1>3, HeapFacts, ShapeKeepsLayout DEF Marked
<1>7. DOMAIN blk2 = DOMAIN a.block
      /\ \A c \in DOMAIN a.block : /\ c # b => blk2[c].is_free = a.block[c].is_free
                                   /\ blk2[c].next = a.block[c].next
  BY <1>3 DEF Marked, SameShape
<1>8. Direct(a.regions, blk2, a.direct_threshold)
  BY <1>7, HeapFacts DEF Direct
<1>9. Coalesced(blk2)
  <2>1. SUFFICES ASSUME NEW c \in DOMAIN blk2, blk2[c].is_free, blk2[c].next # Null
                 PROVE  ~blk2[blk2[c].next].is_free
    BY DEF Coalesced
  <2>2. c \in DOMAIN a.block /\ a.block[c].next # Null /\ blk2[c].next = a.block[c].next
    BY <1>7, <2>1
  <2>3. a.block[c].next \in DOMAIN a.block /\ a.block[c].next # c /\ a.block[a.block[c].next].previous = c
    BY <2>2, HeapFacts, NextOf, NextLinksBack
  <2>4. CASE c = b
    BY <1>7, <2>2, <2>3, <2>4
  <2>5. CASE c # b
    <3>1. a.block[c].is_free
      BY <1>7, <2>1, <2>2, <2>5
    <3>2. c # Null
      BY <2>2, HeapFacts, BlockTypes
    <3>3. a.block[c].next # b
      BY <2>3, <3>1, <3>2
    <3>4. ~a.block[a.block[c].next].is_free
      BY <2>2, <3>1, HeapFacts DEF Coalesced
    <3> QED
      BY <1>7, <2>2, <2>3, <3>3, <3>4
  <2> QED
    BY <2>4, <2>5
<1>10. Listed(blk2, list)
  BY <1>2, <1>0, <1>3, HeapFacts, Listing
<1>11. Held(blk2, h, X \ {b})
  <2>1. Held(a.block, h, X)
    BY HeapFacts
  <2>2. /\ DOMAIN blk2 = DOMAIN a.block /\ blk2[b].is_free = TRUE
        /\ \A c \in DOMAIN a.block : /\ c # b => blk2[c].is_free = a.block[c].is_free
                                     /\ blk2[c].requested = a.block[c].requested
                                     /\ blk2[c].user_offset = a.block[c].user_offset
                                     /\ blk2[c].alignment = a.block[c].alignment
                                     /\ blk2[c].span = a.block[c].span
    BY <1>3 DEF Marked, SameShape
  <2>3. X \ {b} \subseteq DOMAIN blk2 /\ \A c \in X \ {b} : ~blk2[c].is_free
    BY <2>1, <2>2 DEF Held
  <2>4. DOMAIN h = {c \in DOMAIN blk2 : ~blk2[c].is_free} \ (X \ {b})
    BY <2>1, <2>2 DEF Held
  <2>5. \A c \in DOMAIN h : Served(blk2, h, c)
    BY <2>1, <2>2 DEF Held, Served
  <2>6. \A c \in DOMAIN blk2 : blk2[c].is_free => blk2[c].requested = 0
    BY <2>1, <2>2 DEF Held
  <2>7. h = [c \in DOMAIN h |-> h[c]]
    BY <2>1 DEF Held
  <2> QED
    BY <2>3, <2>4, <2>5, <2>6, <2>7 DEF Held
<1>12. Heap(a2, h, X \ {b})
  BY <1>5, <1>6, <1>8, <1>9, <1>10, <1>11 DEF Heap
<1> QED
  BY <1>2, <1>3, <1>5, <1>12 DEF Kept

\* The header of a block in hand is written, and the statistic changes.
LEMMA EditStep ==
    ASSUME NEW a, NEW h, NEW X, Heap(a, h, X), NEW b \in X, NEW blk2, NEW bytes \in Int,
           NEW size, NEW offset, NEW alignment, Edited(a.block, blk2, b, size, offset, alignment)
    PROVE  Heap(With3(a, blk2, a.free_blocks, bytes), h, X)
<1>1. Layout(a.regions, blk2)
  BY HeapFacts, ShapeKeepsLayout DEF Edited
<1>2. /\ DOMAIN blk2 = DOMAIN a.block
      /\ \A c \in DOMAIN a.block : /\ blk2[c].is_free = a.block[c].is_free
                                   /\ blk2[c].next = a.block[c].next
                                   /\ blk2[c].span = a.block[c].span
                                   /\ c # b => /\ blk2[c].requested = a.block[c].requested
                                               /\ blk2[c].user_offset = a.block[c].user_offset
                                               /\ blk2[c].alignment = a.block[c].alignment
  BY DEF Edited, SameShape
<1>3. Direct(a.regions, blk2, a.direct_threshold)
  BY <1>2, HeapFacts DEF Direct
<1>4. Coalesced(blk2)
  <2>1. SUFFICES ASSUME NEW c \in DOMAIN blk2, blk2[c].is_free, blk2[c].next # Null
                 PROVE  ~blk2[blk2[c].next].is_free
    BY DEF Coalesced
  <2>2. c \in DOMAIN a.block /\ a.block[c].is_free /\ a.block[c].next # Null
    BY <1>2, <2>1
  <2>3. ~a.block[a.block[c].next].is_free /\ a.block[c].next \in DOMAIN a.block
    BY <2>2, HeapFacts, NextOf DEF Coalesced
  <2> QED
    BY <1>2, <2>2, <2>3
<1>5. Listed(blk2, a.free_blocks)
  BY <1>2, HeapFacts DEF Listed
<1>6. Held(blk2, h, X)
  <2>1. Held(a.block, h, X)
    BY HeapFacts
  <2>2. X \subseteq DOMAIN blk2 /\ \A c \in X : ~blk2[c].is_free
    BY <1>2, <2>1 DEF Held
  <2>3. DOMAIN h = {c \in DOMAIN blk2 : ~blk2[c].is_free} \ X
    BY <1>2, <2>1 DEF Held
  <2>4. ASSUME NEW c \in DOMAIN h PROVE Served(blk2, h, c)
    <3>1. c \in DOMAIN a.block /\ c # b /\ Served(a.block, h, c)
      BY <2>1 DEF Held
    <3> QED
      BY <1>2, <3>1 DEF Served
  <2>5. \A c \in DOMAIN blk2 : blk2[c].is_free => blk2[c].requested = 0
    BY <1>2, <2>1 DEF Held
  <2>6. h = [c \in DOMAIN h |-> h[c]]
    BY <2>1 DEF Held
  <2> QED
    BY <2>2, <2>3, <2>4, <2>5, <2>6 DEF Held
<1>7. PICK a2 : a2 = With3(a, blk2, a.free_blocks, bytes)
  OBVIOUS
<1>8. /\ a2.regions = a.regions /\ a2.block = blk2 /\ a2.free_blocks = a.free_blocks
      /\ a2.direct_threshold = a.direct_threshold /\ Scalars(a2)
  BY <1>7, HeapFacts, Fields
<1>9. Heap(a2, h, X)
  BY <1>1, <1>3, <1>4, <1>5, <1>6, <1>8 DEF Heap
<1> QED
  BY <1>7, <1>9

\* Only the statistic changes.
LEMMA UsedStep ==
    ASSUME NEW a, NEW h, NEW X, Heap(a, h, X), NEW bytes \in Int
    PROVE  Heap(With3(a, a.block, a.free_blocks, bytes), h, X)
<1>1. PICK a2 : a2 = With3(a, a.block, a.free_blocks, bytes)
  OBVIOUS
<1>2. /\ a2.regions = a.regions /\ a2.block = a.block /\ a2.free_blocks = a.free_blocks
      /\ a2.direct_threshold = a.direct_threshold /\ Scalars(a2)
  BY <1>1, HeapFacts, Fields
<1>3. Heap(a2, h, X)
  BY <1>2 DEF Heap
<1> QED
  BY <1>1, <1>3

\* The program hands a block back.
LEMMA TakeStep ==
    ASSUME NEW a, NEW h, NEW X, Heap(a, h, X), NEW b \in DOMAIN h
    PROVE  Heap(a, Without(h, {b}), X \cup {b})
<1>1. Held(a.block, h, X)
  BY HeapFacts
<1>2. PICK g : g = Without(h, {b})
  OBVIOUS
<1>3. /\ DOMAIN g = DOMAIN h \ {b} /\ \A c \in DOMAIN g : g[c] = h[c]
      /\ g = [c \in DOMAIN g |-> g[c]]
  BY <1>2 DEF Without, Restrict
<1>4. \A c \in DOMAIN g : Served(a.block, g, c)
  BY <1>1, <1>3 DEF Held, Served
<1>5. Held(a.block, g, X \cup {b})
  BY <1>1, <1>3, <1>4 DEF Held
<1> QED
  BY <1>2, <1>5 DEF Heap

\* The program gets a block that has what it asked for.
LEMMA GiveStep ==
    ASSUME NEW a, NEW h, NEW X, Heap(a, h, X), NEW b \in X,
           NEW size \in Sizes, NEW alignment \in Alignments,
           a.block[b].requested = size, a.block[b].alignment = alignment,
           a.block[b].user_offset = UserOffset(b, alignment),
           UserOffset(b, alignment) + size <= a.block[b].span
    PROVE  Heap(a, With(h, b, size), X \ {b})
<1>1. Held(a.block, h, X)
  BY HeapFacts
<1>2. PICK g : g = With(h, b, size)
  OBVIOUS
<1>3. /\ DOMAIN g = DOMAIN h \cup {b} /\ g[b] = size /\ \A c \in DOMAIN h : c # b => g[c] = h[c]
      /\ g = [c \in DOMAIN g |-> g[c]]
  BY <1>2 DEF With
<1>4. \A c \in DOMAIN g : Served(a.block, g, c)
  BY <1>1, <1>3 DEF Held, Served
<1>5. Held(a.block, g, X \ {b})
  BY <1>1, <1>3, <1>4 DEF Held
<1> QED
  BY <1>2, <1>5 DEF Heap

--------------------------------------------------------------------------------
\* A block takes in the one that follows it.

Joined(blk, blk2, b, n) ==
    /\ BlocksType(blk2) /\ DOMAIN blk2 = DOMAIN blk \ {n}
    /\ \A c \in DOMAIN blk2 :
          /\ blk2[c].span = IF c = b THEN blk[b].span + blk[n].span ELSE blk[c].span
          /\ blk2[c].next = IF c = b THEN blk[n].next ELSE blk[c].next
          /\ blk2[c].previous = IF c = blk[n].next THEN b ELSE blk[c].previous
          /\ blk2[c].requested = blk[c].requested /\ blk2[c].user_offset = blk[c].user_offset
          /\ blk2[c].alignment = blk[c].alignment /\ blk2[c].is_free = blk[c].is_free

LEMMA Joining ==
    ASSUME NEW a, Scalars(a), BlocksType(a.block), NEW b \in DOMAIN a.block,
           NEW n \in DOMAIN a.block, n = a.block[b].next, n # b,
           a.block[n].next # Null => a.block[n].next \in DOMAIN a.block
    PROVE  \E blk2 : Joined(a.block, blk2, b, n) /\ Absorb(a, b) = With3(a, blk2, a.free_blocks, a.used)
<1>1. PICK blk, m : blk = a.block /\ m = a.block[n].next
  OBVIOUS
<1>2. PICK grown : grown = [blk EXCEPT ![b].span = @ + blk[n].span, ![b].next = m]
  OBVIOUS
<1>3. PICK linked : linked = IF m = Null THEN grown ELSE [grown EXCEPT ![m].previous = b]
  OBVIOUS
<1>4. PICK blk2 : blk2 = Without(linked, {n})
  OBVIOUS
<1>5. /\ b \in Addresses /\ blk[b] \in Headers /\ blk[n].span \in Nat \ {0}
      /\ m \in Addresses \cup {Null} /\ (m # Null => m \in DOMAIN blk)
  BY <1>1, BlockTypes
<1>6. /\ DOMAIN grown = DOMAIN blk
      /\ grown[b] = [blk[b] EXCEPT !.span = @ + blk[n].span, !.next = m]
      /\ \A c \in DOMAIN blk : c # b => grown[c] = blk[c]
  BY <1>1, <1>2
<1>7. PICK s : s = blk[b].span + blk[n].span
  OBVIOUS
<1>8. s \in Nat \ {0}
  <2>1. blk[b].span \in Nat \ {0}
    BY <1>5 DEF Headers
  <2> QED
    BY <1>5, <1>7, <2>1
<1>9. /\ grown[b] \in Headers
      /\ grown[b].span = blk[b].span + blk[n].span /\ grown[b].next = m
      /\ grown[b].previous = blk[b].previous
      /\ grown[b].requested = blk[b].requested /\ grown[b].user_offset = blk[b].user_offset
      /\ grown[b].alignment = blk[b].alignment /\ grown[b].is_free = blk[b].is_free
  <2>1. grown[b] = [blk[b] EXCEPT !.span = s, !.next = m]
    BY <1>6, <1>7
  <2>2. /\ grown[b] \in Headers
        /\ grown[b].span = s /\ grown[b].next = m
        /\ grown[b].previous = blk[b].previous
        /\ grown[b].requested = blk[b].requested /\ grown[b].user_offset = blk[b].user_offset
        /\ grown[b].alignment = blk[b].alignment /\ grown[b].is_free = blk[b].is_free
    BY <1>5, <1>8, <2>1 DEF Headers
  <2> QED
    BY <1>7, <2>2
<1>10. \A c \in DOMAIN blk :
        /\ grown[c] \in Headers
        /\ grown[c].span = IF c = b THEN blk[b].span + blk[n].span ELSE blk[c].span
        /\ grown[c].next = IF c = b THEN m ELSE blk[c].next
        /\ grown[c].previous = blk[c].previous
        /\ grown[c].requested = blk[c].requested /\ grown[c].user_offset = blk[c].user_offset
        /\ grown[c].alignment = blk[c].alignment /\ grown[c].is_free = blk[c].is_free
  BY <1>1, <1>6, <1>9 DEF BlocksType
<1>11. ASSUME NEW c \in DOMAIN blk
      PROVE  /\ linked[c] \in Headers
             /\ linked[c].span = grown[c].span /\ linked[c].next = grown[c].next
             /\ linked[c].previous = IF c = m THEN b ELSE blk[c].previous
             /\ linked[c].requested = grown[c].requested /\ linked[c].user_offset = grown[c].user_offset
             /\ linked[c].alignment = grown[c].alignment /\ linked[c].is_free = grown[c].is_free
  <2>1. c # Null
    BY <1>1, BlockTypes
  <2>2. CASE m = Null
    <3>1. linked[c] = grown[c] /\ c # m
      BY <1>3, <2>1, <2>2
    <3> QED
      BY <1>10, <3>1
  <2>3. CASE m # Null /\ c = m
    <3>1. linked[c] = [grown[c] EXCEPT !.previous = b]
      BY <1>3, <1>6, <2>3
    <3>2. grown[c] \in Headers
      BY <1>10
    <3>3. /\ linked[c] \in Headers /\ linked[c].previous = b
          /\ linked[c].span = grown[c].span /\ linked[c].next = grown[c].next
          /\ linked[c].requested = grown[c].requested /\ linked[c].user_offset = grown[c].user_offset
          /\ linked[c].alignment = grown[c].alignment /\ linked[c].is_free = grown[c].is_free
      BY <1>5, <3>1, <3>2 DEF Headers
    <3> QED
      BY <2>3, <3>3
  <2>4. CASE m # Null /\ c # m
    <3>1. linked[c] = grown[c]
      BY <1>3, <1>6, <2>4
    <3> QED
      BY <1>10, <2>4, <3>1
  <2> QED
    BY <2>2, <2>3, <2>4
<1>12. DOMAIN linked = DOMAIN blk
  BY <1>3, <1>6
<1>13. /\ DOMAIN blk2 = DOMAIN blk \ {n} /\ blk2 = [c \in DOMAIN blk2 |-> blk2[c]]
       /\ \A c \in DOMAIN blk2 : blk2[c] = linked[c]
  BY <1>4, <1>12 DEF Without, Restrict
<1>14. BlocksType(blk2)
  <2>1. DOMAIN blk2 \subseteq Addresses
    BY <1>1, <1>13 DEF BlocksType
  <2>2. IsFiniteSet(DOMAIN blk2)
    BY <1>1, <1>13, FS_Subset DEF BlocksType
  <2>3. \A c \in DOMAIN blk2 : blk2[c] \in Headers
    BY <1>11, <1>13
  <2> QED
    BY <1>13, <2>1, <2>2, <2>3 DEF BlocksType
<1>15. Joined(blk, blk2, b, n)
  BY <1>1, <1>10, <1>11, <1>13, <1>14 DEF Joined
<1>16. Absorb(a, b) = [a EXCEPT !.block = blk2]
  BY <1>1, <1>2, <1>3, <1>4 DEF Absorb
<1>17. Absorb(a, b) = With3(a, blk2, a.free_blocks, a.used)
  BY <1>16, BlockFields
<1> QED
  BY <1>1, <1>15, <1>17

LEMMA JoinLayout ==
    ASSUME NEW reg, NEW blk, Layout(reg, blk), NEW b \in DOMAIN blk, NEW n,
           n = blk[b].next, n # Null, NEW blk2, Joined(blk, blk2, b, n)
    PROVE  Layout(reg, blk2)
<1>1. /\ n \in DOMAIN blk /\ n # b /\ n[1] = b[1] /\ n[2] = b[2] + blk[b].span
      /\ blk[n].previous = b
  BY NextOf, NextLinksBack
<1>2. /\ b \in Addresses /\ b # Null /\ b[1] \in Regions /\ b[2] \in Nat /\ blk[b].span \in Nat \ {0}
      /\ b[2] >= RegionHeader /\ RegionHeader \in Nat
      /\ n \in Addresses /\ n # Null /\ n[2] \in Nat /\ blk[n].span \in Nat \ {0}
  BY <1>1, Places
<1>3. PICK m : m = blk[n].next
  OBVIOUS
<1>4. m # Null => /\ m \in DOMAIN blk /\ m # n /\ m[1] = n[1] /\ m[2] = n[2] + blk[n].span
                  /\ m = RestOf(n, blk[n].span) /\ blk[m].previous = n
  BY <1>1, <1>3, NextOf, NextLinksBack
<1>5. RestOf(n, blk[n].span) = RestOf(b, blk[b].span + blk[n].span)
  <2>1. n[2] + blk[n].span = b[2] + (blk[b].span + blk[n].span)
    BY <1>1, <1>2
  <2> QED
    BY <1>1, <2>1 DEF RestOf
<1>6. /\ DOMAIN blk2 = DOMAIN blk \ {n}
      /\ blk2[b].span = blk[b].span + blk[n].span /\ blk2[b].next = m
      /\ \A c \in DOMAIN blk2 : c # b => blk2[c].span = blk[c].span /\ blk2[c].next = blk[c].next
      /\ \A c \in DOMAIN blk2 : c # m => blk2[c].previous = blk[c].previous
      /\ m # Null => blk2[m].previous = b
  BY <1>1, <1>3, <1>4 DEF Joined
<1>7. ASSUME NEW c \in DOMAIN blk2
      PROVE  /\ reg[c[1]].mapping_size > 0 /\ c[2] >= RegionHeader
             /\ c[2] + blk2[c].span <= reg[c[1]].mapping_size
             /\ blk2[c].next = Null => c[2] + blk2[c].span = reg[c[1]].mapping_size
  <2>1. c \in DOMAIN blk /\ c # n /\ reg[c[1]].mapping_size > 0 /\ c[2] >= RegionHeader
    BY <1>6, Places
  <2>2. CASE c = b
    <3>1. /\ reg[n[1]].mapping_size \in Nat /\ n[2] + blk[n].span <= reg[n[1]].mapping_size
      BY <1>1, Places
    <3>2. m = Null => n[2] + blk[n].span = reg[n[1]].mapping_size
      BY <1>1, <1>3 DEF Layout, Tiled
    <3>3. b[2] + blk2[b].span = n[2] + blk[n].span
      BY <1>1, <1>2, <1>6
    <3> QED
      BY <1>1, <1>6, <2>1, <2>2, <3>1, <3>2, <3>3
  <2>3. CASE c # b
    <3>1. blk2[c].span = blk[c].span /\ blk2[c].next = blk[c].next
      BY <1>6, <2>3
    <3>2. c[2] + blk[c].span <= reg[c[1]].mapping_size
      BY <2>1, Places
    <3>3. blk[c].next = Null => c[2] + blk[c].span = reg[c[1]].mapping_size
      BY <2>1 DEF Layout, Tiled
    <3> QED
      BY <2>1, <3>1, <3>2, <3>3
  <2> QED
    BY <2>2, <2>3
<1>8. ASSUME NEW c \in DOMAIN blk2, blk2[c].next # Null
      PROVE  blk2[c].next \in DOMAIN blk2 /\ blk2[c].next = RestOf(c, blk2[c].span)
  <2>1. CASE c = b
    BY <1>4, <1>5, <1>6, <1>8, <2>1
  <2>2. CASE c # b
    <3>1. c \in DOMAIN blk /\ blk2[c].span = blk[c].span /\ blk2[c].next = blk[c].next
      BY <1>6, <2>2
    <3>2. blk[c].next \in DOMAIN blk /\ blk[c].next = RestOf(c, blk[c].span) /\ blk[blk[c].next].previous = c
      BY <1>8, <3>1, NextOf, NextLinksBack
    <3>3. blk[c].next # n
      BY <1>1, <2>2, <3>2
    <3> QED
      BY <1>6, <3>1, <3>2, <3>3
  <2> QED
    BY <2>1, <2>2
<1>9. ASSUME NEW c \in DOMAIN blk2
      PROVE  /\ blk2[c].previous = Null => c[2] = RegionHeader
             /\ blk2[c].previous # Null => /\ blk2[c].previous \in DOMAIN blk2
                                           /\ c = RestOf(blk2[c].previous, blk2[blk2[c].previous].span)
  <2>1. c \in DOMAIN blk /\ c # n /\ c # Null
    BY <1>6, Places
  <2>2. CASE c = m
    <3>1. blk2[c].previous = b /\ b \in DOMAIN blk2 /\ c = RestOf(b, blk2[b].span)
      BY <1>1, <1>4, <1>5, <1>6, <2>1, <2>2
    <3> QED
      BY <1>2, <3>1
  <2>3. CASE c # m
    <3>1. blk2[c].previous = blk[c].previous
      BY <1>6, <2>3
    <3>2. CASE blk[c].previous = Null
      <4>1. c[2] = RegionHeader
        BY <2>1, <3>2 DEF Layout, Tiled
      <4> QED
        BY <3>1, <3>2, <4>1
    <3>3. CASE blk[c].previous # Null
      <4>1. PICK p : p = blk[c].previous
        OBVIOUS
      <4>2. p \in DOMAIN blk /\ c = RestOf(p, blk[p].span) /\ blk[p].next = c
        BY <2>1, <3>3, <4>1, PreviousOf
      <4>3. p # n
        BY <1>3, <2>3, <4>2
      <4>4. p # b
        BY <2>1, <4>2
      <4>5. p \in DOMAIN blk2 /\ blk2[p].span = blk[p].span
        BY <1>6, <4>2, <4>3, <4>4
      <4> QED
        BY <3>1, <3>3, <4>1, <4>2, <4>5
    <3> QED
      BY <3>2, <3>3
  <2> QED
    BY <2>2, <2>3
<1>10. ASSUME NEW c \in DOMAIN blk2, NEW d \in DOMAIN blk2, c[1] = d[1], c[2] < d[2]
       PROVE  c[2] + blk2[c].span <= d[2]
  <2>1. c \in DOMAIN blk /\ d \in DOMAIN blk /\ d # n
    BY <1>6
  <2>2. c[2] + blk[c].span <= d[2]
    BY <1>10, <2>1 DEF Layout, Tiled
  <2>3. CASE c = b
    <3>1. n[2] # d[2]
      BY <1>1, <1>10, <2>1, <2>3, SameBlock
    <3>2. n[2] < d[2]
      BY <1>1, <1>2, <2>1, <2>2, <2>3, <3>1, Places
    <3>3. n[2] + blk[n].span <= d[2]
      BY <1>1, <1>10, <2>1, <2>3, <3>2 DEF Layout, Tiled
    <3>4. b[2] + blk2[b].span = n[2] + blk[n].span
      BY <1>1, <1>2, <1>6
    <3> QED
      BY <2>3, <3>3, <3>4
  <2>4. CASE c # b
    BY <1>6, <2>2, <2>4
  <2> QED
    BY <2>3, <2>4
<1>11. ASSUME NEW r \in Regions, reg[r].mapping_size > 0
       PROVE  <<r, RegionHeader>> \in DOMAIN blk2
  <2>1. <<r, RegionHeader>> \in DOMAIN blk
    BY <1>11 DEF Layout, Tiled
  <2>2. n[2] # RegionHeader
    BY <1>1, <1>2
  <2>3. <<r, RegionHeader>> # n
    BY <2>2
  <2> QED
    BY <1>6, <2>1, <2>3
<1>12. Tiled(reg, blk2)
  BY <1>7, <1>8, <1>9, <1>10, <1>11 DEF Tiled
<1> QED
  BY <1>12 DEF Layout, Joined

\* A block in use, or in hand, takes in one in hand.
LEMMA AbsorbStep ==
    ASSUME NEW a, NEW h, NEW X, Heap(a, h, X), NEW b \in DOMAIN a.block, ~a.block[b].is_free,
           NEW n \in X, n = a.block[b].next
    PROVE  /\ Heap(Absorb(a, b), h, X \ {n}) /\ Kept(a, Absorb(a, b))
           /\ Joined(a.block, Absorb(a, b).block, b, n)
<1>1. Held(a.block, h, X)
  BY HeapFacts
<1>2. n \in DOMAIN a.block /\ ~a.block[n].is_free
  BY <1>1 DEF Held
<1>3. n # Null /\ n # b /\ a.block[n].next # n
      /\ (a.block[n].next # Null => a.block[n].next \in DOMAIN a.block)
  BY <1>2, HeapFacts, Places, NextOf
<1>4. PICK blk2 : Joined(a.block, blk2, b, n) /\ Absorb(a, b) = With3(a, blk2, a.free_blocks, a.used)
  BY <1>2, <1>3, HeapFacts, Joining
<1>5. PICK a2 : a2 = Absorb(a, b)
  OBVIOUS
<1>6. /\ a2.regions = a.regions /\ a2.block = blk2 /\ a2.free_blocks = a.free_blocks
      /\ a2.direct_threshold = a.direct_threshold /\ a2.used = a.used /\ Scalars(a2)
  BY <1>4, <1>5, HeapFacts, Fields
<1>7. Layout(a.regions, blk2)
  BY <1>3, <1>4, HeapFacts, JoinLayout
<1>8. /\ DOMAIN blk2 = DOMAIN a.block \ {n}
      /\ \A c \in DOMAIN blk2 :
            /\ c # b => blk2[c].next = a.block[c].next /\ blk2[c].span = a.block[c].span
            /\ blk2[c].requested = a.block[c].requested /\ blk2[c].user_offset = a.block[c].user_offset
            /\ blk2[c].alignment = a.block[c].alignment /\ blk2[c].is_free = a.block[c].is_free
      /\ blk2[b].span = a.block[b].span + a.block[n].span /\ b \in DOMAIN blk2
  BY <1>3, <1>4 DEF Joined
<1>9. Direct(a.regions, blk2, a.direct_threshold)
  <2>1. ASSUME NEW r \in Regions, a.regions[r].direct
        PROVE  /\ a.direct_threshold # 0 /\ a.regions[r].mapping_size > 0
               /\ \A c \in DOMAIN blk2 : c[1] = r => ~blk2[c].is_free /\ blk2[c].next = Null
    <3>1. /\ a.direct_threshold # 0 /\ a.regions[r].mapping_size > 0
          /\ \A c \in DOMAIN a.block : c[1] = r => ~a.block[c].is_free /\ a.block[c].next = Null
      BY <2>1, HeapFacts DEF Direct
    <3>2. b[1] # r
      BY <1>3, <3>1
    <3> QED
      BY <1>8, <3>1, <3>2
  <2> QED
    BY <2>1 DEF Direct
<1>10. Coalesced(blk2)
  <2>1. SUFFICES ASSUME NEW c \in DOMAIN blk2, blk2[c].is_free, blk2[c].next # Null
                 PROVE  ~blk2[blk2[c].next].is_free
    BY DEF Coalesced
  <2>2. c \in DOMAIN a.block /\ c # b /\ a.block[c].is_free /\ blk2[c].next = a.block[c].next
    BY <1>8, <2>1
  <2>3. ~a.block[a.block[c].next].is_free /\ a.block[c].next \in DOMAIN a.block
        /\ a.block[a.block[c].next].previous = c
    BY <2>1, <2>2, HeapFacts, NextOf, NextLinksBack DEF Coalesced
  <2>4. a.block[n].previous = b
    BY <1>3, HeapFacts, NextLinksBack
  <2>5. a.block[c].next # n
    BY <2>2, <2>3, <2>4
  <2> QED
    BY <1>8, <2>2, <2>3, <2>5
<1>11. Listed(blk2, a.free_blocks)
  <2>1. \A c : (c \in DOMAIN blk2 /\ blk2[c].is_free) <=> (c \in DOMAIN a.block /\ a.block[c].is_free)
    BY <1>2, <1>8
  <2> QED
    BY <2>1, HeapFacts DEF Listed
<1>12. Held(blk2, h, X \ {n})
  <2>1. X \ {n} \subseteq DOMAIN blk2 /\ \A c \in X \ {n} : ~blk2[c].is_free
    BY <1>1, <1>8 DEF Held
  <2>2. DOMAIN h = {c \in DOMAIN blk2 : ~blk2[c].is_free} \ (X \ {n})
    BY <1>1, <1>2, <1>8 DEF Held
  <2>3. ASSUME NEW c \in DOMAIN h PROVE Served(blk2, h, c)
    <3>1. c \in DOMAIN a.block /\ c \in DOMAIN blk2 /\ Served(a.block, h, c)
      BY <1>1, <2>2 DEF Held
    <3>2. CASE c # b
      BY <1>8, <3>1, <3>2 DEF Served
    <3>3. CASE c = b
      <4>1. a.block[b].span \in Nat /\ a.block[n].span \in Nat /\ b \in Addresses
        BY <1>2, HeapFacts, BlockTypes
      <4>2. a.block[b].alignment \in Alignments /\ h[b] \in Sizes
            /\ a.block[b].user_offset = UserOffset(b, a.block[b].alignment)
        BY <3>1, <3>3 DEF Served
      <4>3. a.block[b].user_offset \in Nat /\ h[b] \in Nat
        BY <4>1, <4>2, Offsets, Numbers
      <4>4. a.block[b].user_offset + h[b] <= a.block[b].span
        BY <3>1, <3>3 DEF Served
      <4>5. blk2[b].user_offset + h[b] <= blk2[b].span
        BY <1>8, <4>1, <4>3, <4>4
      <4> QED
        BY <1>8, <3>1, <3>3, <4>5 DEF Served
    <3> QED
      BY <3>2, <3>3
  <2>4. \A c \in DOMAIN blk2 : blk2[c].is_free => blk2[c].requested = 0
    BY <1>1, <1>8 DEF Held
  <2>5. h = [c \in DOMAIN h |-> h[c]]
    BY <1>1 DEF Held
  <2> QED
    BY <2>1, <2>2, <2>3, <2>4, <2>5 DEF Held
<1>13. Heap(a2, h, X \ {n})
  BY <1>6, <1>7, <1>9, <1>10, <1>11, <1>12 DEF Heap
<1> QED
  BY <1>4, <1>5, <1>6, <1>13 DEF Kept

--------------------------------------------------------------------------------
\* A block is cut in two.

Parted(blk, blk2, b, t, s) ==
    /\ BlocksType(blk2) /\ DOMAIN blk2 = DOMAIN blk \cup {t}
    /\ blk2[t].span = blk[b].span - s /\ blk2[t].next = blk[b].next /\ blk2[t].previous = b
    /\ blk2[t].requested = 0 /\ ~blk2[t].is_free
    /\ \A c \in DOMAIN blk :
          /\ blk2[c].span = IF c = b THEN s ELSE blk[c].span
          /\ blk2[c].next = IF c = b THEN t ELSE blk[c].next
          /\ blk2[c].previous = IF c = blk[b].next THEN t ELSE blk[c].previous
          /\ blk2[c].requested = blk[c].requested /\ blk2[c].user_offset = blk[c].user_offset
          /\ blk2[c].alignment = blk[c].alignment /\ blk2[c].is_free = blk[c].is_free

LEMMA Parting ==
    ASSUME NEW a, Scalars(a), BlocksType(a.block), NEW b \in DOMAIN a.block,
           NEW s \in Nat \ {0}, s < a.block[b].span,
           NEW t, t = RestOf(b, s), t \notin DOMAIN a.block,
           a.block[b].next # Null => a.block[b].next \in DOMAIN a.block
    PROVE  \E blk2 : Parted(a.block, blk2, b, t, s) /\ Split(a, b, s) = With3(a, blk2, a.free_blocks, a.used)
<1>1. PICK blk, m : blk = a.block /\ m = a.block[b].next
  OBVIOUS
<1>2. PICK u : u = blk[b].span - s
  OBVIOUS
<1>3. PICK rest : rest = [span |-> u, requested |-> 0, user_offset |-> 0,
                          alignment |-> 0, previous |-> b, next |-> m, is_free |-> FALSE]
  OBVIOUS
<1>4. PICK more : more = With(blk, t, rest)
  OBVIOUS
<1>5. PICK cut : cut = [more EXCEPT ![b].span = s, ![b].next = t]
  OBVIOUS
<1>6. PICK blk2 : blk2 = IF m = Null THEN cut ELSE [cut EXCEPT ![m].previous = t]
  OBVIOUS
<1>7. /\ b \in Addresses /\ blk[b] \in Headers /\ blk[b].span \in Nat \ {0}
      /\ m \in Addresses \cup {Null} /\ (m # Null => m \in DOMAIN blk)
  BY <1>1, BlockTypes
<1>8. t \in Addresses /\ t # b /\ t # Null /\ t # m
  <2>1. t \in Addresses /\ t # b
    BY <1>1, <1>7, Rests
  <2>2. t # Null
    BY <2>1, Pairs
  <2> QED
    BY <1>1, <1>7, <2>1, <2>2
<1>9. u \in Nat \ {0}
  BY <1>1, <1>2, <1>7
<1>10. rest \in Headers
  BY <1>3, <1>7, <1>9 DEF Headers
<1>11. DOMAIN more = DOMAIN blk \cup {t} /\ more[t] = rest /\ \A c \in DOMAIN blk : more[c] = blk[c]
  BY <1>1, <1>4 DEF With
<1>12. /\ DOMAIN cut = DOMAIN blk \cup {t}
       /\ cut[b] = [blk[b] EXCEPT !.span = s, !.next = t]
       /\ cut[t] = rest /\ \A c \in DOMAIN blk : c # b => cut[c] = blk[c]
  BY <1>1, <1>5, <1>8, <1>11
<1>13. /\ cut[b] \in Headers /\ cut[b].span = s /\ cut[b].next = t
       /\ cut[b].previous = blk[b].previous
       /\ cut[b].requested = blk[b].requested /\ cut[b].user_offset = blk[b].user_offset
       /\ cut[b].alignment = blk[b].alignment /\ cut[b].is_free = blk[b].is_free
  BY <1>7, <1>8, <1>12 DEF Headers
<1>14. \A c \in DOMAIN blk :
         /\ cut[c] \in Headers
         /\ cut[c].span = IF c = b THEN s ELSE blk[c].span
         /\ cut[c].next = IF c = b THEN t ELSE blk[c].next
         /\ cut[c].previous = blk[c].previous
         /\ cut[c].requested = blk[c].requested /\ cut[c].user_offset = blk[c].user_offset
         /\ cut[c].alignment = blk[c].alignment /\ cut[c].is_free = blk[c].is_free
  BY <1>1, <1>12, <1>13 DEF BlocksType
<1>15. ASSUME NEW c \in DOMAIN blk
       PROVE  /\ blk2[c] \in Headers
              /\ blk2[c].span = cut[c].span /\ blk2[c].next = cut[c].next
              /\ blk2[c].previous = IF c = m THEN t ELSE blk[c].previous
              /\ blk2[c].requested = cut[c].requested /\ blk2[c].user_offset = cut[c].user_offset
              /\ blk2[c].alignment = cut[c].alignment /\ blk2[c].is_free = cut[c].is_free
  <2>1. c # Null
    BY <1>1, BlockTypes
  <2>2. CASE m = Null
    <3>1. blk2[c] = cut[c] /\ c # m
      BY <1>6, <2>1, <2>2
    <3> QED
      BY <1>14, <3>1
  <2>3. CASE m # Null /\ c = m
    <3>1. blk2[c] = [cut[c] EXCEPT !.previous = t]
      BY <1>6, <1>12, <2>3
    <3>2. cut[c] \in Headers
      BY <1>14
    <3>3. /\ blk2[c] \in Headers /\ blk2[c].previous = t
          /\ blk2[c].span = cut[c].span /\ blk2[c].next = cut[c].next
          /\ blk2[c].requested = cut[c].requested /\ blk2[c].user_offset = cut[c].user_offset
          /\ blk2[c].alignment = cut[c].alignment /\ blk2[c].is_free = cut[c].is_free
      BY <1>8, <3>1, <3>2 DEF Headers
    <3> QED
      BY <2>3, <3>3
  <2>4. CASE m # Null /\ c # m
    <3>1. blk2[c] = cut[c]
      BY <1>6, <1>12, <2>4
    <3> QED
      BY <1>14, <2>4, <3>1
  <2> QED
    BY <2>2, <2>3, <2>4
<1>16. DOMAIN blk2 = DOMAIN blk \cup {t} /\ blk2 = [c \in DOMAIN blk2 |-> blk2[c]]
  <2>1. more = [c \in DOMAIN more |-> more[c]]
    BY <1>4 DEF With
  <2>2. cut = [c \in DOMAIN cut |-> cut[c]]
    BY <1>5, <2>1
  <2>3. blk2 = [c \in DOMAIN blk2 |-> blk2[c]] /\ DOMAIN blk2 = DOMAIN cut
    BY <1>6, <2>2
  <2> QED
    BY <1>12, <2>3
<1>17. blk2[t] = rest
  BY <1>6, <1>8, <1>12
<1>18. /\ blk2[t].span = u /\ blk2[t].next = m /\ blk2[t].previous = b
       /\ blk2[t].requested = 0 /\ ~blk2[t].is_free
  BY <1>3, <1>17
<1>19. BlocksType(blk2)
  <2>1. DOMAIN blk2 \subseteq Addresses
    BY <1>1, <1>8, <1>16 DEF BlocksType
  <2>2. IsFiniteSet(DOMAIN blk2)
    BY <1>1, <1>16, FS_AddElement DEF BlocksType
  <2>3. \A c \in DOMAIN blk2 : blk2[c] \in Headers
    BY <1>10, <1>15, <1>16, <1>17
  <2> QED
    BY <1>16, <2>1, <2>2, <2>3 DEF BlocksType
<1>20. Parted(blk, blk2, b, t, s)
  BY <1>1, <1>2, <1>14, <1>15, <1>16, <1>18, <1>19 DEF Parted
<1>21. Split(a, b, s) = [a EXCEPT !.block = blk2]
  <2>1. rest.next = m
    BY <1>3
  <2>2. rest = [span |-> a.block[b].span - s, requested |-> 0, user_offset |-> 0,
                alignment |-> 0, previous |-> b, next |-> a.block[b].next, is_free |-> FALSE]
    BY <1>1, <1>2, <1>3
  <2>3. cut = [With(a.block, RestOf(b, s), rest) EXCEPT ![b].span = s, ![b].next = RestOf(b, s)]
    BY <1>1, <1>4, <1>5
  <2>4. blk2 = IF rest.next = Null THEN cut ELSE [cut EXCEPT ![rest.next].previous = RestOf(b, s)]
    BY <1>6, <2>1
  <2>5. Split(a, b, s) = [a EXCEPT !.block = IF rest.next = Null THEN cut
                                             ELSE [cut EXCEPT ![rest.next].previous = RestOf(b, s)]]
    BY <2>2, <2>3 DEF Split
  <2> QED
    BY <2>4, <2>5
<1>22. Split(a, b, s) = With3(a, blk2, a.free_blocks, a.used)
  BY <1>21, BlockFields
<1> QED
  BY <1>1, <1>20, <1>22

LEMMA PartIsNew ==
    ASSUME NEW reg, NEW blk, Layout(reg, blk), NEW b \in DOMAIN blk,
           NEW s \in Nat \ {0}, s < blk[b].span
    PROVE  /\ RestOf(b, s) \notin DOMAIN blk /\ RestOf(b, s) \in Addresses /\ RestOf(b, s) # b
           /\ RestOf(b, s)[1] = b[1] /\ RestOf(b, s)[2] = b[2] + s
<1>1. b \in Addresses /\ b[2] \in Nat /\ blk[b].span \in Nat
  BY Places
<1>2. RestOf(b, s) \in Addresses /\ RestOf(b, s)[1] = b[1] /\ RestOf(b, s)[2] = b[2] + s
  BY <1>1, Rests
<1>3. PICK t : t = RestOf(b, s)
  OBVIOUS
<1>4. ASSUME t \in DOMAIN blk PROVE FALSE
  <2>1. b[1] = t[1] /\ b[2] < t[2]
    BY <1>1, <1>2, <1>3
  <2>2. b[2] + blk[b].span <= t[2]
    BY <1>4, <2>1 DEF Layout, Tiled
  <2> QED
    BY <1>1, <1>2, <1>3, <2>2
<1>5. t # b
  BY <1>4
<1> QED
  BY <1>2, <1>3, <1>4, <1>5

LEMMA PartLayout ==
    ASSUME NEW reg, NEW blk, Layout(reg, blk), NEW b \in DOMAIN blk,
           NEW s \in Nat \ {0}, s < blk[b].span, NEW t, t = RestOf(b, s),
           NEW blk2, Parted(blk, blk2, b, t, s)
    PROVE  Layout(reg, blk2)
<1>1. /\ b \in Addresses /\ b # Null /\ b[1] \in Regions /\ b[2] \in Nat /\ blk[b].span \in Nat
      /\ b[2] >= RegionHeader /\ RegionHeader \in Nat
      /\ reg[b[1]].mapping_size \in Nat /\ reg[b[1]].mapping_size > 0
      /\ b[2] + blk[b].span <= reg[b[1]].mapping_size
  BY Places
<1>2. t \notin DOMAIN blk /\ t \in Addresses /\ t # b /\ t # Null /\ t[1] = b[1] /\ t[2] = b[2] + s
  BY PartIsNew, Pairs
<1>3. PICK m : m = blk[b].next
  OBVIOUS
<1>4. m # Null => m \in DOMAIN blk /\ m # b /\ m = RestOf(b, blk[b].span) /\ blk[m].previous = b
  BY <1>3, NextOf, NextLinksBack
<1>5. RestOf(t, blk[b].span - s) = RestOf(b, blk[b].span)
  <2>1. t[2] + (blk[b].span - s) = b[2] + blk[b].span
    BY <1>1, <1>2
  <2> QED
    BY <1>2, <2>1 DEF RestOf
<1>6. /\ DOMAIN blk2 = DOMAIN blk \cup {t}
      /\ blk2[t].span = blk[b].span - s /\ blk2[t].next = m /\ blk2[t].previous = b
      /\ blk2[b].span = s /\ blk2[b].next = t
      /\ \A c \in DOMAIN blk : c # b => blk2[c].span = blk[c].span /\ blk2[c].next = blk[c].next
      /\ \A c \in DOMAIN blk : c # m => blk2[c].previous = blk[c].previous
      /\ m # Null => blk2[m].previous = t
  BY <1>3, <1>4 DEF Parted
<1>7. ASSUME NEW c \in DOMAIN blk2
      PROVE  /\ reg[c[1]].mapping_size > 0 /\ c[2] >= RegionHeader
             /\ c[2] + blk2[c].span <= reg[c[1]].mapping_size
             /\ blk2[c].next = Null => c[2] + blk2[c].span = reg[c[1]].mapping_size
  <2>1. CASE c = t
    <3>1. m = Null => b[2] + blk[b].span = reg[b[1]].mapping_size
      BY <1>3 DEF Layout, Tiled
    <3>2. t[2] + blk2[t].span = b[2] + blk[b].span
      BY <1>1, <1>2, <1>6
    <3>3. t[2] >= RegionHeader
      BY <1>1, <1>2
    <3> QED
      BY <1>1, <1>2, <1>6, <2>1, <3>1, <3>2, <3>3
  <2>2. CASE c = b
    <3>1. b[2] + s <= reg[b[1]].mapping_size
      BY <1>1
    <3> QED
      BY <1>1, <1>2, <1>6, <2>2, <3>1
  <2>3. CASE c # t /\ c # b
    <3>1. c \in DOMAIN blk /\ blk2[c].span = blk[c].span /\ blk2[c].next = blk[c].next
      BY <1>6, <2>3
    <3>2. /\ reg[c[1]].mapping_size > 0 /\ c[2] >= RegionHeader
          /\ c[2] + blk[c].span <= reg[c[1]].mapping_size
      BY <3>1, Places
    <3>3. blk[c].next = Null => c[2] + blk[c].span = reg[c[1]].mapping_size
      BY <3>1 DEF Layout, Tiled
    <3> QED
      BY <3>1, <3>2, <3>3
  <2> QED
    BY <2>1, <2>2, <2>3
<1>8. ASSUME NEW c \in DOMAIN blk2, blk2[c].next # Null
      PROVE  blk2[c].next \in DOMAIN blk2 /\ blk2[c].next = RestOf(c, blk2[c].span)
  <2>1. CASE c = t
    BY <1>4, <1>5, <1>6, <1>8, <2>1
  <2>2. CASE c = b
    BY <1>6, <2>2
  <2>3. CASE c # t /\ c # b
    <3>1. c \in DOMAIN blk /\ blk2[c].span = blk[c].span /\ blk2[c].next = blk[c].next
      BY <1>6, <2>3
    <3>2. blk[c].next \in DOMAIN blk /\ blk[c].next = RestOf(c, blk[c].span)
      BY <1>8, <3>1, NextOf
    <3> QED
      BY <1>6, <3>1, <3>2
  <2> QED
    BY <2>1, <2>2, <2>3
<1>9. ASSUME NEW c \in DOMAIN blk2
      PROVE  /\ blk2[c].previous = Null => c[2] = RegionHeader
             /\ blk2[c].previous # Null => /\ blk2[c].previous \in DOMAIN blk2
                                           /\ c = RestOf(blk2[c].previous, blk2[blk2[c].previous].span)
  <2>1. CASE c = t
    BY <1>1, <1>6, <2>1
  <2>2. CASE c # t /\ c = m
    <3>1. c # Null
      BY <1>6, <2>2, Places
    <3>2. blk2[c].previous = t /\ c = RestOf(t, blk2[t].span) /\ t \in DOMAIN blk2
      BY <1>4, <1>5, <1>6, <2>2, <3>1
    <3> QED
      BY <1>2, <3>2
  <2>3. CASE c # t /\ c # m
    <3>1. c \in DOMAIN blk /\ blk2[c].previous = blk[c].previous
      BY <1>6, <2>3
    <3>2. CASE blk[c].previous = Null
      <4>1. c[2] = RegionHeader
        BY <3>1, <3>2 DEF Layout, Tiled
      <4> QED
        BY <3>1, <3>2, <4>1
    <3>3. CASE blk[c].previous # Null
      <4>1. PICK p : p = blk[c].previous
        OBVIOUS
      <4>2. p \in DOMAIN blk /\ c = RestOf(p, blk[p].span) /\ blk[p].next = c
        BY <3>1, <3>3, <4>1, PreviousOf
      <4>3. p # b
        BY <1>3, <2>3, <4>2
      <4>4. p \in DOMAIN blk2 /\ blk2[p].span = blk[p].span
        BY <1>6, <4>2, <4>3
      <4> QED
        BY <3>1, <3>3, <4>1, <4>2, <4>4
    <3> QED
      BY <3>2, <3>3
  <2> QED
    BY <2>1, <2>2, <2>3
<1>10. ASSUME NEW c \in DOMAIN blk2, NEW d \in DOMAIN blk2, c[1] = d[1], c[2] < d[2]
       PROVE  c[2] + blk2[c].span <= d[2]
  <2>1. CASE c = t /\ d = t
    BY <1>1, <1>2, <1>10, <2>1
  <2>2. CASE c = t /\ d # t
    <3>1. d \in DOMAIN blk
      BY <1>6, <2>2
    <3>2. d[2] \in Nat
      BY <3>1, Places
    <3>3. b[1] = d[1] /\ b[2] < d[2]
      BY <1>1, <1>2, <1>10, <2>2, <3>2
    <3>4. b[2] + blk[b].span <= d[2]
      BY <3>1, <3>3 DEF Layout, Tiled
    <3>5. c[2] + blk2[c].span = b[2] + blk[b].span
      BY <1>1, <1>2, <1>6, <2>2
    <3> QED
      BY <3>4, <3>5
  <2>3. CASE c # t /\ d = t
    <3>1. c \in DOMAIN blk
      BY <1>6, <2>3
    <3>2. c[2] \in Nat /\ blk[c].span \in Nat /\ c[1] = b[1]
      BY <1>2, <1>10, <2>3, <3>1, Places
    <3>3. CASE c = b
      BY <1>1, <1>2, <1>6, <2>3, <3>3
    <3>4. CASE c # b
      <4>1. c[2] # b[2]
        BY <3>1, <3>2, <3>4, SameBlock
      <4>2. ~(b[2] < c[2])
        <5>1. b[2] < c[2] => b[2] + blk[b].span <= c[2]
          BY <3>1, <3>2 DEF Layout, Tiled
        <5> QED
          BY <1>1, <1>2, <1>10, <2>3, <3>2, <5>1
      <4>3. c[2] < b[2]
        BY <1>1, <3>2, <4>1, <4>2
      <4>4. c[2] + blk[c].span <= b[2]
        BY <3>1, <3>2, <4>3 DEF Layout, Tiled
      <4>5. blk2[c].span = blk[c].span
        BY <1>6, <3>1, <3>4
      <4> QED
        BY <1>1, <1>2, <2>3, <3>2, <4>4, <4>5
    <3> QED
      BY <3>3, <3>4
  <2>4. CASE c # t /\ d # t
    <3>1. c \in DOMAIN blk /\ d \in DOMAIN blk
      BY <1>6, <2>4
    <3>2. c[2] + blk[c].span <= d[2]
      BY <1>10, <3>1 DEF Layout, Tiled
    <3>3. CASE c = b
      <4>1. d[2] \in Nat
        BY <3>1, Places
      <4> QED
        BY <1>1, <1>6, <3>2, <3>3, <4>1
    <3>4. CASE c # b
      BY <1>6, <3>1, <3>2, <3>4
    <3> QED
      BY <3>3, <3>4
  <2> QED
    BY <2>1, <2>2, <2>3, <2>4
<1>11. \A r \in Regions : reg[r].mapping_size > 0 => <<r, RegionHeader>> \in DOMAIN blk2
  BY <1>6 DEF Layout, Tiled
<1>12. Tiled(reg, blk2)
  BY <1>7, <1>8, <1>9, <1>10, <1>11 DEF Tiled
<1> QED
  BY <1>12 DEF Layout, Parted

\* The end of a block in hand becomes another one in hand.
LEMMA SplitStep ==
    ASSUME NEW a, NEW h, NEW X, Heap(a, h, X), NEW b \in X,
           NEW s \in Nat \ {0}, s < a.block[b].span, ~a.regions[b[1]].direct
    PROVE  /\ Heap(Split(a, b, s), h, X \cup {RestOf(b, s)}) /\ Kept(a, Split(a, b, s))
           /\ Parted(a.block, Split(a, b, s).block, b, RestOf(b, s), s)
<1>1. Held(a.block, h, X)
  BY HeapFacts
<1>2. b \in DOMAIN a.block /\ ~a.block[b].is_free
  BY <1>1 DEF Held
<1>3. PICK t : t = RestOf(b, s)
  OBVIOUS
<1>4. t \notin DOMAIN a.block /\ t[1] = b[1] /\ t # b
  BY <1>2, <1>3, HeapFacts, PartIsNew
<1>5. a.block[b].next # Null => a.block[b].next \in DOMAIN a.block
  BY <1>2, HeapFacts, NextOf
<1>6. PICK blk2 : Parted(a.block, blk2, b, t, s) /\ Split(a, b, s) = With3(a, blk2, a.free_blocks, a.used)
  BY <1>2, <1>3, <1>4, <1>5, HeapFacts, Parting
<1>7. PICK a2 : a2 = Split(a, b, s)
  OBVIOUS
<1>8. /\ a2.regions = a.regions /\ a2.block = blk2 /\ a2.free_blocks = a.free_blocks
      /\ a2.direct_threshold = a.direct_threshold /\ a2.used = a.used /\ Scalars(a2)
  BY <1>6, <1>7, HeapFacts, Fields
<1>9. Layout(a.regions, blk2)
  BY <1>2, <1>3, <1>6, HeapFacts, PartLayout
<1>10. /\ DOMAIN blk2 = DOMAIN a.block \cup {t} /\ ~blk2[t].is_free
       /\ \A c \in DOMAIN a.block :
            /\ c # b => blk2[c].next = a.block[c].next /\ blk2[c].span = a.block[c].span
            /\ blk2[c].requested = a.block[c].requested /\ blk2[c].user_offset = a.block[c].user_offset
            /\ blk2[c].alignment = a.block[c].alignment /\ blk2[c].is_free = a.block[c].is_free
  BY <1>6 DEF Parted
<1>11. Direct(a.regions, blk2, a.direct_threshold)
  <2>1. ASSUME NEW r \in Regions, a.regions[r].direct
        PROVE  /\ a.direct_threshold # 0 /\ a.regions[r].mapping_size > 0
               /\ \A c \in DOMAIN blk2 : c[1] = r => ~blk2[c].is_free /\ blk2[c].next = Null
    <3>1. /\ a.direct_threshold # 0 /\ a.regions[r].mapping_size > 0
          /\ \A c \in DOMAIN a.block : c[1] = r => ~a.block[c].is_free /\ a.block[c].next = Null
      BY <2>1, HeapFacts DEF Direct
    <3>2. b[1] # r /\ t[1] # r
      BY <1>4, <2>1
    <3> QED
      BY <1>10, <3>1, <3>2
  <2> QED
    BY <2>1 DEF Direct
<1>12. Coalesced(blk2)
  <2>1. SUFFICES ASSUME NEW c \in DOMAIN blk2, blk2[c].is_free, blk2[c].next # Null
                 PROVE  ~blk2[blk2[c].next].is_free
    BY DEF Coalesced
  <2>2. c \in DOMAIN a.block /\ c # b /\ a.block[c].is_free /\ blk2[c].next = a.block[c].next
    BY <1>2, <1>10, <2>1
  <2>3. ~a.block[a.block[c].next].is_free /\ a.block[c].next \in DOMAIN a.block
    BY <2>1, <2>2, HeapFacts, NextOf DEF Coalesced
  <2> QED
    BY <1>10, <2>2, <2>3
<1>13. Listed(blk2, a.free_blocks)
  <2>1. \A c : (c \in DOMAIN blk2 /\ blk2[c].is_free) <=> (c \in DOMAIN a.block /\ a.block[c].is_free)
    BY <1>10
  <2> QED
    BY <2>1, HeapFacts DEF Listed
<1>14. Held(blk2, h, X \cup {t})
  <2>1. X \cup {t} \subseteq DOMAIN blk2 /\ \A c \in X \cup {t} : ~blk2[c].is_free
    BY <1>1, <1>10 DEF Held
  <2>2. DOMAIN h = {c \in DOMAIN blk2 : ~blk2[c].is_free} \ (X \cup {t})
    BY <1>1, <1>4, <1>10 DEF Held
  <2>3. ASSUME NEW c \in DOMAIN h PROVE Served(blk2, h, c)
    <3>1. c \in DOMAIN a.block /\ c # b /\ Served(a.block, h, c)
      BY <1>1 DEF Held
    <3> QED
      BY <1>10, <3>1 DEF Served
  <2>4. \A c \in DOMAIN blk2 : blk2[c].is_free => blk2[c].requested = 0
    BY <1>1, <1>10 DEF Held
  <2>5. h = [c \in DOMAIN h |-> h[c]]
    BY <1>1 DEF Held
  <2> QED
    BY <2>1, <2>2, <2>3, <2>4, <2>5 DEF Held
<1>15. Heap(a2, h, X \cup {t})
  BY <1>8, <1>9, <1>11, <1>12, <1>13, <1>14 DEF Heap
<1> QED
  BY <1>3, <1>6, <1>7, <1>8, <1>15 DEF Kept

--------------------------------------------------------------------------------
\* Freeing: the block is merged with its free neighbours and goes on the list.

SameBlockIn(blk, blk2, d) ==
    /\ d \in DOMAIN blk /\ d \in DOMAIN blk2
    /\ blk2[d].next = blk[d].next /\ blk2[d].span = blk[d].span
    /\ blk2[d].requested = blk[d].requested /\ blk2[d].user_offset = blk[d].user_offset
    /\ blk2[d].alignment = blk[d].alignment /\ blk2[d].is_free = blk[d].is_free

\* The blocks but c are those of before, except for their links backward.
Frame(blk, blk2, c) == \A d \in DOMAIN blk2 : d # c => SameBlockIn(blk, blk2, d)

LEMMA BackwardStep ==
    ASSUME NEW a, NEW h, NEW X, Heap(a, h, X), NEW b \in X, NEW p, p = a.block[b].previous,
           p # Null, a.block[p].is_free, NEW a1, a1 = Absorb(Unlist(a, p), p)
    PROVE  /\ Heap(a1, h, (X \ {b}) \cup {p}) /\ Kept(a, a1) /\ Frame(a.block, a1.block, p)
           /\ p \in DOMAIN a1.block /\ p # b /\ p[1] = b[1] /\ p \in DOMAIN a.block
           /\ DOMAIN a.block \ {b} \subseteq DOMAIN a1.block
<1>1. b \in DOMAIN a.block /\ ~a.block[b].is_free
  BY HeapFacts DEF Held
<1>2. p \in DOMAIN a.block /\ a.block[p].next = b /\ p # b /\ p[1] = b[1]
  BY <1>1, HeapFacts, PreviousOf
<1>3. PICK u : u = Unlist(a, p)
  OBVIOUS
<1>4. Heap(u, h, X \cup {p}) /\ Kept(a, u) /\ Marked(a.block, u.block, p, FALSE)
  BY <1>2, <1>3, UnlistStep
<1>5. /\ DOMAIN u.block = DOMAIN a.block /\ ~u.block[p].is_free /\ u.block[p].next = b
      /\ \A d \in DOMAIN a.block : d # p => SameBlockIn(a.block, u.block, d)
  BY <1>2, <1>4 DEF Marked, SameShape, SameBlockIn
<1>6. /\ Heap(a1, h, (X \cup {p}) \ {b}) /\ Kept(u, a1) /\ Joined(u.block, a1.block, p, b)
  BY <1>2, <1>3, <1>4, <1>5, AbsorbStep
<1>7. (X \cup {p}) \ {b} = (X \ {b}) \cup {p}
  BY <1>2
<1>8. Kept(a, a1)
  BY <1>4, <1>6 DEF Kept
<1>9. DOMAIN a1.block = DOMAIN a.block \ {b}
  BY <1>5, <1>6 DEF Joined
<1>10. ASSUME NEW d \in DOMAIN a1.block, d # p PROVE SameBlockIn(a.block, a1.block, d)
  <2>1. SameBlockIn(a.block, u.block, d)
    BY <1>5, <1>9, <1>10
  <2>2. SameBlockIn(u.block, a1.block, d)
    <3>1. d \in DOMAIN u.block /\ d \in DOMAIN a1.block /\ d # p
      BY <1>5, <1>9, <1>10
    <3>2. Joined(u.block, a1.block, p, b)
      BY <1>6
    <3> QED
      BY <3>1, <3>2 DEF Joined, SameBlockIn
  <2> QED
    BY <2>1, <2>2 DEF SameBlockIn
<1>11. Frame(a.block, a1.block, p)
  BY <1>10 DEF Frame
<1> QED
  BY <1>2, <1>6, <1>7, <1>8, <1>9, <1>11

Forwarded(a, a2, h, X, c, n) ==
    /\ Heap(a2, h, X) /\ Kept(a, a2) /\ Frame(a.block, a2.block, c)
    /\ n \in DOMAIN a.block /\ DOMAIN a2.block = DOMAIN a.block \ {n} /\ c # n
    /\ a2.block[c].span = a.block[c].span + a.block[n].span
    /\ a2.block[c].next # Null => ~a2.block[a2.block[c].next].is_free
    /\ a2.block[c].requested = a.block[c].requested /\ ~a2.block[c].is_free
    /\ a2.block[c].user_offset = a.block[c].user_offset /\ a2.block[c].alignment = a.block[c].alignment

LEMMA ForwardStep ==
    ASSUME NEW a, NEW h, NEW X, Heap(a, h, X), NEW c \in DOMAIN a.block, ~a.block[c].is_free,
           NEW n, n = a.block[c].next,
           n # Null, a.block[n].is_free, NEW a2, a2 = Absorb(Unlist(a, n), c)
    PROVE  Forwarded(a, a2, h, X, c, n)
<1>1. Held(a.block, h, X)
  BY HeapFacts
<1>2. n \in DOMAIN a.block /\ n # c
  BY HeapFacts, NextOf
<1>3. PICK u : u = Unlist(a, n)
  OBVIOUS
<1>4. Heap(u, h, X \cup {n}) /\ Kept(a, u) /\ Marked(a.block, u.block, n, FALSE)
  BY <1>2, <1>3, UnlistStep
<1>5. /\ DOMAIN u.block = DOMAIN a.block /\ ~u.block[n].is_free /\ u.block[c].next = n
      /\ u.block[n].next = a.block[n].next /\ u.block[n].span = a.block[n].span
      /\ \A d \in DOMAIN a.block : d # n => SameBlockIn(a.block, u.block, d)
  BY <1>2, <1>4 DEF Marked, SameShape, SameBlockIn
<1>6. ~u.block[c].is_free
  BY <1>2, <1>5 DEF SameBlockIn
<1>7. /\ Heap(a2, h, (X \cup {n}) \ {n}) /\ Kept(u, a2) /\ Joined(u.block, a2.block, c, n)
  <2>1. PICK Y : Y = X \cup {n}
    OBVIOUS
  <2>2. Heap(u, h, Y) /\ n \in Y /\ c \in DOMAIN u.block /\ n = u.block[c].next /\ ~u.block[c].is_free
    BY <1>4, <1>5, <1>6, <2>1
  <2>3. a2 = Absorb(u, c)
    BY <1>3
  <2>4. Heap(a2, h, Y \ {n}) /\ Kept(u, a2) /\ Joined(u.block, a2.block, c, n)
    BY <2>2, <2>3, AbsorbStep
  <2> QED
    BY <2>1, <2>4
<1>8. (X \cup {n}) \ {n} = X
  BY <1>1 DEF Held
<1>9. Kept(a, a2)
  BY <1>4, <1>7 DEF Kept
<1>10. DOMAIN a2.block = DOMAIN a.block \ {n}
  BY <1>5, <1>7 DEF Joined
<1>11. ASSUME NEW d \in DOMAIN a2.block, d # c PROVE SameBlockIn(a.block, a2.block, d)
  <2>1. SameBlockIn(a.block, u.block, d)
    BY <1>5, <1>10, <1>11
  <2>2. SameBlockIn(u.block, a2.block, d)
    <3>1. d \in DOMAIN u.block /\ d \in DOMAIN a2.block /\ d # c
      BY <1>5, <1>10, <1>11
    <3>2. Joined(u.block, a2.block, c, n)
      BY <1>7
    <3> QED
      BY <3>1, <3>2 DEF Joined, SameBlockIn
  <2> QED
    BY <2>1, <2>2 DEF SameBlockIn
<1>12. Frame(a.block, a2.block, c)
  BY <1>11 DEF Frame
<1>13. /\ a2.block[c].span = a.block[c].span + a.block[n].span /\ a2.block[c].next = a.block[n].next
       /\ a2.block[c].requested = a.block[c].requested /\ a2.block[c].is_free = FALSE
       /\ a2.block[c].user_offset = a.block[c].user_offset /\ a2.block[c].alignment = a.block[c].alignment
  <2>1. c \in DOMAIN a2.block /\ SameBlockIn(a.block, u.block, c)
    BY <1>2, <1>5, <1>10
  <2>2. /\ a2.block[c].span = u.block[c].span + u.block[n].span /\ a2.block[c].next = u.block[n].next
        /\ a2.block[c].requested = u.block[c].requested /\ a2.block[c].is_free = u.block[c].is_free
        /\ a2.block[c].user_offset = u.block[c].user_offset /\ a2.block[c].alignment = u.block[c].alignment
    BY <1>7, <2>1 DEF Joined
  <2> QED
    BY <1>5, <2>1, <2>2 DEF SameBlockIn
<1>14. ASSUME a2.block[c].next # Null PROVE ~a2.block[a2.block[c].next].is_free
  <2>1. PICK m : m = a.block[n].next
    OBVIOUS
  <2>2. m # Null /\ ~a.block[m].is_free
    BY <1>2, <1>13, <1>14, <2>1, HeapFacts DEF Coalesced
  <2>3. m \in DOMAIN a.block /\ m # n
    BY <1>2, <2>1, <2>2, HeapFacts, NextOf
  <2>4. m \in DOMAIN a2.block
    BY <1>10, <2>3
  <2>5. CASE m = c
    BY <1>13, <2>1, <2>5
  <2>6. CASE m # c
    <3>1. SameBlockIn(a.block, a2.block, m)
      BY <1>11, <2>4, <2>6
    <3> QED
      BY <1>13, <2>1, <2>2, <3>1 DEF SameBlockIn
  <2> QED
    BY <2>5, <2>6
<1> QED
  BY <1>2, <1>7, <1>8, <1>9, <1>10, <1>12, <1>13, <1>14 DEF Forwarded

\* What becomes of the blocks in use.
Survives(blk, blk2, d) ==
    /\ d \in DOMAIN blk2 /\ ~blk2[d].is_free
    /\ blk2[d].span = blk[d].span /\ blk2[d].requested = blk[d].requested
    /\ blk2[d].user_offset = blk[d].user_offset /\ blk2[d].alignment = blk[d].alignment

LEMMA CoalesceStep ==
    ASSUME NEW a, NEW h, NEW X, Heap(a, h, X), NEW b \in X, ~a.regions[b[1]].direct
    PROVE  /\ Heap(CoalesceAndInsert(a, b), h, X \ {b}) /\ Kept(a, CoalesceAndInsert(a, b))
           /\ \A d \in DOMAIN a.block : d # b /\ ~a.block[d].is_free
                    => Survives(a.block, CoalesceAndInsert(a, b).block, d)
<1>1. Held(a.block, h, X) /\ Layout(a.regions, a.block) /\ Coalesced(a.block)
  BY HeapFacts
<1>2. b \in DOMAIN a.block /\ ~a.block[b].is_free
  BY <1>1 DEF Held
<1>3. b # Null
  BY <1>1, <1>2, Places
<1>4. PICK p : p = a.block[b].previous
  OBVIOUS
<1>5. PICK backward : backward = (p # Null /\ a.block[p].is_free)
  OBVIOUS
<1>6. PICK c, a1 : /\ c = IF backward THEN p ELSE b
                   /\ a1 = IF backward THEN Absorb(Unlist(a, p), p) ELSE a
  OBVIOUS
<1>7. PICK n : n = a1.block[c].next
  OBVIOUS
<1>8. PICK a2 : a2 = IF n # Null /\ a1.block[n].is_free THEN Absorb(Unlist(a1, n), c) ELSE a1
  OBVIOUS
<1>9. PICK a3 : a3 = [a2 EXCEPT !.block[c].requested = 0, !.block[c].user_offset = 0, !.block[c].alignment = 0]
  OBVIOUS
<1>10. PICK r : r = CoalesceAndInsert(a, b)
  OBVIOUS
<1>11. r = Insert(a3, c)
  BY <1>4, <1>5, <1>6, <1>7, <1>8, <1>9, <1>10 DEF CoalesceAndInsert
<1>12. PICK X1 : X1 = (X \ {b}) \cup {c}
  OBVIOUS
<1>13. /\ Heap(a1, h, X1) /\ Kept(a, a1) /\ Frame(a.block, a1.block, c)
       /\ c \in DOMAIN a1.block /\ c[1] = b[1] /\ c \notin X \ {b}
       /\ DOMAIN a.block \ {b} \subseteq DOMAIN a1.block
       /\ \A d \in DOMAIN a.block : a.block[d].is_free => a.block[d].next # c
       /\ c = b \/ a.block[c].is_free
  <2>1. CASE p # Null /\ a.block[p].is_free
    <3>1. c = p /\ a1 = Absorb(Unlist(a, p), p)
      BY <1>5, <1>6, <2>1
    <3>2. /\ Heap(a1, h, (X \ {b}) \cup {p}) /\ Kept(a, a1) /\ Frame(a.block, a1.block, p)
          /\ p \in DOMAIN a1.block /\ p # b /\ p[1] = b[1] /\ p \in DOMAIN a.block
          /\ DOMAIN a.block \ {b} \subseteq DOMAIN a1.block
      <4>1. /\ Heap(a, h, X) /\ b \in X /\ p = a.block[b].previous /\ p # Null /\ a.block[p].is_free
            /\ a1 = Absorb(Unlist(a, p), p)
        BY <1>4, <2>1, <3>1
      <4> HIDE <1>4, <1>5, <1>6, <1>7, <1>8, <1>9
      <4> QED
        BY ONLY <4>1, BackwardStep
    <3>3. \A d \in DOMAIN a.block : a.block[d].is_free => a.block[d].next # p
      BY <1>1, <2>1 DEF Coalesced
    <3>4. p \notin X
      BY <1>1, <2>1 DEF Held
    <3> QED
      BY <1>12, <2>1, <3>1, <3>2, <3>3, <3>4
  <2>2. CASE ~(p # Null /\ a.block[p].is_free)
    <3>1. c = b /\ a1 = a /\ X1 = X
      BY <1>5, <1>6, <1>12, <2>2
    <3>2. Kept(a, a) /\ Frame(a.block, a.block, b)
      BY DEF Kept, Frame, SameBlockIn
    <3>3. ASSUME NEW d \in DOMAIN a.block, a.block[d].is_free, a.block[d].next = b PROVE FALSE
      <4>1. a.block[b].previous = d /\ d # Null
        BY <1>1, <1>3, <3>3, NextLinksBack, Places
      <4> QED
        BY <1>4, <2>2, <3>3, <4>1
    <3> QED
      BY <1>2, <3>1, <3>2, <3>3
  <2> QED
    BY <2>1, <2>2
<1>14. ~a1.block[c].is_free /\ Layout(a1.regions, a1.block)
  <2>1. c \in X1
    BY <1>12
  <2>2. Held(a1.block, h, X1)
    BY <1>13, HeapFacts
  <2>3. ~a1.block[c].is_free
    BY <2>1, <2>2 DEF Held
  <2> QED
    BY <1>13, <2>3, HeapFacts
<1>15. /\ Heap(a2, h, X1) /\ Kept(a1, a2) /\ Frame(a1.block, a2.block, c) /\ c \in DOMAIN a2.block
       /\ \A d \in DOMAIN a1.block : ~a1.block[d].is_free => d \in DOMAIN a2.block
       /\ a2.block[c].next # Null => ~a2.block[a2.block[c].next].is_free
  <2>1. CASE n # Null /\ a1.block[n].is_free
    <3>1. a2 = Absorb(Unlist(a1, n), c)
      BY <1>8, <2>1
    <3>2. /\ Heap(a2, h, X1) /\ Kept(a1, a2) /\ Frame(a1.block, a2.block, c)
          /\ DOMAIN a2.block = DOMAIN a1.block \ {n} /\ c # n
          /\ a2.block[c].next # Null => ~a2.block[a2.block[c].next].is_free
      <4>1. /\ Heap(a1, h, X1) /\ c \in DOMAIN a1.block /\ ~a1.block[c].is_free /\ n = a1.block[c].next
            /\ n # Null /\ a1.block[n].is_free /\ a2 = Absorb(Unlist(a1, n), c)
        BY <1>7, <1>13, <1>14, <2>1, <3>1
      <4>2. Forwarded(a1, a2, h, X1, c, n)
        BY ONLY <4>1, ForwardStep
      <4> QED
        BY <4>2 DEF Forwarded
    <3> QED
      BY <1>13, <2>1, <3>2
  <2>2. CASE ~(n # Null /\ a1.block[n].is_free)
    <3>1. a2 = a1
      BY <1>8, <2>2
    <3>2. Kept(a1, a1) /\ Frame(a1.block, a1.block, c)
      BY DEF Kept, Frame, SameBlockIn
    <3> QED
      BY <1>7, <1>13, <2>2, <3>1, <3>2
  <2> QED
    BY <2>1, <2>2
<1>16. PICK blk3 : blk3 = [a2.block EXCEPT ![c].requested = 0, ![c].user_offset = 0, ![c].alignment = 0]
  OBVIOUS
<1>17. Scalars(a2) /\ BlocksType(a2.block) /\ a2.used \in Int
  BY <1>15, HeapFacts
<1>18. Edited(a2.block, blk3, c, 0, 0, 0)
  BY <1>15, <1>16, <1>17, Editing
<1>19. a3 = With3(a2, blk3, a2.free_blocks, a2.used)
  BY <1>9, <1>16, <1>17, ClearFields
<1>20. c \in X1
  BY <1>12
<1>21. Heap(a3, h, X1)
  BY <1>15, <1>17, <1>18, <1>19, <1>20, EditStep
<1>22. a3.block = blk3 /\ Kept(a2, a3)
  BY <1>17, <1>19, Fields DEF Kept
<1>23. /\ DOMAIN blk3 = DOMAIN a2.block /\ blk3[c].requested = 0 /\ blk3[c].next = a2.block[c].next
       /\ \A d \in DOMAIN a2.block : d # c => SameBlockIn(a2.block, blk3, d)
       /\ \A d \in DOMAIN a2.block : blk3[d].is_free = a2.block[d].is_free
  <2>1. DOMAIN blk3 = DOMAIN a2.block /\ SameShape(a2.block, blk3)
    BY <1>18 DEF Edited, SameShape
  <2>2. /\ blk3[c].requested = 0
        /\ \A d \in DOMAIN a2.block : blk3[d].is_free = a2.block[d].is_free /\ blk3[d].next = a2.block[d].next
    BY <1>15, <1>18, <2>1 DEF Edited, SameShape
  <2>3. \A d \in DOMAIN a2.block : d # c => SameBlockIn(a2.block, blk3, d)
    BY <1>18, <2>1, <2>2 DEF Edited, SameShape, SameBlockIn
  <2> QED
    BY <1>15, <2>1, <2>2, <2>3
<1>24. Kept(a, a3)
  BY <1>13, <1>15, <1>22 DEF Kept
<1>25. ~a3.regions[c[1]].direct
  BY <1>13, <1>24 DEF Kept
<1>26. a3.block[c].next # Null => ~a3.block[a3.block[c].next].is_free
  <2>1. a2.block[c].next # Null => a2.block[c].next \in DOMAIN a2.block
    BY <1>15, HeapFacts, NextOf
  <2> QED
    BY <1>15, <1>22, <1>23, <2>1
<1>27. ASSUME NEW d \in DOMAIN blk3, d # c
       PROVE  SameBlockIn(a.block, blk3, d)
  <2>1. d \in DOMAIN a2.block /\ SameBlockIn(a2.block, blk3, d)
    BY <1>23, <1>27
  <2>2. SameBlockIn(a1.block, a2.block, d)
    BY <1>15, <1>27, <2>1 DEF Frame
  <2>3. d \in DOMAIN a1.block
    BY <2>2 DEF SameBlockIn
  <2>4. SameBlockIn(a.block, a1.block, d)
    BY <1>13, <1>27, <2>3 DEF Frame
  <2> QED
    BY <2>1, <2>2, <2>4 DEF SameBlockIn
<1>28. ASSUME a3.block[c].previous # Null PROVE ~a3.block[a3.block[c].previous].is_free
  <2>1. PICK q : q = a3.block[c].previous
    OBVIOUS
  <2>2. c \in DOMAIN a3.block
    BY <1>15, <1>22, <1>23
  <2>3. q \in DOMAIN a3.block /\ q # c /\ a3.block[q].next = c
    BY <1>21, <1>28, <2>1, <2>2, HeapFacts, PreviousOf
  <2>4. SameBlockIn(a.block, blk3, q)
    BY <1>22, <1>27, <2>3
  <2>5. q \in DOMAIN a.block /\ a.block[q].next = c /\ blk3[q].is_free = a.block[q].is_free
    BY <1>22, <2>3, <2>4 DEF SameBlockIn
  <2> QED
    BY <1>13, <1>22, <2>1, <2>5
<1>29. /\ Heap(r, h, X1 \ {c}) /\ Kept(a3, r) /\ Marked(blk3, r.block, c, TRUE)
  BY <1>11, <1>20, <1>21, <1>22, <1>23, <1>25, <1>26, <1>28, InsertStep
<1>30. X1 \ {c} = X \ {b}
  BY <1>12, <1>13
<1>31. Kept(a, r)
  BY <1>24, <1>29 DEF Kept
<1>32. ASSUME NEW d \in DOMAIN a.block, d # b, ~a.block[d].is_free
       PROVE  Survives(a.block, r.block, d)
  <2>1. d # c /\ d \in DOMAIN a1.block
    BY <1>13, <1>32
  <2>2. ~a1.block[d].is_free
    BY <1>13, <1>32, <2>1 DEF Frame, SameBlockIn
  <2>3. d \in DOMAIN blk3
    BY <1>15, <1>23, <2>1, <2>2
  <2>4. SameBlockIn(a.block, blk3, d)
    BY <1>27, <2>1, <2>3
  <2>5. /\ DOMAIN r.block = DOMAIN blk3 /\ r.block[d].span = blk3[d].span
        /\ r.block[d].requested = blk3[d].requested /\ r.block[d].user_offset = blk3[d].user_offset
        /\ r.block[d].alignment = blk3[d].alignment /\ r.block[d].is_free = blk3[d].is_free
    BY <1>29, <2>1, <2>3 DEF Marked, SameShape
  <2> QED
    BY <1>32, <2>3, <2>4, <2>5 DEF SameBlockIn, Survives
<1> QED
  BY <1>10, <1>29, <1>30, <1>31, <1>32

--------------------------------------------------------------------------------
\* Allocating: a block in hand is made to serve a request.

\* h2 and X2 are who holds the blocks of a2, which has the regions of a.
Becomes(a, a2, h2, X2, bytes) ==
    /\ Heap(a2, h2, X2) /\ a2.regions = a.regions
    /\ a2.direct_threshold = a.direct_threshold /\ a2.used = bytes

LEMMA Serving ==
    ASSUME NEW a, Scalars(a), BlocksType(a.block), NEW b \in DOMAIN a.block,
           NEW size \in Nat, NEW offset \in Nat, NEW alignment \in Nat, NEW bytes
    PROVE  \E blk2 : /\ Edited(a.block, blk2, b, size, offset, alignment)
                     /\ Serve(a, b, size, offset, alignment, bytes) = With3(a, blk2, a.free_blocks, bytes)
<1>1. PICK blk2 : blk2 = Rewritten(a.block, b, size, offset, alignment)
  OBVIOUS
<1>2. Edited(a.block, blk2, b, size, offset, alignment)
  BY <1>1, Editing DEF Rewritten
<1>3. Serve(a, b, size, offset, alignment, bytes) = With3(a, blk2, a.free_blocks, bytes)
  BY <1>1, ServeFields
<1> QED
  BY <1>2, <1>3

LEMMA ServeStep ==
    ASSUME NEW a, NEW h, NEW X, Heap(a, h, X), NEW b \in X,
           NEW size \in Sizes, NEW alignment \in Alignments, NEW bytes \in Int,
           Required(b, size, alignment) <= a.block[b].span,
           NEW a2, a2 = Serve(a, b, size, UserOffset(b, alignment), alignment, bytes)
    PROVE  Becomes(a, a2, With(h, b, size), X \ {b}, bytes)
<1>1. Scalars(a) /\ Layout(a.regions, a.block) /\ BlocksType(a.block) /\ Held(a.block, h, X)
  BY HeapFacts
<1>2. b \in DOMAIN a.block
  BY <1>1 DEF Held
<1>3. b \in Addresses
  BY <1>1, <1>2, Places
<1>4. UserOffset(b, alignment) \in Nat /\ size \in Nat /\ alignment \in Nat
  BY <1>3, Numbers, Offsets
<1>5. PICK offset \in Nat : offset = UserOffset(b, alignment)
  BY <1>4
<1>6. a2 = Serve(a, b, size, offset, alignment, bytes)
  BY <1>5
<1>7. PICK blk2 : /\ Edited(a.block, blk2, b, size, offset, alignment)
                  /\ a2 = With3(a, blk2, a.free_blocks, bytes)
  BY <1>1, <1>2, <1>4, <1>6, Serving
<1>9. Heap(a2, h, X)
  BY <1>7, EditStep
<1>10. /\ a2.block = blk2 /\ a2.regions = a.regions /\ a2.direct_threshold = a.direct_threshold
       /\ a2.used = bytes
  BY <1>1, <1>7, Fields
<1>11. /\ a2.block[b].requested = size /\ a2.block[b].alignment = alignment
       /\ a2.block[b].user_offset = UserOffset(b, alignment)
       /\ a2.block[b].span = a.block[b].span
  BY <1>2, <1>5, <1>7, <1>10 DEF Edited, SameShape
<1>12. UserOffset(b, alignment) + size <= a2.block[b].span
  BY <1>11 DEF Required
<1>13. Heap(a2, With(h, b, size), X \ {b})
  BY <1>9, <1>11, <1>12, GiveStep
<1> QED
  BY <1>10, <1>13 DEF Becomes

LEMMA Requirement ==
    ASSUME NEW b \in Addresses, NEW size \in Sizes, NEW alignment \in Alignments
    PROVE  Required(b, size, alignment) \in Nat \ {0}
<1>1. UserOffset(b, alignment) \in Nat \ {0} /\ size \in Nat
  BY Numbers, Offsets
<1> QED
  BY <1>1 DEF Required

\* The end of a block in hand that nobody needs goes on the free list.
LEMMA CutStep ==
    ASSUME NEW a, NEW h, NEW X, Heap(a, h, X), NEW b \in X, ~a.regions[b[1]].direct,
           a.block[b].next # Null => ~a.block[a.block[b].next].is_free,
           NEW s \in Nat \ {0}, s < a.block[b].span,
           NEW a2, a2 = Insert(Split(a, b, s), RestOf(b, s))
    PROVE  /\ Heap(a2, h, X) /\ Kept(a, a2) /\ a2.block[b].span = s
<1>1. Layout(a.regions, a.block) /\ Held(a.block, h, X)
  BY HeapFacts
<1>2. b \in DOMAIN a.block
  BY <1>1 DEF Held
<1>3. PICK t : t = RestOf(b, s)
  OBVIOUS
<1>4. t \notin DOMAIN a.block /\ t # b /\ t[1] = b[1] /\ t \in Addresses
  BY <1>1, <1>2, <1>3, PartIsNew
<1>5. PICK u : u = Split(a, b, s)
  OBVIOUS
<1>6. Heap(u, h, X \cup {t}) /\ Kept(a, u) /\ Parted(a.block, u.block, b, t, s)
  BY <1>3, <1>5, SplitStep
<1>7. t \in X \cup {t} /\ u.block[t].requested = 0 /\ ~u.regions[t[1]].direct
  BY <1>4, <1>6 DEF Parted, Kept
<1>8. b # Null
  BY <1>1, <1>2, Places
<1>9. u.block[t].next # Null => ~u.block[u.block[t].next].is_free
  <2>1. u.block[t].next = a.block[b].next
    BY <1>6 DEF Parted
  <2>2. a.block[b].next # Null => a.block[b].next \in DOMAIN a.block
    BY <1>1, <1>2, NextOf
  <2>3. a.block[b].next # Null => u.block[a.block[b].next].is_free = a.block[a.block[b].next].is_free
    BY <1>6, <2>2 DEF Parted
  <2> QED
    BY <2>1, <2>3
<1>10. u.block[t].previous # Null => ~u.block[u.block[t].previous].is_free
  <2>1. u.block[t].previous = b /\ b \in X \cup {t}
    BY <1>6 DEF Parted
  <2>2. Held(u.block, h, X \cup {t})
    BY <1>6, HeapFacts
  <2> QED
    BY <2>1, <2>2 DEF Held
<1>11. PICK Y : Y = X \cup {t}
  OBVIOUS
<1>12. Heap(u, h, Y) /\ t \in Y
  BY <1>6, <1>11
<1>13. a2 = Insert(u, t)
  BY <1>3, <1>5
<1>14. Heap(a2, h, Y \ {t}) /\ Kept(u, a2) /\ Marked(u.block, a2.block, t, TRUE)
  <2>1. /\ Heap(u, h, Y) /\ t \in Y /\ u.block[t].requested = 0 /\ ~u.regions[t[1]].direct
        /\ u.block[t].next # Null => ~u.block[u.block[t].next].is_free
        /\ u.block[t].previous # Null => ~u.block[u.block[t].previous].is_free
    BY <1>7, <1>9, <1>10, <1>12
  <2>2. /\ Heap(Insert(u, t), h, Y \ {t}) /\ Kept(u, Insert(u, t))
        /\ Marked(u.block, Insert(u, t).block, t, TRUE)
    BY ONLY <2>1, InsertStep
  <2> QED
    BY <1>13, <2>2
<1>15. Y \ {t} = X
  BY <1>1, <1>4, <1>11 DEF Held
<1>16. Kept(a, a2)
  BY <1>6, <1>14 DEF Kept
<1>17. a2.block[b].span = s
  BY <1>2, <1>6, <1>14 DEF Parted, Marked, SameShape
<1> QED
  BY <1>14, <1>15, <1>16, <1>17

\* activate_block for a block of the free list, and for a mapping of its own.
LEMMA ActivateStep ==
    ASSUME NEW a, NEW h, Heap(a, h, {}), NEW b \in DOMAIN a.block, a.block[b].is_free,
           NEW size \in Sizes, NEW alignment \in Alignments,
           Required(b, size, alignment) <= a.block[b].span,
           NEW r, r = Activate(a, b, size, alignment, TRUE)
    PROVE  Becomes(a, r, With(h, b, size), {}, a.used + size)
<1>1. /\ Scalars(a) /\ Layout(a.regions, a.block) /\ Coalesced(a.block)
      /\ Direct(a.regions, a.block, a.direct_threshold)
  BY HeapFacts
<1>2. b \in Addresses /\ b[1] \in Regions /\ a.block[b].span \in Nat \ {0}
  BY <1>1, Places
<1>3. PICK s : s = Required(b, size, alignment)
  OBVIOUS
<1>4. s \in Nat \ {0} /\ s <= a.block[b].span
  BY <1>2, <1>3, Requirement
<1>5. PICK a1 : a1 = Unlist(a, b)
  OBVIOUS
<1>6. Heap(a1, h, {} \cup {b}) /\ Kept(a, a1) /\ Marked(a.block, a1.block, b, FALSE)
  BY <1>5, UnlistStep
<1>7. Heap(a1, h, {b})
  BY <1>6
<1>8. /\ a1.block[b].span = a.block[b].span /\ a1.block[b].next = a.block[b].next
      /\ ~a1.regions[b[1]].direct
  BY <1>1, <1>2, <1>6 DEF Marked, SameShape, Kept, Direct
<1>9. a1.block[b].next # Null => ~a1.block[a1.block[b].next].is_free
  <2>1. a.block[b].next # Null => a.block[b].next \in DOMAIN a.block /\ a.block[b].next # b
    BY <1>1, NextOf
  <2>2. a.block[b].next # Null => ~a.block[a.block[b].next].is_free
    BY <1>1 DEF Coalesced
  <2> QED
    BY <1>6, <1>8, <2>1, <2>2 DEF Marked
<1>10. PICK a2 : a2 = IF a1.block[b].span - s >= MinimumFreeSpan
                      THEN Insert(Split(a1, b, s), RestOf(b, s)) ELSE a1
  OBVIOUS
<1>11. Heap(a2, h, {b}) /\ Kept(a1, a2) /\ s <= a2.block[b].span
  <2>1. CASE a1.block[b].span - s >= MinimumFreeSpan
    <3>1. s < a1.block[b].span
      <4>1. MinimumFreeSpan \in Nat \ {0} /\ a1.block[b].span \in Nat
        BY <1>2, <1>8, Numbers
      <4> QED
        BY <1>4, <2>1, <4>1
    <3>2. b \in {b} /\ a2 = Insert(Split(a1, b, s), RestOf(b, s))
      BY <1>10, <2>1
    <3>3. Heap(a2, h, {b}) /\ Kept(a1, a2) /\ a2.block[b].span = s
      BY <1>4, <1>7, <1>8, <1>9, <3>1, <3>2, CutStep
    <3> QED
      BY <1>4, <3>3
  <2>2. CASE ~(a1.block[b].span - s >= MinimumFreeSpan)
    BY <1>4, <1>7, <1>8, <1>10, <2>2 DEF Kept
  <2> QED
    BY <2>1, <2>2
<1>12. PICK bytes \in Int : bytes = a2.used + size
  <2>1. a2.used \in Int /\ size \in Int
    BY <1>11, HeapFacts, Numbers
  <2> QED
    BY <2>1
<1>13. r = Serve(a2, b, size, UserOffset(b, alignment), alignment, bytes)
  BY <1>3, <1>5, <1>10, <1>12 DEF Activate, Serve
<1>14. b \in {b} /\ {b} \ {b} = {} /\ Required(b, size, alignment) <= a2.block[b].span
  BY <1>3, <1>11
<1>15. Becomes(a2, r, With(h, b, size), {b} \ {b}, bytes)
  BY <1>11, <1>13, <1>14, ServeStep
<1> QED
  BY <1>6, <1>11, <1>12, <1>14, <1>15 DEF Kept, Becomes

LEMMA ActivateDirectStep ==
    ASSUME NEW a, NEW h, NEW b, Heap(a, h, {b}), NEW size \in Sizes, NEW alignment \in Alignments,
           Required(b, size, alignment) <= a.block[b].span,
           NEW r, r = Activate(a, b, size, alignment, FALSE)
    PROVE  Becomes(a, r, With(h, b, size), {}, a.used + size)
<1>1. PICK bytes \in Int : bytes = a.used + size
  <2>1. a.used \in Int /\ size \in Int
    BY HeapFacts, Numbers
  <2> QED
    BY <2>1
<1>2. r = Serve(a, b, size, UserOffset(b, alignment), alignment, bytes)
  BY <1>1 DEF Activate, Serve
<1>3. b \in {b} /\ {b} \ {b} = {}
  OBVIOUS
<1>4. Becomes(a, r, With(h, b, size), {b} \ {b}, bytes)
  BY <1>2, <1>3, ServeStep
<1> QED
  BY <1>1, <1>3, <1>4

--------------------------------------------------------------------------------
\* Mapping and unmapping regions.

Remade(a, reg, blk, next) ==
    Made(reg, blk, a.free_blocks, a.initial_region_size, next, a.direct_threshold, a.used)

LEMMA RemadeFields ==
    ASSUME NEW a, Scalars(a), NEW reg, NEW blk, NEW next \in Nat \ {0},
           NEW a2, a2 = Remade(a, reg, blk, next)
    PROVE  /\ a2.regions = reg /\ a2.block = blk /\ a2.free_blocks = a.free_blocks
           /\ a2.direct_threshold = a.direct_threshold /\ a2.used = a.used /\ Scalars(a2)
<1>1. /\ a2.regions = reg /\ a2.block = blk /\ a2.free_blocks = a.free_blocks
      /\ a2.direct_threshold = a.direct_threshold /\ a2.initial_region_size = a.initial_region_size
      /\ a2.next_region_size = next /\ a2.used = a.used
  BY DEF Remade, Made
<1>2. a2 = With3(a2, a2.block, a2.free_blocks, a2.used)
  BY <1>1 DEF Remade, With3
<1>3. Scalars(a2)
  BY <1>1, <1>2 DEF Scalars
<1> QED
  BY <1>1, <1>3

LEMMA Unmapping ==
    ASSUME NEW a, Scalars(a), NEW r
    PROVE  UnlinkRegion(a, r) = Remade(a, [a.regions EXCEPT ![r] = Unmapped],
                                       Without(a.block, {b \in DOMAIN a.block : b[1] = r}), a.next_region_size)
<1>1. PICK blk : blk = Without(a.block, {b \in DOMAIN a.block : b[1] = r})
  OBVIOUS
<1>2. PICK reg : reg = [a.regions EXCEPT ![r] = Unmapped]
  OBVIOUS
<1>3. UnlinkRegion(a, r) = [a EXCEPT !.regions = reg, !.block = blk]
  BY <1>1, <1>2 DEF UnlinkRegion
<1>4. a = Made(a.regions, a.block, a.free_blocks, a.initial_region_size, a.next_region_size,
               a.direct_threshold, a.used)
  BY DEF Scalars, With3
<1>5. [a EXCEPT !.regions = reg] = Made(reg, a.block, a.free_blocks, a.initial_region_size,
               a.next_region_size, a.direct_threshold, a.used)
  BY <1>4 DEF Made
<1>6. [a EXCEPT !.regions = reg, !.block = blk] = [[a EXCEPT !.regions = reg] EXCEPT !.block = blk]
  OBVIOUS
<1>7. [Made(reg, a.block, a.free_blocks, a.initial_region_size, a.next_region_size,
               a.direct_threshold, a.used) EXCEPT !.block = blk]
      = Remade(a, reg, blk, a.next_region_size)
  BY DEF Remade, Made
<1> QED
  BY <1>1, <1>2, <1>3, <1>5, <1>6, <1>7

\* A direct mapping goes with the one block it has.
LEMMA UnlinkStep ==
    ASSUME NEW a, NEW h, NEW X, Heap(a, h, X), NEW b \in X, a.regions[b[1]].direct,
           NEW a2, a2 = UnlinkRegion(a, b[1])
    PROVE  Heap(a2, h, X \ {b}) /\ a2.used = a.used
<1>1. /\ Scalars(a) /\ Layout(a.regions, a.block) /\ BlocksType(a.block) /\ Held(a.block, h, X)
      /\ Direct(a.regions, a.block, a.direct_threshold) /\ Coalesced(a.block) /\ Listed(a.block, a.free_blocks)
  BY HeapFacts
<1>2. b \in DOMAIN a.block
  BY <1>1 DEF Held
<1>3. PICK r : r = b[1]
  OBVIOUS
<1>4. r \in Regions /\ a.regions[r].direct /\ RegionsType(a.regions)
  BY <1>1, <1>2, <1>3, Places DEF Layout
<1>5. ASSUME NEW c \in DOMAIN a.block, c[1] = r PROVE c = b
  <2>1. a.block[c].next = Null /\ a.block[b].next = Null
    BY <1>1, <1>2, <1>3, <1>4, <1>5 DEF Direct
  <2>2. /\ c[2] + a.block[c].span = a.regions[c[1]].mapping_size
        /\ b[2] + a.block[b].span = a.regions[b[1]].mapping_size
    BY <1>1, <1>2, <2>1 DEF Layout, Tiled
  <2> QED
    BY <1>1, <1>2, <1>3, <1>5, <2>2, SameBlock
<1>6. PICK reg2 : reg2 = [a.regions EXCEPT ![r] = Unmapped]
  OBVIOUS
<1>7. PICK blk2 : blk2 = Without(a.block, {c \in DOMAIN a.block : c[1] = r})
  OBVIOUS
<1>8. DOMAIN blk2 = DOMAIN a.block \ {b} /\ \A c \in DOMAIN blk2 : blk2[c] = a.block[c]
  <2>1. {c \in DOMAIN a.block : c[1] = r} = {b}
    BY <1>2, <1>3, <1>5
  <2>2. blk2 = Restrict(a.block, DOMAIN a.block \ {b})
    BY <1>7, <2>1 DEF Without
  <2> QED
    BY <2>2 DEF Restrict
<1>9. \A c \in DOMAIN blk2 : c \in DOMAIN a.block /\ c # b /\ c[1] # r
  BY <1>5, <1>8
<1>10. /\ RegionsType(reg2) /\ reg2[r] = Unmapped
       /\ \A q \in Regions : q # r => reg2[q] = a.regions[q]
  BY <1>4, <1>6 DEF RegionsType, Unmapped
<1>11. PICK u : u = Remade(a, reg2, blk2, a.next_region_size)
  OBVIOUS
<1>12. a2 = u
  BY <1>1, <1>3, <1>6, <1>7, <1>11, Unmapping
<1>13. /\ u.regions = reg2 /\ u.block = blk2 /\ u.free_blocks = a.free_blocks
       /\ u.direct_threshold = a.direct_threshold /\ u.used = a.used /\ Scalars(u)
  BY <1>1, <1>11, RemadeFields DEF Scalars
<1>14. BlocksType(blk2)
  <2>1. DOMAIN blk2 \subseteq Addresses /\ IsFiniteSet(DOMAIN blk2)
    BY <1>1, <1>8, FS_Subset DEF BlocksType
  <2>2. \A c \in DOMAIN blk2 : blk2[c] \in Headers
    BY <1>1, <1>8, <1>9 DEF BlocksType
  <2>3. blk2 = [c \in DOMAIN blk2 |-> blk2[c]]
    BY <1>7 DEF Without, Restrict
  <2> QED
    BY <2>1, <2>2, <2>3 DEF BlocksType
<1>15. ASSUME NEW c \in DOMAIN blk2
       PROVE  /\ c[1] \in Regions /\ reg2[c[1]] = a.regions[c[1]] /\ blk2[c] = a.block[c] /\ c \in DOMAIN a.block
              /\ a.block[c].next # Null => a.block[c].next \in DOMAIN blk2
              /\ a.block[c].previous # Null => a.block[c].previous \in DOMAIN blk2
  <2>1. c \in DOMAIN a.block /\ c # b /\ c[1] # r /\ blk2[c] = a.block[c]
    BY <1>8, <1>9
  <2>2. c[1] \in Regions /\ reg2[c[1]] = a.regions[c[1]]
    BY <1>1, <1>10, <2>1, Places
  <2>3. a.block[c].next # Null => a.block[c].next \in DOMAIN a.block /\ a.block[c].next[1] = c[1]
    BY <1>1, <2>1, NextOf
  <2>4. a.block[c].previous # Null => a.block[c].previous \in DOMAIN a.block /\ a.block[c].previous[1] = c[1]
    BY <1>1, <2>1, PreviousOf
  <2> QED
    BY <1>3, <1>8, <2>1, <2>2, <2>3, <2>4
<1>16. Tiled(reg2, blk2)
  <2>1. ASSUME NEW c \in DOMAIN blk2
        PROVE  /\ reg2[c[1]].mapping_size > 0 /\ c[2] >= RegionHeader
               /\ c[2] + blk2[c].span <= reg2[c[1]].mapping_size
               /\ blk2[c].next = Null => c[2] + blk2[c].span = reg2[c[1]].mapping_size
               /\ blk2[c].next # Null => blk2[c].next \in DOMAIN blk2 /\ blk2[c].next = RestOf(c, blk2[c].span)
               /\ blk2[c].previous = Null => c[2] = RegionHeader
               /\ blk2[c].previous # Null => /\ blk2[c].previous \in DOMAIN blk2
                                            /\ c = RestOf(blk2[c].previous, blk2[blk2[c].previous].span)
    <3>1. /\ reg2[c[1]] = a.regions[c[1]] /\ blk2[c] = a.block[c] /\ c \in DOMAIN a.block
          /\ a.block[c].next # Null => a.block[c].next \in DOMAIN blk2
          /\ a.block[c].previous # Null => /\ a.block[c].previous \in DOMAIN blk2
                                           /\ blk2[a.block[c].previous] = a.block[a.block[c].previous]
      BY <1>8, <1>15
    <3>2. /\ a.regions[c[1]].mapping_size > 0 /\ c[2] >= RegionHeader
          /\ c[2] + a.block[c].span <= a.regions[c[1]].mapping_size
          /\ a.block[c].next = Null => c[2] + a.block[c].span = a.regions[c[1]].mapping_size
          /\ a.block[c].next # Null => a.block[c].next = RestOf(c, a.block[c].span)
          /\ a.block[c].previous = Null => c[2] = RegionHeader
          /\ a.block[c].previous # Null => c = RestOf(a.block[c].previous, a.block[a.block[c].previous].span)
      BY <1>1, <3>1 DEF Layout, Tiled
    <3> QED
      BY <3>1, <3>2
  <2>2. \A c, d \in DOMAIN blk2 : c[1] = d[1] /\ c[2] < d[2] => c[2] + blk2[c].span <= d[2]
    <3>1. \A c, d \in DOMAIN a.block : c[1] = d[1] /\ c[2] < d[2] => c[2] + a.block[c].span <= d[2]
      BY <1>1 DEF Layout, Tiled
    <3> QED
      BY <1>8, <3>1
  <2>3. ASSUME NEW q \in Regions, reg2[q].mapping_size > 0 PROVE <<q, RegionHeader>> \in DOMAIN blk2
    <3>1. q # r
      BY <1>10, <2>3 DEF Unmapped
    <3>2. <<q, RegionHeader>> \in DOMAIN a.block
      BY <1>1, <1>10, <2>3, <3>1 DEF Layout, Tiled
    <3>3. <<q, RegionHeader>> # b
      BY <1>3, <3>1
    <3> QED
      BY <1>8, <3>2, <3>3
  <2> QED
    BY <2>1, <2>2, <2>3 DEF Tiled
<1>17. Layout(reg2, blk2)
  BY <1>10, <1>14, <1>16 DEF Layout
<1>18. Direct(reg2, blk2, a.direct_threshold)
  <2>1. ASSUME NEW q \in Regions, reg2[q].direct
        PROVE  /\ a.direct_threshold # 0 /\ reg2[q].mapping_size > 0
               /\ \A c \in DOMAIN blk2 : c[1] = q => ~blk2[c].is_free /\ blk2[c].next = Null
    <3>1. q # r
      BY <1>10, <2>1 DEF Unmapped
    <3>2. a.regions[q].direct /\ reg2[q] = a.regions[q]
      BY <1>10, <2>1, <3>1
    <3> QED
      BY <1>1, <1>8, <3>2 DEF Direct
  <2> QED
    BY <2>1 DEF Direct
<1>19. Coalesced(blk2)
  <2>1. ASSUME NEW c \in DOMAIN blk2, blk2[c].is_free, blk2[c].next # Null PROVE ~blk2[blk2[c].next].is_free
    <3>1. c \in DOMAIN a.block /\ a.block[c].is_free /\ a.block[c].next # Null /\ a.block[c].next \in DOMAIN blk2
          /\ blk2[c].next = a.block[c].next
      BY <1>15, <2>1
    <3>2. ~a.block[a.block[c].next].is_free
      BY <1>1, <3>1 DEF Coalesced
    <3> QED
      BY <1>8, <3>1, <3>2
  <2> QED
    BY <2>1 DEF Coalesced
<1>20. ~a.block[b].is_free
  BY <1>1 DEF Held
<1>21. Listed(blk2, a.free_blocks)
  <2>1. \A c : (c \in DOMAIN a.block /\ a.block[c].is_free) <=> (c \in DOMAIN blk2 /\ blk2[c].is_free)
    BY <1>8, <1>20
  <2> QED
    BY <1>1, <2>1 DEF Listed
<1>22. Held(blk2, h, X \ {b})
  <2>1. X \ {b} \subseteq DOMAIN blk2 /\ \A c \in X \ {b} : ~blk2[c].is_free
    BY <1>1, <1>8 DEF Held
  <2>2. DOMAIN h = {c \in DOMAIN blk2 : ~blk2[c].is_free} \ (X \ {b})
    BY <1>1, <1>8, <1>20 DEF Held
  <2>3. ASSUME NEW c \in DOMAIN h PROVE Served(blk2, h, c)
    <3>1. c \in DOMAIN blk2 /\ Served(a.block, h, c) /\ blk2[c] = a.block[c]
      BY <1>1, <1>8, <2>2, <2>3 DEF Held
    <3> QED
      BY <3>1 DEF Served
  <2>4. \A c \in DOMAIN blk2 : blk2[c].is_free => blk2[c].requested = 0
    BY <1>1, <1>8 DEF Held
  <2>5. h = [c \in DOMAIN h |-> h[c]]
    BY <1>1 DEF Held
  <2> QED
    BY <2>1, <2>2, <2>3, <2>4, <2>5 DEF Held
<1>23. Heap(u, h, X \ {b})
  BY <1>13, <1>17, <1>18, <1>19, <1>21, <1>22 DEF Heap
<1> QED
  BY <1>12, <1>13, <1>23

\* A new mapping is one block, in hand.
Whole(actual) ==
    [span |-> actual - RegionHeader, requested |-> 0, user_offset |-> 0, alignment |-> 0,
     previous |-> Null, next |-> Null, is_free |-> FALSE]

WithRegion(reg, r, actual, direct) == [reg EXCEPT ![r] = [mapping_size |-> actual, direct |-> direct]]

LEMMA MapStep ==
    ASSUME NEW a, NEW h, NEW X, Heap(a, h, X), NEW r \in Regions, a.regions[r].mapping_size = 0,
           NEW actual \in Nat, actual > RegionHeader, NEW direct \in BOOLEAN,
           direct => a.direct_threshold # 0, NEW next \in Nat \ {0},
           NEW reg2, reg2 = WithRegion(a.regions, r, actual, direct),
           NEW first, first = <<r, RegionHeader>>,
           NEW blk2, blk2 = With(a.block, first, Whole(actual)),
           NEW a2, a2 = Remade(a, reg2, blk2, next)
    PROVE  Heap(a2, h, X \cup {first}) /\ first \notin DOMAIN a.block
<1>1. /\ Scalars(a) /\ Layout(a.regions, a.block) /\ BlocksType(a.block) /\ Held(a.block, h, X)
      /\ Direct(a.regions, a.block, a.direct_threshold) /\ Coalesced(a.block) /\ Listed(a.block, a.free_blocks)
      /\ RegionsType(a.regions)
  BY HeapFacts DEF Layout
<1>2. RegionHeader \in Nat \ {0}
  BY Numbers
<1>3. first \in Addresses /\ first[1] = r /\ first[2] = RegionHeader
  BY <1>2 DEF Addresses
<1>4. PICK whole : whole = Whole(actual)
  OBVIOUS
<1>5. actual - RegionHeader \in Nat \ {0}
  BY <1>2
<1>6. /\ whole \in Headers /\ whole.span = actual - RegionHeader /\ whole.requested = 0
      /\ whole.next = Null /\ whole.previous = Null /\ ~whole.is_free
  BY <1>4, <1>5 DEF Whole, Headers
<1>7. ASSUME NEW c \in DOMAIN a.block PROVE c[1] # r
  BY <1>1, <1>7, Places
<1>8. first \notin DOMAIN a.block
  BY <1>3, <1>7
<1>9. /\ DOMAIN blk2 = DOMAIN a.block \cup {first} /\ blk2[first] = whole
      /\ \A c \in DOMAIN a.block : blk2[c] = a.block[c]
      /\ blk2 = [c \in DOMAIN blk2 |-> blk2[c]]
  BY <1>4, <1>8 DEF With
<1>10. /\ RegionsType(reg2) /\ reg2[r] = [mapping_size |-> actual, direct |-> direct]
       /\ \A q \in Regions : q # r => reg2[q] = a.regions[q]
  BY <1>1 DEF RegionsType, WithRegion
<1>11. reg2[r].mapping_size = actual /\ reg2[r].direct = direct /\ ~a.regions[r].direct
  BY <1>1, <1>10 DEF Direct
<1>12. BlocksType(blk2)
  <2>1. DOMAIN blk2 \subseteq Addresses /\ IsFiniteSet(DOMAIN blk2)
    BY <1>1, <1>3, <1>9, FS_AddElement DEF BlocksType
  <2>2. \A c \in DOMAIN blk2 : blk2[c] \in Headers
    BY <1>1, <1>6, <1>9 DEF BlocksType
  <2> QED
    BY <1>9, <2>1, <2>2 DEF BlocksType
<1>13. ASSUME NEW c \in DOMAIN a.block
       PROVE  /\ c \in DOMAIN blk2 /\ c # first /\ c[1] # r /\ reg2[c[1]] = a.regions[c[1]] /\ blk2[c] = a.block[c]
              /\ a.block[c].next # Null => a.block[c].next \in DOMAIN a.block
              /\ a.block[c].previous # Null => a.block[c].previous \in DOMAIN a.block
  <2>1. c[1] \in Regions
    BY <1>1, Places
  <2>2. a.block[c].next # Null => a.block[c].next \in DOMAIN a.block
    BY <1>1, NextOf
  <2>3. a.block[c].previous # Null => a.block[c].previous \in DOMAIN a.block
    BY <1>1, PreviousOf
  <2> QED
    BY <1>7, <1>8, <1>9, <1>10, <2>1, <2>2, <2>3
<1>14. Tiled(reg2, blk2)
  <2>1. ASSUME NEW c \in DOMAIN blk2
        PROVE  /\ reg2[c[1]].mapping_size > 0 /\ c[2] >= RegionHeader
               /\ c[2] + blk2[c].span <= reg2[c[1]].mapping_size
               /\ blk2[c].next = Null => c[2] + blk2[c].span = reg2[c[1]].mapping_size
               /\ blk2[c].next # Null => blk2[c].next \in DOMAIN blk2 /\ blk2[c].next = RestOf(c, blk2[c].span)
               /\ blk2[c].previous = Null => c[2] = RegionHeader
               /\ blk2[c].previous # Null => /\ blk2[c].previous \in DOMAIN blk2
                                            /\ c = RestOf(blk2[c].previous, blk2[blk2[c].previous].span)
    <3>1. CASE c = first
      <4>1. c[1] = r /\ c[2] = RegionHeader /\ blk2[c] = whole
        BY <1>3, <1>9, <3>1
      <4>2. c[2] + blk2[c].span = actual /\ actual > 0
        BY <1>2, <1>6, <4>1
      <4> QED
        BY <1>2, <1>6, <1>11, <4>1, <4>2
    <3>2. CASE c # first
      <4>0. c \in DOMAIN a.block
        BY <1>9, <3>2
      <4>1. /\ reg2[c[1]] = a.regions[c[1]] /\ blk2[c] = a.block[c] /\ c \in DOMAIN a.block
            /\ a.block[c].next # Null => a.block[c].next \in DOMAIN blk2
            /\ a.block[c].previous # Null => /\ a.block[c].previous \in DOMAIN blk2
                                             /\ blk2[a.block[c].previous] = a.block[a.block[c].previous]
        BY <1>9, <1>13, <4>0
      <4>2. /\ a.regions[c[1]].mapping_size > 0 /\ c[2] >= RegionHeader
            /\ c[2] + a.block[c].span <= a.regions[c[1]].mapping_size
            /\ a.block[c].next = Null => c[2] + a.block[c].span = a.regions[c[1]].mapping_size
            /\ a.block[c].next # Null => a.block[c].next = RestOf(c, a.block[c].span)
            /\ a.block[c].previous = Null => c[2] = RegionHeader
            /\ a.block[c].previous # Null => c = RestOf(a.block[c].previous, a.block[a.block[c].previous].span)
        BY <1>1, <4>0 DEF Layout, Tiled
      <4> QED
        BY <4>1, <4>2
    <3> QED
      BY <3>1, <3>2
  <2>2. ASSUME NEW c \in DOMAIN blk2, NEW d \in DOMAIN blk2, c[1] = d[1], c[2] < d[2]
        PROVE  c[2] + blk2[c].span <= d[2]
    <3>1. \A x, y \in DOMAIN a.block : x[1] = y[1] /\ x[2] < y[2] => x[2] + a.block[x].span <= y[2]
      BY <1>1 DEF Layout, Tiled
    <3>2. CASE c = first \/ d = first
      <4>1. c = first /\ d = first
        BY <1>3, <1>7, <1>9, <2>2, <3>2
      <4>2. ~(c[2] < d[2])
        BY <1>2, <1>3, <4>1
      <4> QED
        BY <2>2, <4>2
    <3>3. CASE c # first /\ d # first
      <4>1. c \in DOMAIN a.block /\ d \in DOMAIN a.block /\ blk2[c] = a.block[c]
        BY <1>9, <3>3
      <4> QED
        BY <2>2, <3>1, <4>1
    <3> QED
      BY <3>2, <3>3
  <2>3. ASSUME NEW q \in Regions, reg2[q].mapping_size > 0 PROVE <<q, RegionHeader>> \in DOMAIN blk2
    <3>1. CASE q = r
      BY <1>9, <3>1
    <3>2. CASE q # r
      <4>1. a.regions[q].mapping_size > 0
        BY <1>10, <2>3, <3>2
      <4>2. <<q, RegionHeader>> \in DOMAIN a.block
        BY <1>1, <4>1 DEF Layout, Tiled
      <4> QED
        BY <1>9, <4>2
    <3> QED
      BY <3>1, <3>2
  <2> QED
    BY <2>1, <2>2, <2>3 DEF Tiled
<1>15. Layout(reg2, blk2)
  BY <1>10, <1>12, <1>14 DEF Layout
<1>16. Direct(reg2, blk2, a.direct_threshold)
  <2>1. ASSUME NEW q \in Regions, reg2[q].direct
        PROVE  /\ a.direct_threshold # 0 /\ reg2[q].mapping_size > 0
               /\ \A c \in DOMAIN blk2 : c[1] = q => ~blk2[c].is_free /\ blk2[c].next = Null
    <3>1. CASE q = r
      <4>1. \A c \in DOMAIN blk2 : c[1] = q => c = first
        BY <1>7, <1>9, <3>1
      <4>2. actual > 0
        BY <1>2
      <4> QED
        BY <1>6, <1>9, <1>11, <2>1, <3>1, <4>1, <4>2
    <3>2. CASE q # r
      <4>1. a.regions[q].direct /\ reg2[q] = a.regions[q]
        BY <1>10, <2>1, <3>2
      <4>2. \A c \in DOMAIN blk2 : c[1] = q => c \in DOMAIN a.block /\ blk2[c] = a.block[c]
        BY <1>3, <1>9, <3>2
      <4> QED
        BY <1>1, <4>1, <4>2 DEF Direct
    <3> QED
      BY <3>1, <3>2
  <2> QED
    BY <2>1 DEF Direct
<1>17. Coalesced(blk2)
  <2>1. ASSUME NEW c \in DOMAIN blk2, blk2[c].is_free, blk2[c].next # Null PROVE ~blk2[blk2[c].next].is_free
    <3>1. c # first /\ c \in DOMAIN a.block /\ blk2[c] = a.block[c]
      BY <1>6, <1>9, <2>1
    <3>2. a.block[c].next \in DOMAIN a.block /\ ~a.block[a.block[c].next].is_free
      BY <1>1, <1>13, <2>1, <3>1 DEF Coalesced
    <3> QED
      BY <1>9, <3>1, <3>2
  <2> QED
    BY <2>1 DEF Coalesced
<1>18. Listed(blk2, a.free_blocks)
  <2>1. \A c : (c \in DOMAIN a.block /\ a.block[c].is_free) <=> (c \in DOMAIN blk2 /\ blk2[c].is_free)
    BY <1>6, <1>8, <1>9
  <2> QED
    BY <1>1, <2>1 DEF Listed
<1>19. PICK Y : Y = X \cup {first}
  OBVIOUS
<1>20. Held(blk2, h, Y)
  <2>1. Y \subseteq DOMAIN blk2 /\ \A c \in Y : ~blk2[c].is_free
    BY <1>1, <1>6, <1>9, <1>19 DEF Held
  <2>2. DOMAIN h = {c \in DOMAIN blk2 : ~blk2[c].is_free} \ Y
    <3>1. {c \in DOMAIN blk2 : ~blk2[c].is_free} = {c \in DOMAIN a.block : ~a.block[c].is_free} \cup {first}
      BY <1>6, <1>9
    <3>2. DOMAIN h = {c \in DOMAIN a.block : ~a.block[c].is_free} \ X /\ first \notin DOMAIN h
      BY <1>1, <1>8 DEF Held
    <3> QED
      BY <1>19, <3>1, <3>2
  <2>3. ASSUME NEW c \in DOMAIN h PROVE Served(blk2, h, c)
    <3>1. c \in DOMAIN a.block /\ Served(a.block, h, c)
      BY <1>1, <2>3 DEF Held
    <3> QED
      BY <1>9, <3>1 DEF Served
  <2>4. \A c \in DOMAIN blk2 : blk2[c].is_free => blk2[c].requested = 0
    BY <1>1, <1>6, <1>9 DEF Held
  <2>5. h = [c \in DOMAIN h |-> h[c]]
    BY <1>1 DEF Held
  <2> QED
    BY <2>1, <2>2, <2>3, <2>4, <2>5 DEF Held
<1>21. /\ a2.regions = reg2 /\ a2.block = blk2 /\ a2.free_blocks = a.free_blocks
       /\ a2.direct_threshold = a.direct_threshold /\ Scalars(a2)
  <2>1. a2 = Remade(a, reg2, blk2, next)
    OBVIOUS
  <2> QED
    BY ONLY <1>1, <2>1, RemadeFields, next \in Nat \ {0}
<1>22. Heap(a2, h, Y)
  BY <1>15, <1>16, <1>17, <1>18, <1>20, <1>21 DEF Heap
<1> QED
  BY <1>8, <1>19, <1>22

Mapping(a, r, v, first, whole) == [a EXCEPT !.regions[r] = v, !.block = With(@, first, whole)]
NextSized(a, next) == [a EXCEPT !.next_region_size = next]

LEMMA MappingFields ==
    ASSUME NEW a, Scalars(a), NEW r, NEW v, NEW first, NEW whole
    PROVE  Mapping(a, r, v, first, whole)
           = Remade(a, [a.regions EXCEPT ![r] = v], With(a.block, first, whole), a.next_region_size)
<1>1. PICK reg : reg = [a.regions EXCEPT ![r] = v]
  OBVIOUS
<1>2. PICK blk : blk = With(a.block, first, whole)
  OBVIOUS
<1>3. Mapping(a, r, v, first, whole) = [a EXCEPT !.regions = reg, !.block = blk]
  BY <1>1, <1>2 DEF Mapping
<1>4. a = Made(a.regions, a.block, a.free_blocks, a.initial_region_size, a.next_region_size,
               a.direct_threshold, a.used)
  BY DEF Scalars, With3
<1>5. [a EXCEPT !.regions = reg] = Made(reg, a.block, a.free_blocks, a.initial_region_size,
               a.next_region_size, a.direct_threshold, a.used)
  BY <1>4 DEF Made
<1>6. [a EXCEPT !.regions = reg, !.block = blk] = [[a EXCEPT !.regions = reg] EXCEPT !.block = blk]
  OBVIOUS
<1>7. [Made(reg, a.block, a.free_blocks, a.initial_region_size, a.next_region_size,
               a.direct_threshold, a.used) EXCEPT !.block = blk]
      = Remade(a, reg, blk, a.next_region_size)
  BY DEF Remade, Made
<1> QED
  BY <1>1, <1>2, <1>3, <1>5, <1>6, <1>7

LEMMA NextSizedFields ==
    ASSUME NEW a, NEW reg, NEW blk, NEW next, NEW next2
    PROVE  NextSized(Remade(a, reg, blk, next), next2) = Remade(a, reg, blk, next2)
  BY DEF NextSized, Remade, Made

\* region_create: there is room for the request in the new mapping.
Created(a2, h, first, size, alignment, direct) ==
    /\ direct => Heap(a2, h, {first})
    /\ ~direct => Heap(a2, h, {}) /\ a2.block[first].is_free
    /\ first \in DOMAIN a2.block /\ first # Null /\ first \notin DOMAIN h
    /\ Required(first, size, alignment) <= a2.block[first].span

LEMMA CreateStep ==
    ASSUME NEW a, NEW h, Heap(a, h, {}), NEW r \in Regions, a.regions[r].mapping_size = 0,
           NEW size \in Sizes, NEW alignment \in Alignments, NEW direct \in BOOLEAN,
           direct => a.direct_threshold # 0,
           NEW first, first = <<r, RegionHeader>>,
           NEW a2, a2 = RegionCreate(a, r, size, alignment, direct)
    PROVE  /\ Created(a2, h, first, size, alignment, direct)
           /\ a2.direct_threshold = a.direct_threshold /\ a2.used = a.used
<1>1. /\ Scalars(a) /\ a.next_region_size \in Nat \ {0} /\ a.initial_region_size \in Nat \ {0}
      /\ Held(a.block, h, {})
  BY HeapFacts DEF Scalars
<1>2. /\ RegionHeader \in Nat \ {0} /\ Header \in Nat \ {0} /\ Page \in Nat \ {0} /\ MaxRegionSize \in Nat \ {0}
      /\ size \in Nat \ {0} /\ alignment \in Nat \ {0}
  BY Numbers
<1>3. PICK required \in Nat : required = RegionHeader + Header + (alignment - 1) + size
  BY <1>2
<1>4. PICK request \in Nat : /\ request = IF direct \/ required > a.next_region_size THEN required
                                          ELSE a.next_region_size
                             /\ request >= required
  BY <1>1, <1>3
<1>5. PICK actual \in Nat : actual = ((request + Page - 1) \div Page) * Page /\ actual >= request
  BY <1>2, <1>4, RoundUp
<1>6. actual >= required /\ actual > RegionHeader
  BY <1>2, <1>3, <1>4, <1>5
<1>7. PICK base \in Nat \ {0} : base = IF actual < a.initial_region_size THEN a.initial_region_size ELSE actual
  BY <1>1, <1>2, <1>5, <1>6
<1>8. PICK next \in Nat \ {0} : next = IF base >= MaxRegionSize \div 2 THEN MaxRegionSize ELSE base * 2
  BY <1>2, <1>7
<1>9. first \in Addresses /\ first # Null /\ first[1] = r
  BY <1>2 DEF Addresses, Null
<1>10. PICK whole : whole = Whole(actual)
  OBVIOUS
<1>11. whole.span = actual - RegionHeader /\ whole.requested = 0 /\ whole.next = Null /\ whole.previous = Null
  BY <1>10 DEF Whole
<1>12. PICK v : v = [mapping_size |-> actual, direct |-> direct]
  OBVIOUS
<1>13. PICK reg2 : reg2 = [a.regions EXCEPT ![r] = v]
  OBVIOUS
<1>14. PICK blk2 : blk2 = With(a.block, first, whole)
  OBVIOUS
<1>15. first \in DOMAIN blk2 /\ blk2[first] = whole
  BY <1>14 DEF With
<1>16. PICK created : created = Mapping(a, r, v, first, whole)
  OBVIOUS
<1>17. created = Remade(a, reg2, blk2, a.next_region_size)
  BY <1>1, <1>13, <1>14, <1>16, MappingFields
<1>18. a2 = IF direct THEN created ELSE Insert(NextSized(created, next), first)
  BY <1>3, <1>4, <1>5, <1>7, <1>8, <1>10, <1>12, <1>16 DEF RegionCreate, Mapping, NextSized, Whole
<1>19. ASSUME NEW n \in Nat \ {0}, NEW u, u = Remade(a, reg2, blk2, n)
       PROVE  /\ Heap(u, h, {first}) /\ first \notin DOMAIN a.block
              /\ u.regions = reg2 /\ u.block = blk2 /\ u.direct_threshold = a.direct_threshold
              /\ u.used = a.used
  <2>1. reg2 = WithRegion(a.regions, r, actual, direct)
    BY <1>12, <1>13 DEF WithRegion
  <2>2. blk2 = With(a.block, first, Whole(actual))
    BY <1>10, <1>14
  <2>3. Heap(u, h, {first}) /\ first \notin DOMAIN a.block
    <3>1. PICK X : X = {}
      OBVIOUS
    <3>2. /\ Heap(a, h, X) /\ r \in Regions /\ a.regions[r].mapping_size = 0
          /\ actual \in Nat /\ actual > RegionHeader /\ direct \in BOOLEAN
          /\ direct => a.direct_threshold # 0 /\ n \in Nat \ {0}
          /\ reg2 = WithRegion(a.regions, r, actual, direct)
          /\ first = <<r, RegionHeader>> /\ blk2 = With(a.block, first, Whole(actual))
          /\ u = Remade(a, reg2, blk2, n)
      BY <1>6, <1>19, <2>1, <2>2, <3>1
    <3>3. Heap(u, h, X \cup {first}) /\ first \notin DOMAIN a.block
      BY ONLY <3>2, MapStep
    <3> QED
      BY <3>1, <3>3
  <2>4. /\ u.regions = reg2 /\ u.block = blk2 /\ u.direct_threshold = a.direct_threshold
        /\ u.used = a.used
    BY <1>1, <1>19, RemadeFields
  <2> QED
    BY <2>3, <2>4
<1>20. Required(first, size, alignment) <= whole.span
  <2>1. UserOffset(first, alignment) \in Nat /\ UserOffset(first, alignment) < Header + alignment
    BY <1>9, Offsets
  <2> QED
    BY <1>2, <1>3, <1>6, <1>11, <2>1 DEF Required
<1>21. first \notin DOMAIN h
  BY <1>1, <1>17, <1>19 DEF Held
<1>22. CASE direct
  <2>1. a2 = created
    BY <1>18, <1>22
  <2>2. /\ Heap(a2, h, {first}) /\ a2.block = blk2 /\ a2.direct_threshold = a.direct_threshold
        /\ a2.used = a.used
    BY <1>1, <1>17, <1>19, <2>1
  <2> QED
    BY <1>9, <1>15, <1>20, <1>21, <1>22, <2>2 DEF Created
<1>23. CASE ~direct
  <2>1. PICK u : u = Remade(a, reg2, blk2, next)
    OBVIOUS
  <2>2. a2 = Insert(u, first)
    BY <1>17, <1>18, <1>23, <2>1, NextSizedFields
  <2>3. /\ Heap(u, h, {first}) /\ u.regions = reg2 /\ u.block = blk2
        /\ u.direct_threshold = a.direct_threshold /\ u.used = a.used
    BY <1>19, <2>1
  <2>4. ~reg2[r].direct
    <3>1. RegionsType(a.regions)
      BY HeapFacts DEF Layout
    <3> QED
      BY <1>12, <1>13, <1>23, <3>1 DEF RegionsType
  <2>5. PICK Y : Y = {first}
    OBVIOUS
  <2>6. /\ Heap(u, h, Y) /\ first \in Y /\ u.block[first].requested = 0 /\ ~u.regions[first[1]].direct
        /\ u.block[first].next # Null => ~u.block[u.block[first].next].is_free
        /\ u.block[first].previous # Null => ~u.block[u.block[first].previous].is_free
    BY <1>9, <1>11, <1>15, <2>3, <2>4, <2>5
  <2>7. /\ Heap(Insert(u, first), h, Y \ {first}) /\ Kept(u, Insert(u, first))
        /\ Marked(u.block, Insert(u, first).block, first, TRUE)
    BY ONLY <2>6, InsertStep
  <2>8. Y \ {first} = {}
    BY <2>5
  <2>9. Heap(a2, h, {}) /\ Kept(u, a2) /\ Marked(blk2, a2.block, first, TRUE)
    BY <2>2, <2>3, <2>7, <2>8
  <2>10. first \in DOMAIN a2.block /\ a2.block[first].is_free /\ a2.block[first].span = whole.span
    BY <1>15, <2>9 DEF Marked, SameShape
  <2>11. a2.direct_threshold = a.direct_threshold /\ a2.used = a.used
    BY <2>3, <2>9 DEF Kept
  <2> QED
    BY <1>9, <1>20, <1>21, <1>23, <2>9, <2>10, <2>11 DEF Created
<1> QED
  BY <1>22, <1>23

LEMMA LeastIndex ==
    ASSUME NEW S, S \subseteq Nat, S # {}
    PROVE  /\ (CHOOSE i \in S : \A j \in S : i <= j) \in S
           /\ \A j \in S : (CHOOSE i \in S : \A k \in S : i <= k) <= j
<1>1. PICK R : R = {ss \in Nat \X Nat : ss[1] < ss[2]}
  OBVIOUS
<1>2. IsWellFoundedOn(R, Nat)
  BY <1>1, NatLessThanWellFounded DEF OpToRel
<1>3. PICK i \in S : \A j \in S : ~(<<j, i>> \in R)
  BY <1>2, WFMin
<1>4. \A j \in S : i <= j
  <2>1. ASSUME NEW j \in S, j < i PROVE FALSE
    <3>1. PICK ss : ss = <<j, i>>
      OBVIOUS
    <3>2. ss[1] = j /\ ss[2] = i
      BY <3>1
    <3>3. ss \in Nat \X Nat
      BY <3>1
    <3>4. ss \in R
      BY <1>1, <2>1, <3>2, <3>3
    <3> QED
      BY <1>3, <3>1, <3>4
  <2> QED
    BY <2>1
<1> QED
  BY <1>4

--------------------------------------------------------------------------------
\* The internal functions of the allocator.

\* allocate_internal: with nothing to be had, nothing changes.
Allocated(a, h, size, x) ==
    \/ x = Result(a, Null)
    \/ /\ x.pointer # Null /\ x.pointer \notin DOMAIN h
       /\ Heap(x.arena, With(h, x.pointer, size), {})
       /\ x.arena.direct_threshold = a.direct_threshold /\ x.arena.used = a.used + size

LEMMA AllocateStep ==
    ASSUME NEW a, NEW h, Heap(a, h, {}), NEW size \in Sizes, NEW alignment \in Alignments,
           NEW x \in Allocations(a, size, alignment)
    PROVE  Allocated(a, h, size, x)
<1>1. Layout(a.regions, a.block) /\ Listed(a.block, a.free_blocks) /\ Held(a.block, h, {})
  BY HeapFacts
<1>2. PICK direct \in BOOLEAN : direct = (a.direct_threshold # 0 /\ size >= a.direct_threshold)
  OBVIOUS
<1>3. PICK fitting : fitting = Fitting(a, size, alignment)
  OBVIOUS
<1>4. PICK b : b = a.free_blocks[CHOOSE i \in fitting : \A j \in fitting : i <= j]
  OBVIOUS
<1>5. PICK unused : unused = Regions \ Mapped(a)
  OBVIOUS
<1>6. PICK r : r = CHOOSE i \in unused : \A j \in unused : i <= j
  OBVIOUS
<1>7. PICK first : first = <<r, RegionHeader>>
  OBVIOUS
<1>8. PICK grown : grown = RegionCreate(a, r, size, alignment, direct)
  OBVIOUS
<1>9. x \in (IF ~direct /\ fitting # {}
             THEN {Result(Activate(a, b, size, alignment, TRUE), b)}
             ELSE {Result(a, Null)}
                  \cup (IF unused = {} THEN {}
                        ELSE {Result(Activate(grown, first, size, alignment, ~direct), first)}))
  BY <1>2, <1>3, <1>4, <1>5, <1>6, <1>7, <1>8 DEF Allocations
<1>10. ASSUME NEW u, NEW p, x = Result(u, p), p # Null, p \notin DOMAIN h,
              Heap(u, With(h, p, size), {}), u.direct_threshold = a.direct_threshold,
              u.used = a.used + size
       PROVE  Allocated(a, h, size, x)
  <2>1. x.pointer = p /\ x.arena = u
    BY <1>10 DEF Result
  <2> QED
    BY <1>10, <2>1 DEF Allocated
<1>11. CASE ~direct /\ fitting # {}
  <2>1. PICK k : k = CHOOSE i \in fitting : \A j \in fitting : i <= j
    OBVIOUS
  <2>2. fitting \subseteq DOMAIN a.free_blocks /\ DOMAIN a.free_blocks = 1..Len(a.free_blocks)
        /\ fitting \subseteq Nat
    BY <1>1, <1>3 DEF Fitting, Listed
  <2>3. k \in fitting
    BY <1>11, <2>1, <2>2, LeastIndex
  <2>4. b = a.free_blocks[k]
    BY <1>4, <2>1
  <2>5. b \in DOMAIN a.block /\ Required(b, size, alignment) <= a.block[b].span
    BY <1>3, <2>3, <2>4 DEF Fitting
  <2>6. a.block[b].is_free
    BY <1>1, <2>2, <2>3, <2>4 DEF Listed
  <2>7. b # Null /\ b \notin DOMAIN h
    BY <1>1, <2>5, <2>6, Places DEF Held
  <2>8. PICK u : u = Activate(a, b, size, alignment, TRUE)
    OBVIOUS
  <2>9. Becomes(a, u, With(h, b, size), {}, a.used + size)
    BY <2>5, <2>6, <2>8, ActivateStep
  <2>10. x = Result(u, b)
    BY <1>9, <1>11, <2>8
  <2> QED
    BY <1>10, <2>7, <2>9, <2>10 DEF Becomes
<1>12. CASE ~(~direct /\ fitting # {}) /\ unused # {} /\ x # Result(a, Null)
  <2>1. unused \subseteq Nat
    BY <1>5, Numbers
  <2>2. r \in unused
    BY <1>6, <1>12, <2>1, LeastIndex
  <2>3. r \in Regions /\ a.regions[r].mapping_size = 0
    BY <1>1, <1>5, <2>2 DEF Mapped, Layout, RegionsType
  <2>4. direct => a.direct_threshold # 0
    BY <1>2
  <2>5. /\ Created(grown, h, first, size, alignment, direct)
        /\ grown.direct_threshold = a.direct_threshold /\ grown.used = a.used
    BY <1>7, <1>8, <2>3, <2>4, CreateStep
  <2>6. PICK u : u = Activate(grown, first, size, alignment, ~direct)
    OBVIOUS
  <2>7. x = Result(u, first)
    BY <1>9, <1>12, <2>6
  <2>8. Becomes(grown, u, With(h, first, size), {}, grown.used + size)
    <3>1. CASE direct
      <4>1. u = Activate(grown, first, size, alignment, FALSE)
        BY <2>6, <3>1
      <4>2. Heap(grown, h, {first}) /\ Required(first, size, alignment) <= grown.block[first].span
        BY <2>5, <3>1 DEF Created
      <4> QED
        BY <4>1, <4>2, ActivateDirectStep
    <3>2. CASE ~direct
      <4>1. u = Activate(grown, first, size, alignment, TRUE)
        BY <2>6, <3>2
      <4>2. /\ Heap(grown, h, {}) /\ first \in DOMAIN grown.block /\ grown.block[first].is_free
            /\ Required(first, size, alignment) <= grown.block[first].span
        BY <2>5, <3>2 DEF Created
      <4> QED
        BY <4>1, <4>2, ActivateStep
    <3> QED
      BY <3>1, <3>2
  <2> QED
    BY <1>10, <2>5, <2>7, <2>8 DEF Becomes, Created
<1>13. CASE x = Result(a, Null)
  BY <1>13 DEF Allocated
<1> QED
  BY <1>9, <1>11, <1>12, <1>13

\* release_internal.
LEMMA ReleaseStep ==
    ASSUME NEW a, NEW h, Heap(a, h, {}), NEW b \in DOMAIN h, NEW a2, a2 = Release(a, b)
    PROVE  Heap(a2, Without(h, {b}), {}) /\ a2.used = a.used - h[b]
<1>1. Scalars(a) /\ Held(a.block, h, {}) /\ BlocksType(a.block)
  BY HeapFacts
<1>2. b \in DOMAIN a.block /\ a.block[b].requested = h[b]
  BY <1>1 DEF Held, Served
<1>3. PICK bytes \in Int : bytes = a.used - a.block[b].requested
  BY <1>1, <1>2, BlockTypes DEF Scalars
<1>4. PICK a1 : a1 = With3(a, a.block, a.free_blocks, bytes)
  OBVIOUS
<1>5. [a EXCEPT !.used = bytes] = a1
  BY <1>1, <1>4, UsedFields
<1>6. a2 = IF a.regions[b[1]].direct THEN UnlinkRegion(a1, b[1]) ELSE CoalesceAndInsert(a1, b)
  BY <1>3, <1>5 DEF Release
<1>7. a1.regions = a.regions /\ a1.used = bytes
  BY <1>1, <1>4, Fields
<1>8. PICK g, Y : g = Without(h, {b}) /\ Y = {b}
  OBVIOUS
<1>9. Heap(a, g, Y)
  <2>1. Heap(a, Without(h, {b}), {} \cup {b})
    BY TakeStep
  <2>2. {} \cup {b} = Y
    BY <1>8
  <2> QED
    BY <1>8, <2>1, <2>2
<1>10. Heap(a1, g, Y)
  BY <1>4, <1>9, UsedStep
<1>11. b \in Y /\ Y \ {b} = {}
  BY <1>8
<1>12. Heap(a2, g, Y \ {b}) /\ a2.used = a1.used
  <2>1. CASE a.regions[b[1]].direct
    <3>1. a2 = UnlinkRegion(a1, b[1]) /\ a1.regions[b[1]].direct
      BY <1>6, <1>7, <2>1
    <3> QED
      BY <1>10, <1>11, <3>1, UnlinkStep
  <2>2. CASE ~a.regions[b[1]].direct
    <3>1. a2 = CoalesceAndInsert(a1, b) /\ ~a1.regions[b[1]].direct
      BY <1>6, <1>7, <2>2
    <3> QED
      BY <1>10, <1>11, <3>1, CoalesceStep DEF Kept
  <2> QED
    BY <2>1, <2>2
<1> QED
  BY <1>2, <1>3, <1>7, <1>8, <1>11, <1>12

\* A block in hand, with the room it needs, is given a new size.
LEMMA ResizedStep ==
    ASSUME NEW a, NEW h, NEW X, Heap(a, h, X), NEW b \in X,
           NEW size \in Sizes, NEW alignment \in Alignments, NEW bytes \in Int,
           a.block[b].alignment = alignment, a.block[b].user_offset = UserOffset(b, alignment),
           Required(b, size, alignment) <= a.block[b].span,
           NEW a2, a2 = Resized(a, b, size, bytes)
    PROVE  Becomes(a, a2, With(h, b, size), X \ {b}, bytes)
<1>1. Scalars(a) /\ Layout(a.regions, a.block) /\ BlocksType(a.block) /\ Held(a.block, h, X)
  BY HeapFacts
<1>2. b \in DOMAIN a.block
  BY <1>1 DEF Held
<1>3. b \in Addresses
  BY <1>1, <1>2, Places
<1>4. UserOffset(b, alignment) \in Nat /\ size \in Nat /\ alignment \in Nat
  BY <1>3, Numbers, Offsets
<1>5. PICK offset \in Nat : offset = UserOffset(b, alignment)
  BY <1>4
<1>6. PICK blk2 : blk2 = Rerequested(a.block, b, size)
  OBVIOUS
<1>7. Edited(a.block, blk2, b, size, offset, alignment)
  <2>1. Edited(a.block, [a.block EXCEPT ![b].requested = size], b, size, a.block[b].user_offset, a.block[b].alignment)
    BY <1>1, <1>2, <1>4, Editing
  <2> QED
    BY <1>5, <1>6, <2>1 DEF Rerequested
<1>8. a2 = With3(a, blk2, a.free_blocks, bytes)
  BY <1>1, <1>6, ResizeFields
<1>9. Heap(a2, h, X)
  BY <1>7, <1>8, EditStep
<1>10. /\ a2.block = blk2 /\ a2.regions = a.regions /\ a2.direct_threshold = a.direct_threshold
       /\ a2.used = bytes
  BY <1>1, <1>8, Fields
<1>11. /\ a2.block[b].requested = size /\ a2.block[b].alignment = alignment
       /\ a2.block[b].user_offset = UserOffset(b, alignment)
       /\ a2.block[b].span = a.block[b].span
  BY <1>2, <1>5, <1>7, <1>10 DEF Edited, SameShape
<1>12. UserOffset(b, alignment) + size <= a2.block[b].span
  BY <1>11 DEF Required
<1>13. Heap(a2, With(h, b, size), X \ {b})
  BY <1>9, <1>11, <1>12, GiveStep
<1> QED
  BY <1>10, <1>13 DEF Becomes

\* What is known of a block the program holds, when it is taken in hand.
InUse(a, h, b) ==
    /\ b \in DOMAIN a.block /\ ~a.block[b].is_free /\ b \in Addresses /\ b[1] \in Regions
    /\ a.block[b].requested \in Nat /\ a.block[b].requested = h[b] /\ h[b] \in Nat
    /\ a.block[b].span \in Nat \ {0}
    /\ a.block[b].alignment \in Alignments
    /\ a.block[b].user_offset = UserOffset(b, a.block[b].alignment)
    /\ a.block[b].user_offset \in Nat /\ a.used \in Int

LEMMA Taken ==
    ASSUME NEW a, NEW h, Heap(a, h, {}), NEW b \in DOMAIN h
    PROVE  Heap(a, Without(h, {b}), {b}) /\ InUse(a, h, b)
<1>1. Heap(a, Without(h, {b}), {} \cup {b})
  BY TakeStep
<1>2. {} \cup {b} = {b}
  OBVIOUS
<1>3. Held(a.block, h, {}) /\ Layout(a.regions, a.block) /\ BlocksType(a.block) /\ a.used \in Int
  BY HeapFacts
<1>4. b \in DOMAIN a.block /\ ~a.block[b].is_free /\ Served(a.block, h, b)
  BY <1>3 DEF Held
<1>5. b \in Addresses /\ b[1] \in Regions /\ a.block[b].requested \in Nat /\ a.block[b].span \in Nat \ {0}
  BY <1>3, <1>4, BlockTypes
<1>6. /\ a.block[b].alignment \in Alignments /\ a.block[b].user_offset = UserOffset(b, a.block[b].alignment)
      /\ a.block[b].requested = h[b]
  BY <1>4 DEF Served
<1>7. UserOffset(b, a.block[b].alignment) \in Nat
  BY <1>5, <1>6, Offsets
<1>8. InUse(a, h, b)
  BY <1>3, <1>4, <1>5, <1>6, <1>7 DEF InUse
<1> QED
  BY <1>1, <1>2, <1>8

\* reallocate_internal in place.
LEMMA ResizeStep ==
    ASSUME NEW a, NEW h, Heap(a, h, {}), NEW b \in DOMAIN h, ~a.regions[b[1]].direct,
           NEW size \in Sizes, size <= a.block[b].span - a.block[b].user_offset,
           NEW a2, a2 = Resize(a, b, size)
    PROVE  Heap(a2, With(Without(h, {b}), b, size), {}) /\ a2.used = a.used - h[b] + size
<1>0. InUse(a, h, b)
  BY Taken
<1>1. PICK g, Y : g = Without(h, {b}) /\ Y = {b}
  OBVIOUS
<1>2. Heap(a, g, Y)
  BY <1>1, Taken
<1>3. PICK alignment \in Alignments : alignment = a.block[b].alignment
  BY <1>0 DEF InUse
<1>4. /\ b \in DOMAIN a.block /\ b \in Addresses /\ ~a.block[b].is_free
      /\ a.block[b].requested \in Nat /\ a.block[b].requested = h[b]
      /\ a.block[b].user_offset = UserOffset(b, alignment) /\ a.block[b].user_offset \in Nat
      /\ a.block[b].span \in Nat \ {0} /\ a.used \in Int
  BY <1>0, <1>3 DEF InUse
<1>5. PICK s \in Nat \ {0} : s = Required(b, size, alignment)
  BY <1>4, Requirement
<1>6. s <= a.block[b].span /\ size \in Nat
  BY <1>4, <1>5, Numbers DEF Required
<1>7. PICK a1 : a1 = IF size < a.block[b].requested /\ a.block[b].span - s >= MinimumFreeSpan
                     THEN CoalesceAndInsert(Split(a, b, s), RestOf(b, s)) ELSE a
  OBVIOUS
<1>8. /\ Heap(a1, g, Y) /\ a1.used = a.used /\ s <= a1.block[b].span
      /\ a1.block[b].alignment = alignment /\ a1.block[b].user_offset = UserOffset(b, alignment)
  <2>1. CASE size < a.block[b].requested /\ a.block[b].span - s >= MinimumFreeSpan
    <3>1. s < a.block[b].span
      <4>1. MinimumFreeSpan \in Nat \ {0}
        BY Numbers
      <4> QED
        BY <1>4, <2>1, <4>1
    <3>2. PICK t, u : t = RestOf(b, s) /\ u = Split(a, b, s)
      OBVIOUS
    <3>3. b \in Y
      BY <1>1
    <3>4. Heap(u, g, Y \cup {t}) /\ Kept(a, u) /\ Parted(a.block, u.block, b, t, s)
      BY <1>2, <3>1, <3>2, <3>3, SplitStep
    <3>5. t # b /\ t[1] = b[1]
      BY <1>2, <1>4, <3>1, <3>2, HeapFacts, PartIsNew
    <3>6. PICK Z : Z = Y \cup {t}
      OBVIOUS
    <3>7. Heap(u, g, Z) /\ t \in Z /\ ~u.regions[t[1]].direct
      BY <3>4, <3>5, <3>6 DEF Kept
    <3>8. a1 = CoalesceAndInsert(u, t)
      BY <1>7, <2>1, <3>2
    <3>9. /\ Heap(CoalesceAndInsert(u, t), g, Z \ {t}) /\ Kept(u, CoalesceAndInsert(u, t))
          /\ \A d \in DOMAIN u.block : d # t /\ ~u.block[d].is_free
                  => Survives(u.block, CoalesceAndInsert(u, t).block, d)
      BY ONLY <3>7, CoalesceStep
    <3>10. Z \ {t} = Y
      BY <1>1, <3>5, <3>6
    <3>11. /\ b \in DOMAIN u.block /\ ~u.block[b].is_free /\ u.block[b].span = s
           /\ u.block[b].alignment = alignment /\ u.block[b].user_offset = UserOffset(b, alignment)
      BY <1>3, <1>4, <3>4 DEF Parted
    <3>12. Survives(u.block, a1.block, b)
      BY <3>5, <3>8, <3>9, <3>11
    <3>13. Heap(a1, g, Y) /\ a1.used = a.used
      BY <3>4, <3>8, <3>9, <3>10 DEF Kept
    <3> QED
      BY <3>11, <3>12, <3>13 DEF Survives
  <2>2. CASE ~(size < a.block[b].requested /\ a.block[b].span - s >= MinimumFreeSpan)
    BY <1>2, <1>3, <1>4, <1>6, <1>7, <2>2
  <2> QED
    BY <2>1, <2>2
<1>9. PICK bytes \in Int : bytes = a.used - a.block[b].requested + size
  BY <1>4, <1>6
<1>10. a2 = Resized(a1, b, size, bytes)
  <2>1. a2 = [a1 EXCEPT !.used = a1.used - a.block[b].requested + size, !.block[b].requested = size]
    BY <1>3, <1>5, <1>7 DEF Resize
  <2> QED
    BY <1>8, <1>9, <2>1 DEF Resized
<1>11. b \in Y /\ Y \ {b} = {}
  BY <1>1
<1>12. Becomes(a1, a2, With(g, b, size), Y \ {b}, bytes)
  BY <1>5, <1>8, <1>10, <1>11, ResizedStep
<1> QED
  BY <1>1, <1>4, <1>9, <1>11, <1>12 DEF Becomes

LEMMA ExtendStep ==
    ASSUME NEW a, NEW h, Heap(a, h, {}), NEW b \in DOMAIN h,
           NEW size \in Sizes, CanExtend(a, b, size),
           NEW a2, a2 = Extend(a, b, size)
    PROVE  Heap(a2, With(Without(h, {b}), b, size), {}) /\ a2.used = a.used - h[b] + size
<1>0. InUse(a, h, b)
  BY Taken
<1>1. PICK g, Y : g = Without(h, {b}) /\ Y = {b}
  OBVIOUS
<1>2. Heap(a, g, Y)
  BY <1>1, Taken
<1>3. PICK alignment \in Alignments : alignment = a.block[b].alignment
  BY <1>0 DEF InUse
<1>4. /\ b \in DOMAIN a.block /\ ~a.block[b].is_free
      /\ a.block[b].requested \in Nat /\ a.block[b].requested = h[b]
      /\ a.block[b].user_offset = UserOffset(b, alignment) /\ a.used \in Int
  BY <1>0, <1>3 DEF InUse
<1>5. PICK n : n = a.block[b].next
  OBVIOUS
<1>6. n # Null /\ a.block[n].is_free /\ a.block[b].span + a.block[n].span >= Required(b, size, alignment)
  BY <1>3, <1>5 DEF CanExtend
<1>7. PICK a1 : a1 = Absorb(Unlist(a, n), b)
  OBVIOUS
<1>8. Forwarded(a, a1, g, Y, b, n)
  BY <1>2, <1>4, <1>5, <1>6, <1>7, ForwardStep
<1>9. /\ Heap(a1, g, Y) /\ a1.used = a.used /\ a1.block[b].span = a.block[b].span + a.block[n].span
      /\ a1.block[b].requested = a.block[b].requested
      /\ a1.block[b].alignment = alignment /\ a1.block[b].user_offset = UserOffset(b, alignment)
  BY <1>3, <1>4, <1>8 DEF Forwarded, Kept
<1>10. Required(b, size, alignment) <= a1.block[b].span
  <2>1. n \in DOMAIN a.block /\ b \in Addresses
    BY <1>0, <1>8 DEF Forwarded, InUse
  <2>2. a.block[n].span \in Nat /\ a.block[b].span \in Nat /\ Required(b, size, alignment) \in Nat
    BY <1>4, <2>1, HeapFacts, BlockTypes, Requirement
  <2> QED
    BY <1>6, <1>9, <2>2
<1>11. PICK bytes \in Int : bytes = a.used + size - a.block[b].requested /\ bytes = a.used - h[b] + size
  BY <1>4, Numbers
<1>12. a2 = Resized(a1, b, size, bytes)
  <2>1. a2 = [a1 EXCEPT !.used = a1.used + size - a.block[b].requested, !.block[b].requested = size]
    BY <1>5, <1>7, <1>9 DEF Extend
  <2> QED
    BY <1>9, <1>11, <2>1 DEF Resized
<1>13. b \in Y /\ Y \ {b} = {}
  BY <1>1
<1>14. Becomes(a1, a2, With(g, b, size), Y \ {b}, bytes)
  BY <1>9, <1>10, <1>12, <1>13, ResizedStep
<1> QED
  BY <1>1, <1>11, <1>13, <1>14 DEF Becomes

\* reallocate_internal, in an arena without direct mappings.
Reallocated(a, h, b, size, x) ==
    \/ x = Result(a, Null)
    \/ /\ x.pointer # Null /\ x.pointer \notin DOMAIN Without(h, {b})
       /\ Heap(x.arena, With(Without(h, {b}), x.pointer, size), {})
       /\ x.arena.used = a.used - h[b] + size

LEMMA ReallocateStep ==
    ASSUME NEW a, NEW h, Heap(a, h, {}), a.direct_threshold = 0, NEW b \in DOMAIN h,
           NEW size \in Sizes, NEW x \in Reallocations(a, b, size)
    PROVE  Reallocated(a, h, b, size, x)
<1>0. InUse(a, h, b)
  BY Taken
<1>1. PICK alignment \in Alignments : alignment = a.block[b].alignment
  BY <1>0 DEF InUse
<1>2. /\ b # Null /\ b \in Addresses /\ b[1] \in Regions /\ a.block[b].span \in Nat /\ a.block[b].user_offset \in Nat
      /\ b \in DOMAIN a.block
  BY <1>0, Pairs DEF InUse
<1>3. ~a.regions[b[1]].direct
  BY <1>2, HeapFacts DEF Direct
<1>7. DOMAIN Without(h, {b}) = DOMAIN h \ {b} /\ h[b] \in Nat /\ a.used \in Int /\ size \in Nat
  <2>1. DOMAIN Without(h, {b}) = DOMAIN h \ {b}
    BY DEF Without, Restrict
  <2>2. a.block[b].requested \in Nat /\ a.block[b].requested = h[b] /\ a.used \in Int
    BY <1>0 DEF InUse
  <2> QED
    BY <2>1, <2>2, Numbers
<1>4. CASE size <= a.block[b].span - a.block[b].user_offset
  <2>1. PICK u : u = Resize(a, b, size)
    OBVIOUS
  <2>2. Heap(u, With(Without(h, {b}), b, size), {}) /\ u.used = a.used - h[b] + size
    BY <1>3, <1>4, <2>1, ResizeStep
  <2>3. x = Result(u, b)
    BY <1>4, <2>1 DEF Reallocations
  <2>4. x.pointer = b /\ x.arena = u
    BY <2>3 DEF Result
  <2> QED
    BY <1>2, <1>7, <2>2, <2>4 DEF Reallocated
<1>5. CASE ~(size <= a.block[b].span - a.block[b].user_offset) /\ CanExtend(a, b, size)
  <2>1. PICK u : u = Extend(a, b, size)
    OBVIOUS
  <2>2. Heap(u, With(Without(h, {b}), b, size), {}) /\ u.used = a.used - h[b] + size
    BY <1>5, <2>1, ExtendStep
  <2>3. x = Result(u, b)
    BY <1>5, <2>1 DEF Reallocations
  <2>4. x.pointer = b /\ x.arena = u
    BY <2>3 DEF Result
  <2> QED
    BY <1>2, <1>7, <2>2, <2>4 DEF Reallocated
<1>6. CASE ~(size <= a.block[b].span - a.block[b].user_offset) /\ ~CanExtend(a, b, size)
  <2>1. PICK y \in Allocations(a, size, alignment) :
            x = IF y.pointer = Null THEN y ELSE Result(Release(y.arena, b), y.pointer)
    BY <1>1, <1>6 DEF Reallocations
  <2>2. Allocated(a, h, size, y)
    BY AllocateStep
  <2>3. CASE y.pointer = Null
    BY <2>1, <2>2, <2>3 DEF Allocated, Reallocated
  <2>4. CASE y.pointer # Null
    <3>1. y # Result(a, Null)
      BY <2>4 DEF Result
    <3>2. PICK q, u : q = y.pointer /\ u = y.arena
      OBVIOUS
    <3>3. q # Null /\ q \notin DOMAIN h /\ Heap(u, With(h, q, size), {}) /\ u.used = a.used + size
      BY <2>2, <3>1, <3>2 DEF Allocated
    <3>4. PICK g : g = With(h, q, size)
      OBVIOUS
    <3>5. b \in DOMAIN g /\ g[b] = h[b]
      BY <3>3, <3>4 DEF With
    <3>6. PICK v : v = Release(u, b)
      OBVIOUS
    <3>7. Heap(v, Without(g, {b}), {}) /\ v.used = u.used - g[b]
      BY <3>3, <3>4, <3>5, <3>6, ReleaseStep
    <3>8. Without(g, {b}) = With(Without(h, {b}), q, size)
      <4>1. q # b
        BY <3>3
      <4>2. DOMAIN g = DOMAIN h \cup {q} /\ g[q] = size /\ \A c \in DOMAIN h : g[c] = h[c]
        BY <3>3, <3>4 DEF With
      <4>3. (DOMAIN h \cup {q}) \ {b} = (DOMAIN h \ {b}) \cup {q}
        BY <4>1
      <4>4. Without(g, {b}) = [c \in (DOMAIN h \ {b}) \cup {q} |-> g[c]]
        BY <4>2, <4>3 DEF Without, Restrict
      <4>5. PICK k : k = Without(h, {b})
        OBVIOUS
      <4>6. DOMAIN k = DOMAIN h \ {b} /\ \A c \in DOMAIN k : k[c] = h[c]
        BY <4>5 DEF Without, Restrict
      <4>7. With(k, q, size) = [c \in (DOMAIN h \ {b}) \cup {q} |-> IF c = q THEN size ELSE k[c]]
        BY <4>6 DEF With
      <4>8. \A c \in (DOMAIN h \ {b}) \cup {q} : g[c] = IF c = q THEN size ELSE k[c]
        BY <4>2, <4>6
      <4> QED
        BY <4>4, <4>5, <4>7, <4>8
    <3>9. x = Result(v, q)
      BY <2>1, <2>4, <3>2, <3>6
    <3>10. x.pointer = q /\ x.arena = v
      BY <3>9 DEF Result
    <3> QED
      <4>1. v.used = a.used - h[b] + size
        BY <1>7, <3>3, <3>5, <3>7
      <4> QED
        BY <1>7, <3>3, <3>7, <3>8, <3>10, <4>1 DEF Reallocated
  <2> QED
    BY <2>3, <2>4
<1> QED
  BY <1>4, <1>5, <1>6

\* initialize_state.
LEMMA EmptyHeap == ASSUME NEW a \in EmptyArenas PROVE Heap(a, <<>>, {})
<1>1. PICK size \in RegionSizes, threshold \in Thresholds : a = Empty(size, threshold)
  BY DEF EmptyArenas
<1>2. size \in Nat \ {0} /\ threshold \in Nat
  BY Numbers
<1>3. PICK h : h = <<>>
  OBVIOUS
<1>4. DOMAIN h = {} /\ h = [b \in DOMAIN h |-> h[b]] /\ h \in Seq(Addresses) /\ Len(h) = 0
  BY <1>3
<1>5. /\ a.regions = [r \in Regions |-> Unmapped] /\ a.block = h /\ a.free_blocks = h
      /\ a.direct_threshold = threshold
  BY <1>1, <1>3 DEF Empty
<1>6. Scalars(a)
  BY <1>1, <1>2 DEF Empty, Scalars, With3, Made
<1>7. RegionsType(a.regions)
  BY <1>5 DEF RegionsType, Unmapped
<1>8. \A r \in Regions : a.regions[r].mapping_size = 0 /\ ~a.regions[r].direct
  BY <1>5 DEF Unmapped
<1>9. BlocksType(a.block)
  BY <1>4, <1>5, FS_EmptySet DEF BlocksType
<1>10. Tiled(a.regions, a.block)
  BY <1>4, <1>5, <1>8 DEF Tiled
<1>11. Direct(a.regions, a.block, a.direct_threshold) /\ Coalesced(a.block)
  BY <1>4, <1>5, <1>8 DEF Direct, Coalesced
<1>12. Listed(a.block, a.free_blocks)
  BY <1>4, <1>5 DEF Listed
<1>13. Held(a.block, h, {})
  BY <1>4, <1>5 DEF Held
<1> QED
  BY <1>3, <1>6, <1>7, <1>9, <1>10, <1>11, <1>12, <1>13 DEF Heap, Layout

--------------------------------------------------------------------------------
\* The memory the program holds, summed.  SumFunction folds in an order nobody
\* knows, so the sum is counted: one unit at a time.

\* The function SumFunctionOnSet folds with.
Folded(f, S, iter) ==
    iter = [s \in SUBSET S |-> IF s = {} THEN 0
                               ELSE f[CHOOSE x \in s : TRUE] + iter[s \ {CHOOSE x \in s : TRUE}]]

LEMMA SumUnfold ==
    ASSUME NEW f, NEW S
    PROVE  SumFunctionOnSet(f, S) = (CHOOSE iter : Folded(f, S, iter))[S]
  BY DEF SumFunctionOnSet, FoldFunctionOnSet, MapThenFoldSet, Folded

\* Whatever holds of a set when it holds of all that are smaller holds of every one.
LEMMA SmallerFirst ==
    ASSUME NEW S, IsFiniteSet(S), NEW P,
           \A s \in SUBSET S : (\A t \in SUBSET s : t # s => t \in P) => s \in P
    PROVE  S \in P
<1>1. SUFFICES ASSUME S \notin P PROVE FALSE
  OBVIOUS
<1>2. PICK bad : bad = {s \in SUBSET S : s \notin P}
  OBVIOUS
<1>3. \A s \in bad : IsFiniteSet(s) /\ Cardinality(s) \in Nat
  BY <1>2, FS_Subset, FS_CardinalityType
<1>4. PICK sizes : sizes = {Cardinality(s) : s \in bad}
  OBVIOUS
<1>5. sizes \subseteq Nat /\ sizes # {}
  BY <1>1, <1>2, <1>3, <1>4
<1>6. PICK least : least = CHOOSE i \in sizes : \A j \in sizes : i <= j
  OBVIOUS
<1>7. least \in sizes /\ \A j \in sizes : least <= j
  BY <1>5, <1>6, LeastIndex
<1>8. PICK s \in bad : Cardinality(s) = least
  BY <1>4, <1>7
<1>9. ASSUME NEW t \in SUBSET s, t # s PROVE t \in P
  <2>1. IsFiniteSet(s) /\ Cardinality(s) \in Nat /\ t \in SUBSET S
    BY <1>2, <1>3, <1>8
  <2>2. IsFiniteSet(t) /\ Cardinality(t) \in Nat /\ Cardinality(t) < Cardinality(s)
    BY <1>9, <2>1, FS_Subset, FS_CardinalityType
  <2>3. Cardinality(t) \notin sizes
    BY <1>7, <1>8, <2>1, <2>2
  <2> QED
    BY <1>2, <1>4, <2>1, <2>3
<1> QED
  BY <1>2, <1>8, <1>9

\* The units a set of blocks accounts for, one by one.
Units(f, s) == {u \in s \X Nat : u[2] < f[u[1]]}

LEMMA UnitsOfOne ==
    ASSUME NEW x, NEW n \in Nat
    PROVE  LET column == {u \in {x} \X Nat : u[2] < n}
           IN  IsFiniteSet(column) /\ Cardinality(column) = n
<1>1. PICK column : column = {u \in {x} \X Nat : u[2] < n}
  OBVIOUS
<1>2. PICK g : g = [i \in 0..(n - 1) |-> <<x, i>>]
  OBVIOUS
<1>3. ASSUME NEW i \in 0..(n - 1) PROVE g[i] \in column /\ g[i][2] = i
  <2>1. PICK u : u = <<x, i>>
    OBVIOUS
  <2>2. u \in {x} \X Nat /\ u[2] = i /\ i < n
    BY <2>1
  <2> QED
    BY <1>1, <1>2, <2>1, <2>2
<1>4. ASSUME NEW u \in column PROVE \E i \in 0..(n - 1) : g[i] = u
  <2>1. u \in {x} \X Nat /\ u[2] < n
    BY <1>1
  <2>2. u = <<x, u[2]>> /\ u[2] \in 0..(n - 1)
    BY <2>1
  <2> QED
    BY <1>2, <2>2
<1>5. g \in [0..(n - 1) -> column]
  BY <1>2, <1>3
<1>6. \A i, j \in 0..(n - 1) : g[i] = g[j] => i = j
  BY <1>3
<1>7. ExistsBijection(0..(n - 1), column)
  BY <1>4, <1>5, <1>6 DEF ExistsBijection, Bijection, Injection, IsInjective, Surjection
<1>8. IsFiniteSet(0..(n - 1)) /\ Cardinality(0..(n - 1)) = n
  <2>1. 0 \in Int /\ n - 1 \in Int
    OBVIOUS
  <2>2. /\ IsFiniteSet(0..(n - 1))
        /\ Cardinality(0..(n - 1)) = IF 0 > n - 1 THEN 0 ELSE (n - 1) - 0 + 1
    BY <2>1, FS_Interval
  <2> QED
    BY <2>2
<1>9. IsFiniteSet(column) /\ Cardinality(column) = n
  BY <1>7, <1>8, FS_Bijection
<1> QED
  BY <1>1, <1>9

LEMMA UnitsAdd ==
    ASSUME NEW f, NEW s, IsFiniteSet(Units(f, s)), NEW x, x \notin s, f[x] \in Nat
    PROVE  /\ IsFiniteSet(Units(f, s \cup {x}))
           /\ Cardinality(Units(f, s \cup {x})) = Cardinality(Units(f, s)) + f[x]
<1>1. PICK n \in Nat : n = f[x]
  OBVIOUS
<1>2. PICK column : column = {u \in {x} \X Nat : u[2] < n}
  OBVIOUS
<1>3. IsFiniteSet(column) /\ Cardinality(column) = n
  BY <1>2, UnitsOfOne
<1>4. PICK old : old = Units(f, s)
  OBVIOUS
<1>5. Units(f, s \cup {x}) = old \cup column
  <2>1. ASSUME NEW u \in Units(f, s \cup {x}) PROVE u \in old \cup column
    BY <1>1, <1>2, <1>4, <2>1 DEF Units
  <2>2. ASSUME NEW u \in old \cup column PROVE u \in Units(f, s \cup {x})
    BY <1>1, <1>2, <1>4, <2>2 DEF Units
  <2> QED
    BY <2>1, <2>2
<1>6. old \cap column = {}
  BY <1>2, <1>4 DEF Units
<1>7. Cardinality({}) = 0
  BY FS_EmptySet
<1>8. /\ IsFiniteSet(old \cup column)
      /\ Cardinality(old \cup column) = Cardinality(old) + Cardinality(column) - Cardinality(old \cap column)
  BY <1>3, <1>4, FS_Union
<1>9. Cardinality(old) \in Nat
  BY <1>4, FS_CardinalityType
<1>10. Cardinality(old \cap column) = 0
  BY <1>6, <1>7
<1>11. Cardinality(old \cup column) = Cardinality(old) + n
  BY <1>3, <1>8, <1>9, <1>10
<1> QED
  BY <1>1, <1>4, <1>5, <1>8, <1>11

LEMMA UnitsOfNone == ASSUME NEW f PROVE Units(f, {}) = {} /\ Cardinality(Units(f, {})) = 0 /\ IsFiniteSet(Units(f, {}))
<1>1. Units(f, {}) = {}
  BY DEF Units
<1> QED
  BY <1>1, FS_EmptySet

LEMMA UnitsAreFinite ==
    ASSUME NEW f, NEW S, IsFiniteSet(S), \A x \in S : f[x] \in Nat
    PROVE  /\ \A s \in SUBSET S : IsFiniteSet(Units(f, s)) /\ Cardinality(Units(f, s)) \in Nat
<1>1. ASSUME NEW U \in SUBSET S PROVE IsFiniteSet(Units(f, U))
  <2>1. PICK P : P = {s \in SUBSET U : IsFiniteSet(Units(f, s))}
    OBVIOUS
  <2>2. IsFiniteSet(U)
    BY FS_Subset
  <2>3. ASSUME NEW s \in SUBSET U, \A t \in SUBSET s : t # s => t \in P PROVE s \in P
    <3>1. CASE s = {}
      BY <2>1, <3>1, UnitsOfNone
    <3>2. CASE s # {}
      <4>1. PICK x \in s : TRUE
        BY <3>2
      <4>2. PICK t : t = s \ {x}
        OBVIOUS
      <4>3. t \in P /\ s = t \cup {x} /\ x \notin t
        BY <2>3, <4>1, <4>2
      <4>4. IsFiniteSet(Units(f, t)) /\ f[x] \in Nat
        BY <2>1, <4>1, <4>3
      <4>5. IsFiniteSet(Units(f, t \cup {x}))
        BY <4>3, <4>4, UnitsAdd
      <4> QED
        BY <2>1, <4>3, <4>5
    <3> QED
      BY <3>1, <3>2
  <2>4. U \in P
    BY <2>2, <2>3, SmallerFirst
  <2> QED
    BY <2>1, <2>4
<1> QED
  BY <1>1, FS_CardinalityType

LEMMA SumIsUnits ==
    ASSUME NEW f, NEW S, IsFiniteSet(S), \A x \in S : f[x] \in Nat
    PROVE  SumFunctionOnSet(f, S) = Cardinality(Units(f, S))
<1>1. ASSUME NEW s \in SUBSET S, s # {}, NEW x, x = CHOOSE y \in s : TRUE
      PROVE  /\ x \in s /\ s \ {x} \in SUBSET S /\ s \ {x} # s
             /\ Cardinality(Units(f, s)) = f[x] + Cardinality(Units(f, s \ {x}))
  <2>1. x \in s
    BY <1>1
  <2>2. PICK t : t = s \ {x}
    OBVIOUS
  <2>3. s = t \cup {x} /\ x \notin t /\ t \in SUBSET S /\ f[x] \in Nat
    BY <2>1, <2>2
  <2>4. IsFiniteSet(Units(f, t)) /\ Cardinality(Units(f, t)) \in Nat
    BY <2>3, UnitsAreFinite
  <2>5. Cardinality(Units(f, t \cup {x})) = Cardinality(Units(f, t)) + f[x]
    BY <2>3, <2>4, UnitsAdd
  <2>6. Cardinality(Units(f, s)) = f[x] + Cardinality(Units(f, t))
    BY <2>3, <2>4, <2>5
  <2>7. t \in SUBSET S /\ t # s
    BY <2>1, <2>2, <2>3
  <2> QED
    BY <2>1, <2>2, <2>6, <2>7
<1>2. PICK it : it = [s \in SUBSET S |-> Cardinality(Units(f, s))]
  OBVIOUS
<1>3. Folded(f, S, it)
  <2>1. PICK rhs : rhs = [s \in SUBSET S |-> IF s = {} THEN 0
                               ELSE f[CHOOSE x \in s : TRUE] + it[s \ {CHOOSE x \in s : TRUE}]]
    OBVIOUS
  <2>2. ASSUME NEW s \in SUBSET S PROVE it[s] = rhs[s]
    <3>1. CASE s = {}
      BY <1>2, <2>1, <3>1, UnitsOfNone
    <3>2. CASE s # {}
      <4>1. PICK x : x = CHOOSE y \in s : TRUE
        OBVIOUS
      <4>2. /\ s \ {x} \in SUBSET S
            /\ Cardinality(Units(f, s)) = f[x] + Cardinality(Units(f, s \ {x}))
        BY <1>1, <3>2, <4>1
      <4>3. rhs[s] = f[x] + it[s \ {x}]
        BY <2>1, <3>2, <4>1
      <4> QED
        BY <1>2, <4>2, <4>3
    <3> QED
      BY <3>1, <3>2
  <2>3. it = rhs
    BY <1>2, <2>1, <2>2
  <2> QED
    BY <2>1, <2>3 DEF Folded
<1>4. PICK iter : iter = CHOOSE i : Folded(f, S, i)
  OBVIOUS
<1>5. Folded(f, S, iter)
  BY <1>3, <1>4
<1>6. PICK P : P = {s \in SUBSET S : iter[s] = Cardinality(Units(f, s))}
  OBVIOUS
<1>7. ASSUME NEW s \in SUBSET S, \A t \in SUBSET s : t # s => t \in P PROVE s \in P
  <2>1. iter[s] = IF s = {} THEN 0 ELSE f[CHOOSE x \in s : TRUE] + iter[s \ {CHOOSE x \in s : TRUE}]
    BY <1>5 DEF Folded
  <2>2. CASE s = {}
    BY <1>6, <2>1, <2>2, UnitsOfNone
  <2>3. CASE s # {}
    <3>1. PICK x : x = CHOOSE y \in s : TRUE
      OBVIOUS
    <3>2. /\ x \in s /\ s \ {x} \in SUBSET S /\ s \ {x} # s
          /\ Cardinality(Units(f, s)) = f[x] + Cardinality(Units(f, s \ {x}))
      BY <1>1, <2>3, <3>1
    <3>3. s \ {x} \in P
      BY <1>7, <3>2
    <3>4. iter[s] = f[x] + iter[s \ {x}]
      BY <2>1, <2>3, <3>1
    <3> QED
      BY <1>6, <3>2, <3>3, <3>4
  <2> QED
    BY <2>2, <2>3
<1>8. S \in P
  BY <1>7, SmallerFirst
<1>9. SumFunctionOnSet(f, S) = iter[S]
  BY <1>4, SumUnfold
<1> QED
  BY <1>6, <1>8, <1>9

\* What becomes of the sum when a block is given or handed back.
Sizing(h) == IsFiniteSet(DOMAIN h) /\ \A b \in DOMAIN h : h[b] \in Nat

LEMMA SumType == ASSUME NEW h, Sizing(h) PROVE SumFunction(h) \in Nat
<1>1. PICK S : S = DOMAIN h
  OBVIOUS
<1>2. SumFunctionOnSet(h, S) = Cardinality(Units(h, S)) /\ Cardinality(Units(h, S)) \in Nat
  BY <1>1, SumIsUnits, UnitsAreFinite DEF Sizing
<1> QED
  BY <1>1, <1>2 DEF SumFunction

LEMMA SumOfMore ==
    ASSUME NEW h, Sizing(h), NEW g, NEW c, c \notin DOMAIN h, DOMAIN g = DOMAIN h \cup {c}, g[c] \in Nat,
           \A b \in DOMAIN h : g[b] = h[b]
    PROVE  Sizing(g) /\ SumFunction(g) = SumFunction(h) + g[c]
<1>1. PICK S : S = DOMAIN h
  OBVIOUS
<1>2. IsFiniteSet(S) /\ c \notin S /\ DOMAIN g = S \cup {c} /\ \A b \in S : h[b] \in Nat /\ g[b] = h[b]
  BY <1>1 DEF Sizing
<1>3. IsFiniteSet(S \cup {c}) /\ \A b \in S \cup {c} : g[b] \in Nat
  BY <1>2, FS_AddElement
<1>4. Sizing(g)
  BY <1>2, <1>3 DEF Sizing
<1>5. Units(g, S) = Units(h, S)
  BY <1>2 DEF Units
<1>6. IsFiniteSet(Units(g, S)) /\ Cardinality(Units(g, S)) \in Nat
  BY <1>2, <1>5, UnitsAreFinite
<1>7. Cardinality(Units(g, S \cup {c})) = Cardinality(Units(g, S)) + g[c]
  BY <1>2, <1>6, UnitsAdd
<1>8. SumFunctionOnSet(g, S \cup {c}) = Cardinality(Units(g, S \cup {c}))
  BY <1>3, SumIsUnits
<1>9. SumFunctionOnSet(h, S) = Cardinality(Units(h, S))
  BY <1>2, SumIsUnits
<1>10. SumFunction(g) = SumFunctionOnSet(g, S \cup {c}) /\ SumFunction(h) = SumFunctionOnSet(h, S)
  BY <1>1, <1>2 DEF SumFunction
<1> QED
  BY <1>4, <1>5, <1>7, <1>8, <1>9, <1>10

LEMMA SumWith ==
    ASSUME NEW h, Sizing(h), NEW c, c \notin DOMAIN h, NEW size \in Nat
    PROVE  Sizing(With(h, c, size)) /\ SumFunction(With(h, c, size)) = SumFunction(h) + size
<1>1. PICK g : g = With(h, c, size)
  OBVIOUS
<1>2. DOMAIN g = DOMAIN h \cup {c} /\ g[c] = size /\ \A b \in DOMAIN h : g[b] = h[b]
  BY <1>1 DEF With
<1>3. Sizing(g) /\ SumFunction(g) = SumFunction(h) + g[c]
  BY <1>2, SumOfMore
<1> QED
  BY <1>1, <1>2, <1>3

LEMMA SumWithout ==
    ASSUME NEW h, Sizing(h), NEW b \in DOMAIN h
    PROVE  /\ Sizing(Without(h, {b})) /\ b \notin DOMAIN Without(h, {b})
           /\ SumFunction(Without(h, {b})) \in Nat
           /\ SumFunction(h) = SumFunction(Without(h, {b})) + h[b]
<1>1. PICK g : g = Without(h, {b})
  OBVIOUS
<1>2. DOMAIN g = DOMAIN h \ {b} /\ \A c \in DOMAIN g : h[c] = g[c]
  BY <1>1 DEF Without, Restrict
<1>3. Sizing(g)
  BY <1>2, FS_RemoveElement DEF Sizing
<1>4. b \notin DOMAIN g /\ DOMAIN h = DOMAIN g \cup {b} /\ h[b] \in Nat
  BY <1>2 DEF Sizing
<1>5. SumFunction(h) = SumFunction(g) + h[b]
  BY <1>2, <1>3, <1>4, SumOfMore
<1>6. SumFunction(g) \in Nat
  BY <1>3, SumType
<1> QED
  BY <1>1, <1>3, <1>4, <1>5, <1>6

LEMMA SumOfNone == SumFunction(<<>>) = 0
<1>1. PICK h : h = <<>>
  OBVIOUS
<1>2. DOMAIN h = {}
  BY <1>1
<1>3. SumFunctionOnSet(h, {}) = Cardinality(Units(h, {}))
  BY SumIsUnits, FS_EmptySet
<1> QED
  BY <1>1, <1>2, <1>3, UnitsOfNone DEF SumFunction

--------------------------------------------------------------------------------
\* The calls of the program keep the invariant.

LEMMA HeldSizes == ASSUME NEW a, NEW h, NEW X, Heap(a, h, X) PROVE Sizing(h)
<1>1. BlocksType(a.block) /\ Held(a.block, h, X)
  BY HeapFacts
<1>2. IsFiniteSet(DOMAIN h)
  <2>1. DOMAIN h \in SUBSET DOMAIN a.block /\ IsFiniteSet(DOMAIN a.block)
    BY <1>1 DEF Held, BlocksType
  <2> QED
    BY <2>1, FS_Subset
<1>3. ASSUME NEW b \in DOMAIN h PROVE h[b] \in Nat
  BY <1>1, Numbers DEF Held, Served
<1> QED
  BY <1>2, <1>3 DEF Sizing

LEMMA AllocCase ==
    ASSUME HeapInv, NEW size \in Sizes, NEW alignment \in Alignments, Alloc(size, alignment)
    PROVE  HeapInv'
<1>1. PICK x \in Allocations(arena, size, alignment) :
          arena' = x.arena /\ live' = IF x.pointer = Null THEN live ELSE With(live, x.pointer, size)
  BY DEF Alloc
<1>2. Heap(arena, live, {}) /\ arena.used = SumFunction(live)
  BY DEF HeapInv, UsedIsSum
<1>3. Allocated(arena, live, size, x)
  BY <1>2, AllocateStep
<1>4. CASE x = Result(arena, Null)
  <2>1. arena' = arena /\ live' = live
    BY <1>1, <1>4 DEF Result
  <2>2. Heap(arena', live', {}) /\ arena'.used = SumFunction(live')
    BY <1>2, <2>1
  <2> QED
    BY <2>2 DEF HeapInv, UsedIsSum
<1>5. CASE x # Result(arena, Null)
  <2>1. PICK q : q = x.pointer
    OBVIOUS
  <2>2. /\ q # Null /\ q \notin DOMAIN live /\ Heap(x.arena, With(live, q, size), {})
        /\ x.arena.used = arena.used + size
    BY <1>3, <1>5, <2>1 DEF Allocated
  <2>3. SumFunction(With(live, q, size)) = SumFunction(live) + size
    BY <1>2, <2>2, HeldSizes, SumWith, Numbers
  <2>4. Heap(arena', live', {}) /\ arena'.used = SumFunction(live')
    BY <1>1, <1>2, <2>1, <2>2, <2>3
  <2> QED
    BY <2>4 DEF HeapInv, UsedIsSum
<1> QED
  BY <1>4, <1>5

LEMMA FreeCase ==
    ASSUME HeapInv, NEW p \in DOMAIN live, Free(p)
    PROVE  HeapInv'
<1>1. /\ Heap(arena, live, {}) /\ arena.used = SumFunction(live)
      /\ arena' = Release(arena, p) /\ live' = Without(live, {p})
  BY DEF HeapInv, UsedIsSum, Free
<1>2. Heap(arena', live', {}) /\ arena'.used = arena.used - live[p]
  BY <1>1, ReleaseStep
<1>3. Sizing(live) /\ live[p] \in Nat
  BY <1>1, HeldSizes DEF Sizing
<1>4. SumFunction(live') \in Nat /\ SumFunction(live) = SumFunction(live') + live[p]
  BY <1>1, <1>3, SumWithout
<1>5. arena'.used = SumFunction(live')
  BY <1>1, <1>2, <1>3, <1>4
<1> QED
  BY <1>2, <1>5 DEF HeapInv, UsedIsSum

LEMMA ReallocCase ==
    ASSUME ~ReallocsDirect, HeapInv, NEW p \in DOMAIN live, NEW size \in Sizes, Realloc(p, size)
    PROVE  HeapInv'
<1>1. Heap(arena, live, {}) /\ arena.direct_threshold = 0 /\ arena.used = SumFunction(live)
  BY DEF HeapInv, UsedIsSum, Realloc
<1>2. PICK x \in Reallocations(arena, p, size) :
          /\ arena' = x.arena
          /\ live' = IF x.pointer = Null THEN live ELSE With(Without(live, {p}), x.pointer, size)
  BY DEF Realloc
<1>3. Reallocated(arena, live, p, size, x)
  BY <1>1, ReallocateStep
<1>4. CASE x = Result(arena, Null)
  <2>1. arena' = arena /\ live' = live
    BY <1>2, <1>4 DEF Result
  <2>2. Heap(arena', live', {}) /\ arena'.used = SumFunction(live')
    BY <1>1, <2>1
  <2> QED
    BY <2>2 DEF HeapInv, UsedIsSum
<1>5. CASE x # Result(arena, Null)
  <2>1. PICK q, h : q = x.pointer /\ h = Without(live, {p})
    OBVIOUS
  <2>2. /\ q # Null /\ q \notin DOMAIN h /\ Heap(x.arena, With(h, q, size), {})
        /\ x.arena.used = arena.used - live[p] + size
    BY <1>3, <1>5, <2>1 DEF Reallocated
  <2>3. Sizing(live) /\ live[p] \in Nat /\ size \in Nat
    BY <1>1, HeldSizes, Numbers DEF Sizing
  <2>4. Sizing(h) /\ SumFunction(h) \in Nat /\ SumFunction(live) = SumFunction(h) + live[p]
    BY <2>1, <2>3, SumWithout
  <2>5. SumFunction(With(h, q, size)) = SumFunction(h) + size
    BY <2>2, <2>3, <2>4, SumWith
  <2>6. x.arena.used = SumFunction(With(h, q, size))
    BY <1>1, <2>2, <2>3, <2>4, <2>5
  <2>7. Heap(arena', live', {}) /\ arena'.used = SumFunction(live')
    BY <1>2, <2>1, <2>2, <2>6
  <2> QED
    BY <2>7 DEF HeapInv, UsedIsSum
<1> QED
  BY <1>4, <1>5

\* As long as the program does not reallocate in an arena with direct mappings
\* (the finding about which shows what happens then), every call leaves a well
\* formed heap that serves exactly what the program holds: xmem_allocate,
\* xmem_release and xmem_reallocate, through every split and merge.
THEOREM HeapInvariance ==
    ASSUME ~ReallocsDirect
    PROVE  Spec => []HeapInv
<1>1. ASSUME Init PROVE HeapInv
  <2>1. arena \in EmptyArenas /\ live = <<>>
    BY <1>1 DEF Init
  <2>2. Heap(arena, live, {}) /\ arena.used = 0
    BY <2>1, EmptyHeap DEF EmptyArenas, Empty
  <2> QED
    BY <2>1, <2>2, SumOfNone DEF HeapInv, UsedIsSum
<1>2. ASSUME HeapInv, [Next]_vars PROVE HeapInv'
  <2>1. CASE UNCHANGED vars
    <3>1. arena' = arena /\ live' = live
      BY <2>1 DEF vars
    <3>2. Heap(arena, live, {}) /\ arena.used = SumFunction(live)
      BY <1>2 DEF HeapInv, UsedIsSum
    <3>3. Heap(arena', live', {}) /\ arena'.used = SumFunction(live')
      BY <3>1, <3>2
    <3> QED
      BY <3>3 DEF HeapInv, UsedIsSum
  <2>2. ASSUME NEW size \in Sizes, NEW alignment \in Alignments, Alloc(size, alignment) PROVE HeapInv'
    BY <1>2, <2>2, AllocCase
  <2>3. ASSUME NEW p \in DOMAIN live, Free(p) PROVE HeapInv'
    BY <1>2, <2>3, FreeCase
  <2>4. ASSUME NEW p \in DOMAIN live, NEW size \in Sizes, Realloc(p, size) PROVE HeapInv'
    BY <1>2, <2>4, ReallocCase
  <2>5. CASE Destroy
    <3>1. arena' \in EmptyArenas /\ live' = <<>>
      BY <2>5 DEF Destroy
    <3>2. Heap(arena', live', {}) /\ arena'.used = 0
      BY <3>1, EmptyHeap DEF EmptyArenas, Empty
    <3>3. arena'.used = SumFunction(live')
      BY <3>1, <3>2, SumOfNone
    <3> QED
      BY <3>2, <3>3 DEF HeapInv, UsedIsSum
  <2> QED
    BY <1>2, <2>1, <2>2, <2>3, <2>4, <2>5 DEF Next
<1> QED
  BY <1>1, <1>2, PTL DEF Spec

--------------------------------------------------------------------------------
\* What follows from it.

LEMMA HeapHolds == HeapInv => LiveMemoryIsIntact
<1>1. SUFFICES ASSUME HeapInv, NEW p \in DOMAIN live
               PROVE  /\ p \in Blocks /\ ~arena.block[p].is_free /\ arena.block[p].requested = live[p]
                      /\ arena.block[p].user_offset + live[p] <= arena.block[p].span
  BY DEF LiveMemoryIsIntact
<1>2. Held(arena.block, live, {})
  BY <1>1, HeapFacts DEF HeapInv
<1>3. p \in Blocks /\ ~arena.block[p].is_free /\ Served(arena.block, live, p)
  BY <1>1, <1>2 DEF Held, Blocks
<1> QED
  BY <1>3 DEF Served

\* Memory the program holds stays in one block in use, as large as asked for,
\* whatever else is allocated, freed or resized.
THEOREM LiveMemory ==
    ASSUME ~ReallocsDirect
    PROVE  Spec => []LiveMemoryIsIntact
  BY HeapInvariance, HeapHolds, PTL

LEMMA HeapTiles == HeapInv => BlocksTileRegions
<1>1. SUFFICES ASSUME HeapInv PROVE BlocksTileRegions
  OBVIOUS
<1>2. PICK reg, blk : reg = arena.regions /\ blk = arena.block
  OBVIOUS
<1>3. Layout(reg, blk)
  BY <1>1, <1>2, HeapFacts DEF HeapInv
<1>4. \A r \in Mapped(arena) : <<r, RegionHeader>> \in Blocks
  BY <1>2, <1>3 DEF Layout, Tiled, Mapped, Blocks
<1>5. ASSUME NEW b \in Blocks
      PROVE  /\ b[1] \in Mapped(arena)
             /\ IF arena.block[b].next = Null
                THEN After(b)[2] = arena.regions[b[1]].mapping_size
                ELSE /\ arena.block[b].next = After(b)
                     /\ arena.block[After(b)].previous = b
  <2>1. b \in DOMAIN blk /\ After(b) = RestOf(b, blk[b].span)
    BY <1>2, <1>5 DEF Blocks, After
  <2>2. b \in Addresses /\ b[1] \in Regions /\ blk[b].span \in Nat /\ reg[b[1]].mapping_size > 0
    BY <1>3, <2>1, Places
  <2>3. CASE blk[b].next = Null
    <3>1. b[2] + blk[b].span = reg[b[1]].mapping_size
      BY <1>3, <2>1, <2>3 DEF Layout, Tiled
    <3>2. After(b)[2] = b[2] + blk[b].span
      <4>1. RestOf(b, blk[b].span)[2] = b[2] + blk[b].span
        BY <2>2, Rests
      <4> QED
        BY <2>1, <4>1
    <3> QED
      BY <1>2, <2>2, <2>3, <3>1, <3>2 DEF Mapped
  <2>4. CASE blk[b].next # Null
    <3>1. blk[b].next = After(b) /\ blk[After(b)].previous = b
      <4>1. PICK n : n = After(b)
        OBVIOUS
      <4>2. blk[b].next = n
        BY <1>3, <2>1, <2>4, <4>1, NextOf
      <4>3. blk[n].previous = b
        BY <1>3, <2>1, <2>4, <4>2, NextLinksBack
      <4> QED
        BY <4>1, <4>2, <4>3
    <3> QED
      BY <1>2, <2>2, <2>4, <3>1 DEF Mapped
  <2> QED
    BY <2>3, <2>4
<1> QED
  BY <1>4, <1>5 DEF BlocksTileRegions

LEMMA HeapLists == HeapInv => FreeListIsExact
<1>1. SUFFICES ASSUME HeapInv PROVE FreeListIsExact
  OBVIOUS
<1>2. PICK blk, list : blk = arena.block /\ list = arena.free_blocks
  OBVIOUS
<1>3. Listed(blk, list)
  BY <1>1, <1>2, HeapFacts DEF HeapInv
<1>4. PICK n \in Nat : n = Len(list) /\ DOMAIN list = 1..n
  BY <1>3 DEF Listed
<1>5. ToSet(list) = FreeBlocks
  BY <1>2, <1>3, <1>4 DEF Listed, ToSet, FreeBlocks, Blocks
<1>6. PICK f : f = [i \in 1..n |-> list[i]]
  OBVIOUS
<1>7. f \in [1..n -> FreeBlocks]
  BY <1>4, <1>5, <1>6 DEF ToSet
<1>8. \A i, j \in 1..n : f[i] = f[j] => i = j
  BY <1>3, <1>4, <1>6 DEF Listed
<1>9. \A b \in FreeBlocks : \E i \in 1..n : f[i] = b
  BY <1>4, <1>5, <1>6 DEF ToSet
<1>10. ExistsBijection(1..n, FreeBlocks)
  BY <1>7, <1>8, <1>9 DEF ExistsBijection, Bijection, Injection, IsInjective, Surjection
<1>11. Cardinality(FreeBlocks) = n
  BY <1>10, FS_CountingElements
<1> QED
  BY <1>2, <1>4, <1>5, <1>11 DEF FreeListIsExact

LEMMA HeapTypes == HeapInv => TypeOK
<1>1. SUFFICES ASSUME HeapInv PROVE TypeOK
  OBVIOUS
<1>2. PICK blk : blk = arena.block
  OBVIOUS
<1>3. /\ Layout(arena.regions, blk) /\ BlocksType(blk) /\ Held(blk, live, {}) /\ Scalars(arena)
      /\ Heap(arena, live, {}) /\ arena.used = SumFunction(live)
  BY <1>1, <1>2, HeapFacts DEF HeapInv, UsedIsSum
<1>4. ASSUME NEW b \in Blocks
      PROVE  /\ blk[b].span \in Nat \ {0} /\ blk[b].requested \in Sizes \cup {0}
             /\ {blk[b].previous, blk[b].next} \subseteq Blocks \cup {Null}
  <2>1. b \in DOMAIN blk
    BY <1>2, <1>4 DEF Blocks
  <2>2. blk[b].span \in Nat \ {0}
    BY <1>3, <2>1, BlockTypes
  <2>3. blk[b].requested \in Sizes \cup {0}
    <3>1. CASE blk[b].is_free
      BY <1>3, <2>1, <3>1 DEF Held
    <3>2. CASE ~blk[b].is_free
      <4>1. b \in DOMAIN live
        BY <1>3, <2>1, <3>2 DEF Held
      <4> QED
        BY <1>3, <4>1 DEF Held, Served
    <3> QED
      BY <3>1, <3>2
  <2>4. blk[b].next # Null => blk[b].next \in DOMAIN blk
    BY <1>3, <2>1, NextOf
  <2>5. blk[b].previous # Null => blk[b].previous \in DOMAIN blk
    BY <1>3, <2>1, PreviousOf
  <2> QED
    BY <1>2, <2>2, <2>3, <2>4, <2>5 DEF Blocks
<1>5. arena.next_region_size \in Nat \ {0}
  BY <1>3 DEF Scalars
<1>6. arena.used \in Nat
  BY <1>3, HeldSizes, SumType
<1> QED
  BY <1>2, <1>4, <1>5, <1>6 DEF TypeOK

LEMMA HeapIsWell == HeapInv => HeapIsWellFormed
  BY HeapTypes, HeapTiles, HeapLists DEF HeapInv, HeapIsWellFormed

\* Through any sequence of splits, merges and resizes, the blocks cover their
\* regions without a gap or an overlap, linked both ways, the free list names
\* exactly the free ones, each once, and the statistic is the memory held.
THEOREM WellFormed ==
    ASSUME ~ReallocsDirect
    PROVE  Spec => []HeapIsWellFormed
  BY HeapInvariance, HeapIsWell, PTL

LEMMA HeapIsReturned == HeapInv => NothingLeftBehind
<1>1. SUFFICES ASSUME HeapInv, DOMAIN live = {}
               PROVE  /\ \A r \in Mapped(arena) : ~arena.regions[r].direct
                      /\ Cardinality(FreeBlocks) = Cardinality(Mapped(arena))
                      /\ Blocks = FreeBlocks
  BY DEF NothingLeftBehind
<1>2. PICK reg, blk : reg = arena.regions /\ blk = arena.block
  OBVIOUS
<1>3. /\ Layout(reg, blk) /\ Direct(reg, blk, arena.direct_threshold) /\ Coalesced(blk) /\ Held(blk, live, {})
  BY <1>1, <1>2, HeapFacts DEF HeapInv
<1>4. \A b \in DOMAIN blk : blk[b].is_free
  BY <1>1, <1>3 DEF Held
<1>5. Blocks = FreeBlocks /\ Blocks = DOMAIN blk
  BY <1>2, <1>4 DEF Blocks, FreeBlocks
<1>6. ASSUME NEW r \in Mapped(arena) PROVE <<r, RegionHeader>> \in DOMAIN blk /\ ~reg[r].direct
  <2>1. r \in Regions /\ reg[r].mapping_size > 0
    BY <1>2, <1>6 DEF Mapped
  <2>2. PICK first : first = <<r, RegionHeader>>
    OBVIOUS
  <2>3. first \in DOMAIN blk /\ first[1] = r
    BY <1>3, <2>1, <2>2 DEF Layout, Tiled
  <2>4. ~reg[r].direct
    BY <1>3, <1>4, <2>1, <2>3 DEF Direct
  <2> QED
    BY <2>2, <2>3, <2>4
<1>7. ASSUME NEW b \in DOMAIN blk PROVE b[1] \in Mapped(arena) /\ b = <<b[1], RegionHeader>>
  <2>1. b \in Addresses /\ b[1] \in Regions /\ reg[b[1]].mapping_size > 0
    BY <1>3, Places
  <2>2. blk[b].previous = Null
    <3>1. SUFFICES ASSUME blk[b].previous # Null PROVE FALSE
      OBVIOUS
    <3>2. PICK p : p = blk[b].previous
      OBVIOUS
    <3>3. p \in DOMAIN blk /\ blk[p].next = b
      BY <1>3, <3>1, <3>2, PreviousOf
    <3>4. b # Null
      BY <1>3, Places
    <3> QED
      BY <1>3, <1>4, <3>3, <3>4 DEF Coalesced
  <2>3. b[2] = RegionHeader
    BY <1>3, <2>2 DEF Layout, Tiled
  <2>4. b = <<b[1], b[2]>>
    BY <2>1 DEF Addresses
  <2> QED
    BY <1>2, <2>1, <2>3, <2>4 DEF Mapped
<1>8. PICK f : f = [r \in Mapped(arena) |-> <<r, RegionHeader>>]
  OBVIOUS
<1>9. f \in [Mapped(arena) -> FreeBlocks]
  BY <1>5, <1>6, <1>8
<1>10. \A r, q \in Mapped(arena) : f[r] = f[q] => r = q
  BY <1>8
<1>11. \A b \in FreeBlocks : \E r \in Mapped(arena) : f[r] = b
  BY <1>5, <1>7, <1>8
<1>12. ExistsBijection(Mapped(arena), FreeBlocks)
  BY <1>9, <1>10, <1>11 DEF ExistsBijection, Bijection, Injection, IsInjective, Surjection
<1>13. IsFiniteSet(Mapped(arena))
  BY ArenaAssumption, FS_Subset DEF Mapped
<1>14. Cardinality(FreeBlocks) = Cardinality(Mapped(arena))
  BY <1>12, <1>13, FS_Bijection
<1> QED
  BY <1>2, <1>5, <1>6, <1>14

\* When the program has freed everything, every region is one free block again
\* and no direct mapping is left.
THEOREM AllReturned ==
    ASSUME ~ReallocsDirect
    PROVE  Spec => []NothingLeftBehind
  BY HeapInvariance, HeapIsReturned, PTL
=============================================================================
