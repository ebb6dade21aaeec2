-------------------------------- MODULE Arena --------------------------------
(***************************************************************************)
(* The managed arenas (hot, warm, cold) of stdlib/memory/xmem.cp: mapped   *)
(* regions cut into blocks, a free list, first fit, splitting, coalescing, *)
(* reallocation in place, and direct mappings for large cold allocations.  *)
(*                                                                         *)
(* An address is a pair of a region and an offset into it.  Offsets, spans *)
(* and sizes are counted in units of _Alignof(xmem_block_t), to which      *)
(* block_requirements rounds.  A block is known by the address of its      *)
(* header and, its user_offset being fixed while it is in use, so is the   *)
(* pointer the program holds.  Contents of the memory are left out.        *)
(***************************************************************************)
EXTENDS Integers, Sequences, FiniteSets, Functions, SequencesExt

CONSTANTS Regions,           \* bound: names of the regions that can be mapped at a time
          Page,              \* the page size
          RegionHeader,      \* sizeof(xmem_region_t)
          Header,            \* sizeof(xmem_block_t) + sizeof(xmem_block_t*)
          MinimumFreeSpan,   \* the least remainder worth a block
          MaxRegionSize,     \* XMEM_MAX_REGION_SIZE
          RegionSizes,       \* the initial_region_size the program may pass to init
          Thresholds,        \* the direct_threshold of an arena: 0 for hot and warm ones
          Sizes,             \* the sizes the program asks for
          Alignments,        \* the alignments it asks for
          ReallocsDirect     \* whether it calls realloc on an arena with a threshold

ASSUME ArenaAssumption ==
    /\ Regions \subseteq Nat /\ IsFiniteSet(Regions)
    /\ {Page, RegionHeader, Header, MinimumFreeSpan, MaxRegionSize} \cup RegionSizes \subseteq Nat \ {0}
    /\ MinimumFreeSpan > Header
    /\ Thresholds \subseteq Nat
    /\ Sizes \subseteq Nat \ {0}
    /\ Alignments \subseteq Nat \ {0} /\ 1 \in Alignments
    /\ ReallocsDirect \in BOOLEAN

VARIABLES arena,  \* the struct xmem_arena_t
          live    \* what the program holds: the size it asked for, per pointer

vars == <<arena, live>>

Null == <<>>
Unmapped == [mapping_size |-> 0, direct |-> FALSE]
Mapped(a) == {r \in Regions : a.regions[r].mapping_size > 0}

\* initialize_state.
Empty(size, threshold) ==
    [regions             |-> [r \in Regions |-> Unmapped],
     block               |-> <<>>,
     free_blocks         |-> <<>>,
     initial_region_size |-> size,
     next_region_size    |-> size,
     direct_threshold    |-> threshold,
     used                |-> 0]
EmptyArenas == {Empty(size, threshold) : size \in RegionSizes, threshold \in Thresholds}

-------------------------------------------------------------------------------
\* Blocks and the free list.

\* f with the value v for k.
With(f, k, v) == [x \in DOMAIN f \cup {k} |-> IF x = k THEN v ELSE f[x]]
Without(f, S) == Restrict(f, DOMAIN f \ S)

\* block_requirements: where the user's memory begins in the block at b, and
\* the span a block with that memory needs.
UserOffset(b, alignment) == Header + ((0 - (b[2] + Header)) % alignment)
Required(b, size, alignment) == UserOffset(b, alignment) + size

\* free_list_insert and free_list_remove.
Insert(a, b) ==
    [a EXCEPT !.free_blocks = <<b>> \o @, !.block[b].is_free = TRUE]
Unlist(a, b) ==
    [a EXCEPT !.free_blocks = RemoveFirst(@, b), !.block[b].is_free = FALSE]

\* A block with its next block's memory added to its own.
Absorb(a, b) ==
    LET n == a.block[b].next
        grown == [a.block EXCEPT ![b].span = @ + a.block[n].span,
                                 ![b].next = a.block[n].next]
        linked == IF a.block[n].next = Null THEN grown
                  ELSE [grown EXCEPT ![a.block[n].next].previous = b]
    IN  [a EXCEPT !.block = Without(linked, {n})]

\* The block at b cut down to span, and a new one made of the rest.
RestOf(b, span) == <<b[1], b[2] + span>>
Split(a, b, span) ==
    LET t == RestOf(b, span)
        rest == [span |-> a.block[b].span - span, requested |-> 0, user_offset |-> 0,
                 alignment |-> 0, previous |-> b, next |-> a.block[b].next, is_free |-> FALSE]
        cut == [With(a.block, t, rest) EXCEPT ![b].span = span, ![b].next = t]
    IN  [a EXCEPT !.block = IF rest.next = Null THEN cut
                            ELSE [cut EXCEPT ![rest.next].previous = t]]

\* Variant: an absorbed neighbour stays in the free list, and only the block
\* that follows is looked at.
CoalesceListed(a, b) ==
    LET n == a.block[b].next
        a1 == IF n # Null /\ a.block[n].is_free THEN Absorb(a, b) ELSE a
    IN  Insert([a1 EXCEPT !.block[b].requested = 0, !.block[b].user_offset = 0,
                          !.block[b].alignment = 0], b)

\* coalesce_and_insert.
CoalesceAndInsert(a, b) ==
    LET p == a.block[b].previous
        backward == p # Null /\ a.block[p].is_free
        c == IF backward THEN p ELSE b
        a1 == IF backward THEN Absorb(Unlist(a, p), p) ELSE a
        n == a1.block[c].next
        a2 == IF n # Null /\ a1.block[n].is_free THEN Absorb(Unlist(a1, n), c) ELSE a1
    IN  Insert([a2 EXCEPT !.block[c].requested = 0, !.block[c].user_offset = 0,
                          !.block[c].alignment = 0], c)

-------------------------------------------------------------------------------
\* Regions.

\* unlink_region: the memory is gone, and so are the headers in it.
UnlinkRegion(a, r) ==
    [a EXCEPT !.regions[r] = Unmapped,
              !.block = Without(@, {b \in DOMAIN @ : b[1] = r})]

\* region_create: a mapping, rounded to pages, with one block in it.  Region
\* sizes double up to a limit.
RegionCreate(a, r, size, alignment, direct) ==
    LET required == RegionHeader + Header + (alignment - 1) + size
        request == IF direct \/ required > a.next_region_size THEN required
                   ELSE a.next_region_size
        actual == ((request + Page - 1) \div Page) * Page
        first == <<r, RegionHeader>>
        whole == [span |-> actual - RegionHeader, requested |-> 0, user_offset |-> 0,
                  alignment |-> 0, previous |-> Null, next |-> Null, is_free |-> FALSE]
        base == IF actual < a.initial_region_size THEN a.initial_region_size ELSE actual
        created == [a EXCEPT !.regions[r] = [mapping_size |-> actual, direct |-> direct],
                             !.block = With(@, first, whole)]
    IN  IF direct THEN created
        ELSE Insert([created EXCEPT !.next_region_size =
                        IF base >= MaxRegionSize \div 2 THEN MaxRegionSize ELSE base * 2], first)

-------------------------------------------------------------------------------
\* Allocation.  A result is the arena afterwards and a pointer, or Null.

Result(a, p) == [arena |-> a, pointer |-> p]

\* Variant: direct mappings are split as well.
ActivateSplitting(a, b, size, alignment, from_free_list) ==
    LET required == Required(b, size, alignment)
        a1 == IF from_free_list THEN Unlist(a, b) ELSE a
        a2 == IF a1.block[b].span - required >= MinimumFreeSpan
              THEN Insert(Split(a1, b, required), RestOf(b, required)) ELSE a1
    IN  [a2 EXCEPT !.block[b].requested = size,
                   !.block[b].user_offset = UserOffset(b, alignment),
                   !.block[b].alignment = alignment,
                   !.used = @ + size]

\* activate_block.
Activate(a, b, size, alignment, from_free_list) ==
    LET required == Required(b, size, alignment)
        a1 == IF from_free_list THEN Unlist(a, b) ELSE a
        a2 == IF from_free_list /\ a1.block[b].span - required >= MinimumFreeSpan
              THEN Insert(Split(a1, b, required), RestOf(b, required)) ELSE a1
    IN  [a2 EXCEPT !.block[b].requested = size,
                   !.block[b].user_offset = UserOffset(b, alignment),
                   !.block[b].alignment = alignment,
                   !.used = @ + size]

\* The places in the free list that are large enough, for the first-fit search.
\* A header that is no longer mapped is no place.
Fitting(a, size, alignment) ==
    {i \in DOMAIN a.free_blocks :
        LET b == a.free_blocks[i]
        IN  b \in DOMAIN a.block /\ Required(b, size, alignment) <= a.block[b].span}

\* allocate_internal: first fit, else a new region, which the system may
\* refuse.  Which unused address it picks makes no difference.
Allocations(a, size, alignment) ==
    LET direct == a.direct_threshold # 0 /\ size >= a.direct_threshold
        fitting == Fitting(a, size, alignment)
        b == a.free_blocks[CHOOSE i \in fitting : \A j \in fitting : i <= j]
        unused == Regions \ Mapped(a)
        r == CHOOSE i \in unused : \A j \in unused : i <= j
        first == <<r, RegionHeader>>
        grown == RegionCreate(a, r, size, alignment, direct)
    IN  IF ~direct /\ fitting # {}
        THEN {Result(Activate(a, b, size, alignment, TRUE), b)}
        ELSE {Result(a, Null)}
             \cup (IF unused = {} THEN {}
                   ELSE {Result(Activate(grown, first, size, alignment, ~direct), first)})

\* release_internal.
Release(a, b) ==
    LET a1 == [a EXCEPT !.used = @ - a.block[b].requested]
    IN  IF a.regions[b[1]].direct THEN UnlinkRegion(a1, b[1]) ELSE CoalesceAndInsert(a1, b)

\* Variant: the end of a block that got smaller is cut off and forgotten.
ResizeForgetful(a, b, size) ==
    LET old == a.block[b]
        required == Required(b, size, old.alignment)
        a1 == IF size < old.requested /\ old.span - required >= MinimumFreeSpan
              THEN Split(a, b, required) ELSE a
    IN  [a1 EXCEPT !.used = @ - old.requested + size, !.block[b].requested = size]

\* reallocate_internal in place: smaller, or larger within the span.  The end of
\* a block that got smaller becomes a free block.
Resize(a, b, size) ==
    LET old == a.block[b]
        required == Required(b, size, old.alignment)
        a1 == IF size < old.requested /\ old.span - required >= MinimumFreeSpan
              THEN CoalesceAndInsert(Split(a, b, required), RestOf(b, required)) ELSE a
    IN  [a1 EXCEPT !.used = @ - old.requested + size, !.block[b].requested = size]

\* Larger, with the free block that follows taken as a whole.
Extend(a, b, size) ==
    LET a1 == Absorb(Unlist(a, a.block[b].next), b)
    IN  [a1 EXCEPT !.used = @ + size - a.block[b].requested, !.block[b].requested = size]

CanExtend(a, b, size) ==
    LET old == a.block[b]
    IN  /\ old.next # Null
        /\ a.block[old.next].is_free
        /\ old.span + a.block[old.next].span >= Required(b, size, old.alignment)

\* Elsewhere: the old block is released once the new one has its contents.
Reallocations(a, b, size) ==
    LET old == a.block[b]
    IN  IF size <= old.span - old.user_offset THEN {Result(Resize(a, b, size), b)}
        ELSE IF CanExtend(a, b, size) THEN {Result(Extend(a, b, size), b)}
        ELSE {IF x.pointer = Null THEN x ELSE Result(Release(x.arena, b), x.pointer) :
                 x \in Allocations(a, size, old.alignment)}

-------------------------------------------------------------------------------
\* The calls of the program, which frees and reallocates only what it holds.

Init == arena \in EmptyArenas /\ live = <<>>

Alloc(size, alignment) ==
    \E x \in Allocations(arena, size, alignment) :
        /\ arena' = x.arena
        /\ live' = IF x.pointer = Null THEN live ELSE With(live, x.pointer, size)

Free(p) ==
    /\ arena' = Release(arena, p)
    /\ live' = Without(live, {p})

\* When nothing can be had, the old memory stays as it is.
Realloc(p, size) ==
    /\ arena.direct_threshold = 0 \/ ReallocsDirect
    /\ \E x \in Reallocations(arena, p, size) :
          /\ arena' = x.arena
          /\ live' = IF x.pointer = Null THEN live
                     ELSE With(Without(live, {p}), x.pointer, size)

\* The program may initialize the arena again, for another use.
Destroy == arena' \in EmptyArenas /\ live' = <<>>

Next ==
    \/ \E size \in Sizes, alignment \in Alignments : Alloc(size, alignment)
    \/ \E p \in DOMAIN live : Free(p) \/ \E size \in Sizes : Realloc(p, size)
    \/ Destroy

Spec == Init /\ [][Next]_vars

-------------------------------------------------------------------------------
\* Properties.

Blocks == DOMAIN arena.block
FreeBlocks == {b \in Blocks : arena.block[b].is_free}
After(b) == RestOf(b, arena.block[b].span)

\* Headers have the fields and values the code gives them.
TypeOK ==
    /\ \A b \in Blocks :
          /\ arena.block[b].span \in Nat \ {0}
          /\ arena.block[b].requested \in Sizes \cup {0}
          /\ {arena.block[b].previous, arena.block[b].next} \subseteq Blocks \cup {Null}
    /\ arena.next_region_size \in Nat \ {0}
    /\ arena.used \in Nat

\* The blocks of a region cover it from its header to its end, without a gap or
\* an overlap, and are linked in the order of their addresses.
BlocksTileRegions ==
    /\ \A r \in Mapped(arena) : <<r, RegionHeader>> \in Blocks
    /\ \A b \in Blocks :
          /\ b[1] \in Mapped(arena)
          /\ IF arena.block[b].next = Null
             THEN After(b)[2] = arena.regions[b[1]].mapping_size
             ELSE /\ arena.block[b].next = After(b)
                  /\ arena.block[After(b)].previous = b

\* The free list holds the free blocks that exist, each one once.
FreeListIsExact ==
    /\ ToSet(arena.free_blocks) = FreeBlocks
    /\ Len(arena.free_blocks) = Cardinality(FreeBlocks)

\* The statistic a leak report relies on is the memory the program holds.
UsedIsSum == arena.used = SumFunction(live)

\* Through any sequence of splits, merges and resizes, the regions stay tiled by
\* linked blocks, the free list names exactly the free ones, and the statistic
\* agrees with what the program holds.
HeapIsWellFormed == TypeOK /\ BlocksTileRegions /\ FreeListIsExact /\ UsedIsSum

\* Whatever else was allocated, freed or resized meanwhile, memory the program
\* holds is mapped, belongs to a block in use, and is as large as it asked for.
LiveMemoryIsIntact ==
    \A p \in DOMAIN live :
        /\ p \in Blocks
        /\ ~arena.block[p].is_free
        /\ arena.block[p].requested = live[p]
        /\ arena.block[p].user_offset + live[p] <= arena.block[p].span

\* When the program has freed everything, every ordinary region is one free
\* block again, and no direct mapping is left.
NothingLeftBehind ==
    DOMAIN live = {} =>
        /\ \A r \in Mapped(arena) : ~arena.regions[r].direct
        /\ Cardinality(FreeBlocks) = Cardinality(Mapped(arena))
        /\ Blocks = FreeBlocks
===============================================================================
