----------------------------- MODULE AssetHandles -----------------------------
(***************************************************************************)
(* The handles of decoded assets in ovc_exec: IMAGE_CACHE, whose oldest    *)
(* load gives way, SCALED_CACHE, two scaled copies of large images keyed   *)
(* by the address of the pixels they were made from, and SVG_CACHE and     *)
(* CURSOR_CACHE, which an application frees and which recycle their first  *)
(* slot when they are full.  A handle is the number of a slot; nothing     *)
(* tells the holder of a handle that its slot has another asset now.       *)
(***************************************************************************)
EXTENDS Naturals, Sequences, FiniteSets

CONSTANTS
  NImages,  \* slots of IMAGE_CACHE, 8 in the code
  NScaled,  \* slots of SCALED_CACHE, 2
  NVector,  \* slots of SVG_CACHE and of CURSOR_CACHE, 8 and 4
  Pictures, \* images on the ESP
  Drawings, \* SVG and cursor files on the ESP
  Blank     \* an empty slot

VARIABLES
  images,   \* IMAGE_CACHE: the picture and the address of its pixels
  rank,     \* of each slot by IMAGE_CACHE_AGE: 1 for the oldest load
  scaled,   \* SCALED_CACHE: the key, and the picture the copy was made from
  turn,     \* SCALED_NEXT modulo NScaled
  drawn,    \* the last ImageDraw: the picture that was loaded, and the one shown
  vectors,  \* SVG_CACHE and CURSOR_CACHE
  holders,  \* [kind, handle, asset] of the loads whose handle was not freed
  recent,   \* history: the last NImages loads, <<handle, picture>>
  reused,   \* history: addresses that were allocated again under a scaled copy
  recycled  \* history: kinds that have recycled a slot

handleVars ==
  <<images, rank, scaled, turn, drawn, vectors, holders, recent, reused, recycled>>

Kinds == {"svg", "cursor"}
Handles == 1..NImages
VectorHandles == 1..NVector
Addresses == 1..NImages + 1
Sizes == {"own", "fitted"}
Held == [kind : Kinds, handle : VectorHandles, asset : Drawings]

HandlesInit ==
  /\ images = [h \in Handles |-> Blank] /\ rank = [h \in Handles |-> h]
  /\ scaled = [k \in 0..NScaled - 1 |-> Blank] /\ turn = 0 /\ drawn = <<>>
  /\ vectors = [kind \in Kinds |-> [h \in VectorHandles |-> Blank]]
  /\ holders = {} /\ recent = <<>> /\ reused = {} /\ recycled = {}

LowestOf(S) == CHOOSE h \in S : \A g \in S : h <= g
Live == {images[h].at : h \in {g \in Handles : images[g] # Blank}}
Keys == {scaled[k].at : k \in {l \in DOMAIN scaled : scaled[l] # Blank}}
BlankImages == {h \in Handles : images[h] = Blank}

\* ImageLoad: an empty slot, else the one of the oldest load; a draw does not
\* make an image younger
Victim_First == 1
Victim == CHOOSE h \in Handles : rank[h] = 1
ImageSlot == IF BlankImages # {} THEN LowestOf(BlankImages) ELSE Victim

\* the pixels are decoded before the slot's image is dropped: the allocator may
\* return any address that no image of the cache has
ImageLoad(pic) ==
  /\ \E at \in Addresses \ Live :
       /\ images' = [images EXCEPT ![ImageSlot] = [pic |-> pic, at |-> at]]
       /\ reused' = IF at \in Keys THEN reused \cup {at} ELSE reused
  /\ rank' = [h \in Handles |->
                IF h = ImageSlot THEN NImages
                ELSE IF rank[h] > rank[ImageSlot] THEN rank[h] - 1 ELSE rank[h]]
  /\ recent' = LET r == Append(recent, <<ImageSlot, pic>>)
               IN IF Len(r) > NImages THEN Tail(r) ELSE r
  /\ UNCHANGED <<scaled, turn, drawn, vectors, holders, recycled>>

\* ImageDraw: a small, or a transformed, image is sampled from its pixels
DrawSmall(h) ==
  /\ images[h] # Blank
  /\ drawn' = <<images[h].pic, images[h].pic>>
  /\ UNCHANGED <<images, rank, scaled, turn, vectors, holders, recent, reused, recycled>>

\* ... and a large one is drawn from a copy with the same address and size, which
\* is made, in the place of the older copy, when there is none
CopiesFor_Size(at, size) ==
  {k \in DOMAIN scaled : scaled[k] # Blank /\ scaled[k].size = size}
CopiesFor(at, size) ==
  {k \in DOMAIN scaled : scaled[k] # Blank /\ scaled[k].at = at /\ scaled[k].size = size}

DrawLarge(h, size) ==
  /\ images[h] # Blank
  /\ LET copies == CopiesFor(images[h].at, size) IN
     IF copies # {}
     THEN /\ drawn' = <<images[h].pic, scaled[LowestOf(copies)].pic>>
          /\ UNCHANGED <<scaled, turn>>
     ELSE /\ scaled' = [scaled EXCEPT ![turn] =
                          [at |-> images[h].at, size |-> size, pic |-> images[h].pic]]
          /\ turn' = (turn + 1) % NScaled
          /\ drawn' = <<images[h].pic, images[h].pic>>
  /\ UNCHANGED <<images, rank, vectors, holders, recent, reused, recycled>>

\* SvgLoad, and CursorLoad of a file with at least a frame: an empty slot, else
\* the first one; the file is loaded anew however often it was loaded before
BlankVectors(kind) == {h \in VectorHandles : vectors[kind][h] = Blank}
VectorSlot(kind) == IF BlankVectors(kind) # {} THEN LowestOf(BlankVectors(kind)) ELSE 1

VectorLoad(kind, asset) ==
  LET h == VectorSlot(kind) IN
  /\ vectors' = [vectors EXCEPT ![kind][h] = asset]
  /\ holders' = holders \cup {[kind |-> kind, handle |-> h, asset |-> asset]}
  /\ recycled' = IF BlankVectors(kind) = {} THEN recycled \cup {kind} ELSE recycled
  /\ UNCHANGED <<images, rank, scaled, turn, drawn, recent, reused>>

\* SvgFree and CursorFree empty the slot, whoever has loaded it since
Freed_Handle(h) == IF h = NVector THEN 1 ELSE h + 1
Freed(h) == h
VectorFree(held) ==
  /\ vectors' = [vectors EXCEPT ![held.kind][Freed(held.handle)] = Blank]
  /\ holders' = holders \ {held}
  /\ UNCHANGED <<images, rank, scaled, turn, drawn, recent, reused, recycled>>

ImageNext ==
  \/ \E pic \in Pictures : ImageLoad(pic)
  \/ \E h \in Handles : DrawSmall(h) \/ \E size \in Sizes : DrawLarge(h, size)

VectorNext ==
  \/ \E kind \in Kinds, asset \in Drawings : VectorLoad(kind, asset)
  \/ \E held \in holders : VectorFree(held)

HandlesNext == ImageNext \/ VectorNext

HandlesSpec == HandlesInit /\ [][HandlesNext]_handleVars

-----------------------------------------------------------------------------
(* Properties.                                                             *)

Image == [pic : Pictures, at : Addresses]
HandlesTypeOK ==
  /\ images \in [Handles -> Image \cup {Blank}] /\ rank \in [Handles -> Handles]
  /\ scaled \in [0..NScaled - 1 -> [at : Addresses, size : Sizes, pic : Pictures] \cup {Blank}]
  /\ turn \in 0..NScaled - 1 /\ drawn \in {<<>>} \cup (Pictures \X Pictures)
  /\ vectors \in [Kinds -> [VectorHandles -> Drawings \cup {Blank}]]
  /\ holders \subseteq Held /\ recent \in Seq(Handles \X Pictures)
  /\ reused \subseteq Addresses /\ recycled \subseteq Kinds

\* Every handle of the last NImages loads still has the picture of its load, and
\* no two images share their pixels' address.
LastLoadsKept ==
  /\ \A k \in DOMAIN recent : images[recent[k][1]] # Blank /\ images[recent[k][1]].pic = recent[k][2]
  /\ \A g, h \in Handles :
       g # h /\ images[g] # Blank /\ images[h] # Blank => images[g].at # images[h].at

\* An image is drawn as it was loaded, unless the address of a scaled copy's
\* pixels was allocated to another image.
DrawnAsLoaded == drawn # <<>> /\ reused = {} => drawn[1] = drawn[2]

\* A handle that was not freed has its holder's asset, and no other holder, as
\* long as no load found the cache of its kind full.
HeldVectorsKept ==
  \A held \in holders : held.kind \notin recycled =>
    /\ vectors[held.kind][held.handle] = held.asset
    /\ \A other \in holders : other.kind = held.kind /\ other.handle = held.handle => other = held

HandlesDenote == LastLoadsKept /\ DrawnAsLoaded /\ HeldVectorsKept
=============================================================================
