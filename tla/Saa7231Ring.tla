---------------------------- MODULE Saa7231Ring ----------------------------
(***************************************************************************)
(* saa7231_ring.c: the ring of DMA buffers of one capture stream.          *)
(*                                                                         *)
(* The dmabuf array of the C structure is identified with its indices      *)
(* 0..RINGSIZ-1, so a ring is the record of its three counters.  The       *)
(* logging caches wcache and rcache are left out: no code reads them back. *)
(***************************************************************************)
EXTENDS Naturals

CONSTANT RINGSIZ      \* number of DMA buffers in the ring (16 in saa7231_ring.h)

ASSUME RingsizAssumption == RINGSIZ \in Nat \ {0}

Buffers == 0 .. RINGSIZ - 1

Rings == [head : Buffers, tail : Buffers, count : 0 .. RINGSIZ]

\* saa7231_ring_init
EmptyRing == [head |-> 0, tail |-> 0, count |-> 0]

ring_full(r)  == r.count >= RINGSIZ
ring_empty(r) == r.count = 0

\* Faulty variants, for the mutation entries of PROJECT.json.
WriteTwice(r) == [r EXCEPT !.tail = (@ + 2) % RINGSIZ, !.count = @ + 1]
WriteNoCount(r) == [r EXCEPT !.tail = (@ + 1) % RINGSIZ]
WriteNoWrap(r) == [r EXCEPT !.tail = @ + 1, !.count = @ + 1]

\* saa7231_ring_write: the buffer handed out is r.tail; a full ring still moves
\* its tail and only complains.
ring_write(r) ==
  [r EXCEPT !.tail  = (@ + 1) % RINGSIZ,
            !.count = IF @ < RINGSIZ THEN @ + 1 ELSE @]

\* A read that forgets to take the entry out of the count.
ReadKeepsCount(r) == [r EXCEPT !.head = (@ + 1) % RINGSIZ]

\* saa7231_ring_read: the buffer handed out is r.head.  The u32 count is
\* decremented unchecked; every caller tests ring_empty first.
ring_read(r) ==
  [r EXCEPT !.head  = (@ + 1) % RINGSIZ,
            !.count = @ - 1]
=============================================================================
