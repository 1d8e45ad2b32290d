------------------------------- MODULE DmaBuf -------------------------------
(***************************************************************************)
(* The page table of one DMA buffer (saa7231_dmabuf.c): what               *)
(* saa7231_dmabuf_sgpagefill writes for the segments dma_map_sg returns.   *)
(*                                                                         *)
(* dma_map_sg may join pages that follow each other on the bus: it returns *)
(* the number of segments, each some pages long. <<i, j>> is the bus       *)
(* address of the j-th page of segment i.                                  *)
(***************************************************************************)
EXTENDS Naturals, FiniteSetsExt, SequencesExt

\* Pages of the first n segments, and of all.
Before(segments) ==
  LET sum[n \in 0 .. Len(segments)] == IF n = 0 THEN 0 ELSE sum[n - 1] + segments[n]
  IN  sum

Pages(segments) == Before(segments)[Len(segments)]

\* The ways pages pages may be joined.
Mergings(pages) ==
  {s \in UNION {[1 .. n -> 1 .. pages] : n \in 1 .. pages} : Pages(s) = pages}

\* Faulty variant: one entry for each segment, as if nothing was ever joined.
FillBySegment(segments, entries) ==
  [k \in 1 .. entries |-> <<Min({k, Len(segments)}), 1>>]

\* Segment by segment, page by page; the entries left over repeat the last address.
sgpagefill(segments, entries) ==
  LET mapped == FlattenSeq([i \in 1 .. Len(segments) |-> [j \in 1 .. segments[i] |-> <<i, j>>]])
  IN  [k \in 1 .. entries |-> mapped[Min({k, Len(mapped)})]]

\* Reference: the place in the buffer of the page at a bus address.
PageAt(segments, address) == Before(segments)[address[1] - 1] + address[2]
=============================================================================
