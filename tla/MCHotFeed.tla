----------------------------- MODULE MCHotFeed -----------------------------
(***************************************************************************)
(* HotFeed as TLC checks it, and the refinement of PagedFeed.              *)
(***************************************************************************)
EXTENDS HotFeed

Paged == INSTANCE PagedFeed WITH
    Ids <- 1..(MaxPulls + 2),
    pages <- sections

\* For a user who waits for the feed to be quiet, a network that answers and a
\* storage that stores, the table is a paged list: pages in order, without gap
\* or repetition, never older after a refresh (HotViewModel.transform).
RefinesPagedFeed == Paged!Spec

\* The sections that have rows.
Shown == SelectSeq(sections, LAMBDA page : page # None)

\* "startIndex: continue indexing from position startIndex" (MoviesTarget.swift:11):
\* below a first page, each page on the screen was fetched from the position where
\* the rows shown before it end, so no row is skipped and none is shown twice.
ContinuesIndexing ==
    Shown # <<>> /\ Shown[1].start = 0 =>
        \A i \in DOMAIN Shown : Shown[i].start = Step * (i - 1)
=============================================================================
