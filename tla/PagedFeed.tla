----------------------------- MODULE PagedFeed -----------------------------
(***************************************************************************)
(* What a paged list promises to the person reading it, with no network,   *)
(* no cache and no controls: a refresh replaces everything by a first page *)
(* at least as recent as the one shown, a load-more adds the page that     *)
(* starts where the last one ends and that was fetched after it.           *)
(***************************************************************************)
EXTENDS Naturals, Sequences

CONSTANTS
    Step,  \* rows in a page
    Ids    \* identities of fetched pages, later ones greater

VARIABLE pages  \* the pages shown, [id, start]

Init == pages = <<>>

Refresh ==
    \E id \in Ids :
        /\ pages # <<>> => id >= pages[1].id
        /\ pages' = <<[id |-> id, start |-> 0]>>

LoadMore ==
    \E id \in Ids :
        /\ pages # <<>>
        /\ id > pages[Len(pages)].id
        /\ pages' = Append(pages, [id |-> id, start |-> Step * Len(pages)])

Next == Refresh \/ LoadMore

Spec == Init /\ [][Next]_pages
=============================================================================
