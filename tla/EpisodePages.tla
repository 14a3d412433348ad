---------------------------- MODULE EpisodePages ----------------------------
(***************************************************************************)
(* collectEpisodes of the kuramanime provider: the episodes of a catalog   *)
(* are spread over pages that link to each other; the walk starts from the *)
(* catalog's own page and from the page of the first episode on it, visits *)
(* pages in the order it finds them and stops after a number of them.      *)
(*                                                                         *)
(* A site is [start, eps, links, up]: pages are numbers, by which links    *)
(* are sorted, with page 0 for the first episode's; eps[n] and links[n]    *)
(* are what page n has, start what the catalog's page has, and up are the  *)
(* pages that answer.                                                      *)
(***************************************************************************)
EXTENDS Integers, Sequences, FiniteSets, Orders

CONSTANTS
    Sites,
    Limits      \* values of maxEpisodePages

Seed == 0

PagesOf(site) == DOMAIN site.links
ASSUME SitesAssumption ==
    /\ Limits \subseteq Nat
    /\ \A site \in Sites :
          /\ PagesOf(site) \subseteq Nat /\ IsFiniteSet(PagesOf(site))
          /\ site.start.links \cup {Seed} \subseteq PagesOf(site)
          /\ \A n \in PagesOf(site) : site.links[n] \subseteq PagesOf(site)

\* extractEpisodePageLinks: without duplicates, by page number.
extractEpisodePageLinks(links) == Ascending(links)

\* visitedPages are those that were queued before.
visitedPages(queue) == {queue[i] : i \in 1..Len(queue)}

\* Variant that queues every link again.
EnqueueAgain(queue, links) == queue \o extractEpisodePageLinks(links)

Enqueue(queue, links) == queue \o extractEpisodePageLinks(links \ visitedPages(queue))

\* mergeEpisodeRefs keeps one reference for each episode.
mergeEpisodeRefs(base, extra) == base \cup extra

Start(site) ==
    [refs |-> site.start.eps, queue |-> Enqueue(Enqueue(<< >>, site.start.links), {Seed})]

\* The i-th page in the queue, if there is one and it answers.
Visit(walk, site, i) ==
    IF i > Len(walk.queue) \/ walk.queue[i] \notin site.up THEN walk
    ELSE [refs  |-> mergeEpisodeRefs(walk.refs, site.eps[walk.queue[i]]),
          queue |-> Enqueue(walk.queue, site.links[walk.queue[i]])]

\* The walk after each of the visits.
Walk(site, maxEpisodePages) ==
    LET after[i \in 0..maxEpisodePages] ==
            IF i = 0 THEN Start(site) ELSE Visit(after[i - 1], site, i)
    IN  after

\* A catalog page without episodes is an error: no episode is known.
collectEpisodes(site, maxEpisodePages) ==
    IF site.start.eps = {} THEN {} ELSE Walk(site, maxEpisodePages)[maxEpisodePages].refs

\* The pages that links lead to, through pages that answer: those in every set
\* that no link leads out of.
Closed(site, S) ==
    /\ site.start.links \cup {Seed} \subseteq S
    /\ \A n \in S \cap site.up : site.links[n] \subseteq S
Reached(site) ==
    {n \in PagesOf(site) : \A S \in SUBSET PagesOf(site) : Closed(site, S) => n \in S}

\* Every episode that is found is on the catalog's page or on one that can be
\* reached, and those of the catalog's page are found; when no more pages can
\* be reached than may be visited, all episodes on pages that answer are.
Found(site, maxEpisodePages) ==
    LET known == collectEpisodes(site, maxEpisodePages)
        all   == site.start.eps \cup UNION {site.eps[n] : n \in Reached(site) \cap site.up}
    IN  site.start.eps # {} =>
          /\ site.start.eps \subseteq known /\ known \subseteq all
          /\ Cardinality(Reached(site)) <= maxEpisodePages => known = all

EverySiteWalked == \A site \in Sites, limit \in Limits : Found(site, limit)
===========================================================================
