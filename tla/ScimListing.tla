----------------------------- MODULE ScimListing -----------------------------
(***************************************************************************)
(* Listing the users, or the IDP groups, of the organization with Slack's  *)
(* SCIM API: listScimAPI of src/pkg/connector/user.go and List of          *)
(* src/pkg/connector/group.go, under the SDK's syncer.                     *)
(*                                                                         *)
(* A page is asked for by the index of its first entry, counted from 1,    *)
(* and a page token is nothing but the index of the next page: what was    *)
(* entered or removed since the last page moves the entries behind it.     *)
(* The pages are GETs, so that one of them may come from the HTTP cache,   *)
(* left there by an earlier sync that did not end.  A sync that fails, or  *)
(* whose process dies, starts over, or goes on from its last checkpoint    *)
(* with all it has stored.                                                 *)
(***************************************************************************)
EXTENDS Integers, FiniteSets

CONSTANTS
    Ids,           \* the entries the directory may have
    InitialPos,    \* id -> its index at the start, 0 for none
    Count,         \* entries in a page
    Configs,       \* what may be listed, and how:
                   \*   listing, "users" or "groups": whose List it is;
                   \*   cached, FALSE: BATON_DISABLE_HTTP_CACHE or a TTL of 0;
                   \*   appendOnly: Slack puts new entries last, not anywhere
    MaxSyncs,      \* bound: syncs begun
    MaxAdds,       \* bound: entries made
    MaxRemovals    \* bound: entries removed

InitialTotal == Cardinality({x \in Ids : InitialPos[x] # 0})

ASSUME ScimListingAssumption ==
    /\ InitialPos \in [Ids -> Nat]
    /\ InitialTotal \in Nat
    /\ \A x \in Ids : InitialPos[x] <= InitialTotal
    /\ \A x, y \in Ids : InitialPos[x] # 0 /\ InitialPos[x] = InitialPos[y] => x = y
    /\ Count \in Nat \ {0}
    /\ Configs \subseteq [listing : {"users", "groups"}, cached : BOOLEAN,
                           appendOnly : BOOLEAN]
    /\ MaxSyncs \in Nat /\ MaxAdds \in Nat /\ MaxRemovals \in Nat

VARIABLES
    config,    \* what is listed, and how, for good
    pos,       \* Slack: id -> its index in the directory, 0 for none
    total,     \* Slack: the number of entries
    cache,     \* the pages in the HTTP cache
    next,      \* the syncer: the index to go on from, 0 when no sync runs
    saved,     \* the syncer: that index in its last checkpoint
    emitted,   \* the store: the ids put there by this sync
    complete,  \* the last sync came to its end
    syncs, adds, removals,   \* so far
    steady,    \* history: the ids there since the sync, and every page that
               \* was in the cache then, began
    removed    \* history: the removals since then

bounds == <<config, syncs, adds, removals>>
vars == <<config, pos, total, cache, next, saved, emitted, complete, syncs, adds,
          removals, steady, removed>>

Listing == config.listing
CacheEnabled == config.cached
AppendOnly == config.appendOnly

Present == {x \in Ids : pos[x] # 0}

-----------------------------------------------------------------------------
Init ==
    /\ config \in Configs
    /\ pos = InitialPos
    /\ total = InitialTotal
    /\ cache = {}
    /\ next = 0
    /\ saved = 0
    /\ emitted = {}
    /\ complete = FALSE
    /\ syncs = 0 /\ adds = 0 /\ removals = 0
    /\ steady = Present
    /\ removed = 0

\* The page from index i on, as Slack answers now.
PageNow(i) ==
    [start |-> i, total |-> total,
     ids |-> {x \in Ids : i <= pos[x] /\ pos[x] < i + Count}]

\* What a GET of the page from index i on returns.
Answers(i) ==
    LET hits == {p \in cache : p.start = i}
    IN IF hits = {} THEN {PageNow(i)} ELSE hits

\* The two tests for another page (user.go:211, group.go:91).
MoreUsers(i, n) == n > i + Count - 1
MoreGroups(i, n) == ~(i + Count > n)

\* Bugs: the last entry is taken for the end; the index stays.
NextStart_TooEarly(i, n) == IF n > i + Count THEN i + Count ELSE 0
NextStart_Same(i, n) == IF n > i + Count - 1 THEN i ELSE 0

\* The next page token, the empty one as 0.
NextStart(i, n) ==
    IF (IF Listing = "users" THEN MoreUsers(i, n) ELSE MoreGroups(i, n))
    THEN i + Count ELSE 0

\* A sync begins with index 1.
FirstStart == 1

-----------------------------------------------------------------------------
Begin ==
    /\ next = 0
    /\ syncs < MaxSyncs
    /\ syncs' = syncs + 1
    /\ next' = FirstStart
    /\ saved' = FirstStart
    /\ emitted' = {}
    /\ complete' = FALSE
    /\ IF cache = {} THEN steady' = Present /\ removed' = 0
                     ELSE UNCHANGED <<steady, removed>>
    /\ UNCHANGED <<config, pos, total, cache, adds, removals>>

\* One call of List: the ids of the page are stored, then the plan goes to
\* the next page, or the sync ends.
ListPage ==
    /\ next # 0
    /\ \E page \in Answers(next) :
        /\ emitted' = emitted \cup page.ids
        /\ cache' = IF CacheEnabled THEN cache \cup {page} ELSE cache
        /\ next' = NextStart(next, page.total)
        /\ complete' = (next' = 0)
    /\ UNCHANGED <<pos, total, saved, bounds, steady, removed>>

\* The syncer saves its plan, once in a while.
Checkpoint ==
    /\ next # 0 /\ saved # next
    /\ saved' = next
    /\ UNCHANGED <<pos, total, cache, next, emitted, complete, bounds, steady,
                   removed>>

\* The sync fails, or the process dies and the cache with it; it goes on from
\* the checkpoint, or is given up.
Interrupt ==
    /\ next # 0
    /\ next' \in {0, saved}
    /\ cache' \in {cache, {}}
    /\ UNCHANGED <<pos, total, saved, emitted, complete, bounds, steady,
                   removed>>

\* Entries of the cache expire, are evicted, or all go when a sync has ended.
DropEntries ==
    /\ cache # {}
    /\ cache' \in SUBSET cache \ {cache}
    /\ UNCHANGED <<pos, total, next, saved, emitted, complete, bounds, steady,
                   removed>>

-----------------------------------------------------------------------------
\* Where a new entry may go in the directory.
NewIndices == IF AppendOnly THEN {total + 1} ELSE 1..(total + 1)

Add(x) ==
    /\ adds < MaxAdds
    /\ adds' = adds + 1
    /\ pos[x] = 0
    /\ \E i \in NewIndices :
        pos' = [y \in Ids |-> IF y = x THEN i
                              ELSE IF pos[y] >= i THEN pos[y] + 1 ELSE pos[y]]
    /\ total' = total + 1
    /\ UNCHANGED <<config, cache, next, saved, emitted, complete, syncs,
                   removals, steady, removed>>

Remove(x) ==
    /\ removals < MaxRemovals
    /\ removals' = removals + 1
    /\ pos[x] # 0
    /\ pos' = [y \in Ids |-> IF y = x THEN 0
                             ELSE IF pos[y] > pos[x] THEN pos[y] - 1 ELSE pos[y]]
    /\ total' = total - 1
    /\ steady' = steady \ {x}
    /\ removed' = removed + 1
    /\ UNCHANGED <<config, cache, next, saved, emitted, complete, syncs, adds>>

Next ==
    \/ Begin \/ ListPage \/ Checkpoint \/ Interrupt \/ DropEntries
    \/ \E x \in Ids : Add(x) \/ Remove(x)

Spec == Init /\ [][Next]_vars

\* The syncer asks for the next page as long as there is one, but it may be
\* interrupted any number of times.
FairSpec == Spec /\ WF_vars(ListPage)

-----------------------------------------------------------------------------
Pages == [start : Nat, total : Nat, ids : SUBSET Ids]

TypeOK ==
    /\ config \in Configs
    /\ pos \in [Ids -> Nat]
    /\ total \in Nat
    /\ \A x \in Ids : pos[x] <= total
    /\ \A x, y \in Ids : pos[x] # 0 /\ pos[x] = pos[y] => x = y
    /\ cache \subseteq Pages
    /\ next \in Nat /\ saved \in Nat
    /\ emitted \subseteq Ids
    /\ complete \in BOOLEAN
    /\ syncs \in Nat /\ adds \in Nat /\ removals \in Nat /\ removed \in Nat
    /\ steady \subseteq Present

\* What the pages before index i may miss after r removals: as many entries
\* at every edge between two of them with a cache, as many in all without.
Allowed(c, r, i) == r * (IF c THEN (i - 1) \div Count ELSE 1)

\* An entry removed while the pages are read moves one entry over each edge
\* between two pages.  Pages that are read now, one after the other (user.go:
\* 208-213, group.go:128-135), lose at one of the edges only, that which they
\* have come to: a sync that ends misses at most one of the entries there all
\* the time for each entry removed.  Pages from the HTTP cache may be younger
\* and older by turns, and then each edge loses an entry.
MissesBounded ==
    complete => Cardinality(steady \ emitted)
                <= Allowed(CacheEnabled, removed, total + removed)

\* Without removals a sync that ends has every entry there all the time.
NothingMissed == complete /\ removals = 0 => steady \subseteq emitted

\* Unless it is interrupted over and over, a sync ends.
SyncEnds == <>[](next = 0) \/ []<><<Interrupt>>_vars
=============================================================================
