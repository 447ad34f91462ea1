------------------------------ MODULE Backlog ------------------------------
(***************************************************************************)
(* The cache directory under one bounded sweep after another               *)
(* (src/cache/retention.rs).  PrCache looks into one sweep; here a sweep   *)
(* is one step, and the question is what many of them come to.             *)
(*                                                                         *)
(* A directory is listed in an order of its own, which stays as it is for  *)
(* as long as no name comes or goes.                                       *)
(***************************************************************************)
EXTENDS Naturals, Sequences, FiniteSets

CONSTANTS
    ListLimit,       \* SWEEP_LIST_LIMIT
    InspectLimit,    \* SWEEP_INSPECT_LIMIT
    RemovalLimit,    \* SWEEP_REMOVAL_LIMIT
    MaxNames,        \* bound: files in the directory at first
    MaxStores        \* bound: entries stored

ASSUME BacklogAssumption ==
    {ListLimit, InspectLimit, RemovalLimit, MaxNames, MaxStores} \subseteq Nat \ {0}

\* foreign: not a regular file with a name dbar writes; the others are.  garbled: an
\* entry that does not parse or is too large, which a sweep leaves alone.  broken: a
\* file it fails at, because it cannot be opened or read, is no text, has no
\* modification time or cannot be removed.  fresh, expired: by the TTL.
Kinds == {"foreign", "garbled", "broken", "fresh", "expired"}
Owned == Kinds \ {"foreign"}

VARIABLES
    listing,    \* the kinds of the files, in the order they are listed
    stores

vars == <<listing, stores>>

Init ==
    /\ listing \in UNION {[1..n -> Kinds] : n \in 0..MaxNames}
    /\ stores = 0

Amid(names, kinds) == {i \in DOMAIN names : names[i] \in kinds}
Before(i, places)  == Cardinality({j \in places : j < i})

\* The files of these kinds that are listed before every broken one, or are the first.
Ahead(names, kinds) ==
    {i \in Amid(names, kinds) : Before(i, Amid(names, {"broken"})) = 0}

\* Faulty variant: an entry that does not parse is an error, too.
InspectedUpToGarbled(names) ==
    LET owned   == Amid(names, Owned)
        reached == {i \in Ahead(names, Owned) :
                        i <= ListLimit /\ Before(i, owned) < InspectLimit
                        /\ Before(i, Amid(names, {"garbled"})) = 0}
    IN  {i \in reached : Before(i, Amid(names, {"expired"}) \cap reached) < RemovalLimit}

\* The files a sweep opens: among the names it lists, those dbar owns, until it
\* has opened or removed as many as it may, or fails at one.
Inspected(names) ==
    LET owned   == Amid(names, Owned)
        reached == {i \in Ahead(names, Owned) :
                        i <= ListLimit /\ Before(i, owned) < InspectLimit}
    IN  {i \in reached : Before(i, Amid(names, {"expired"}) \cap reached) < RemovalLimit}

Reclaimed(names) == {i \in Inspected(names) : names[i] = "expired"}

\* What is left of names without the files at gone, in the same order.
Without(names, gone) ==
    LET kept == DOMAIN names \ gone
        Nth(n) == CHOOSE i \in kept : Before(i, kept) = n - 1
    IN  [n \in 1..Cardinality(kept) |-> names[Nth(n)]]

Sweep ==
    /\ listing' = Without(listing, Reclaimed(listing))
    /\ UNCHANGED stores

\* The TTL of an entry, or of a temp file nobody renamed, runs out; that the file
\* cannot be removed is not noticed before.
Expire(i) ==
    /\ listing[i] = "fresh"
    /\ \E kind \in {"expired", "broken"} : listing' = [listing EXCEPT ![i] = kind]
    /\ UNCHANGED stores

\* A refresh stores an entry: over the file that its key has, whatever its kind, or
\* under a new name, which the directory lists wherever it likes.
Store ==
    /\ stores < MaxStores
    /\ stores' = stores + 1
    /\ \/ \E i \in Amid(listing, Owned) : listing' = [listing EXCEPT ![i] = "fresh"]
       \/ \E i \in 0..Len(listing) :
              listing' = SubSeq(listing, 1, i) \o <<"fresh">>
                         \o SubSeq(listing, i + 1, Len(listing))

Next == Sweep \/ Store \/ \E i \in DOMAIN listing : Expire(i)

\* Lookups go on, so sweeps do, and time passes.
Spec == Init /\ [][Next]_vars /\ WF_vars(Sweep) /\ WF_vars(\E i \in DOMAIN listing : Expire(i))

-----------------------------------------------------------------------------

\* The files a sweep passes over, before it fails at one if it does, would leave room
\* for n others in all it may list, open and remove.
Room(n) ==
    /\ Cardinality(Ahead(listing, Kinds \ {"broken", "expired"})) + n <= ListLimit
    /\ Cardinality(Ahead(listing, Owned \ {"broken", "expired"})) + n <= InspectLimit
    /\ n <= RemovalLimit

\* Wherever in the listing the expired files are, a sweep reclaims as many of those
\* ahead of the first file it fails at as it has room for, and no other file: so the
\* backlog there is cleared over successive runs (sweep_cache_dir in
\* src/cache/retention.rs), and in how many is known beforehand.
SweepsKeepPace ==
    LET backlog == Cardinality(Amid(listing, {"expired"}))
        after   == Without(listing, Reclaimed(listing))
    IN  /\ \A n \in 0..Cardinality(Ahead(listing, {"expired"})) :
               Room(n) => Cardinality(Amid(after, {"expired"})) <= backlog - n
        /\ \A kind \in Kinds \ {"expired"} :
               Cardinality(Amid(after, {kind})) = Cardinality(Amid(listing, {kind}))

NoBacklog == Amid(listing, {"expired"}) = {}

\* Every sweep ends at the same file, or files no sweep ever removes fill what it
\* opens, or what it lists.
Obstructed ==
    \/ Amid(listing, {"broken"}) # {}
    \/ Cardinality(Amid(listing, {"garbled"})) >= InspectLimit
    \/ Cardinality(Amid(listing, {"foreign", "garbled"})) >= ListLimit

\* Where from some time on no sweep fails and the files that stay leave it room, a
\* backlog of any length is cleared by the sweeps that follow one another, whatever
\* the order of listing, and stays cleared once nothing is stored any more.
RoomyBacklogClears == <>[]~Obstructed => <>[]NoBacklog
=============================================================================
