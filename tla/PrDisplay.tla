----------------------------- MODULE PrDisplay -----------------------------
(***************************************************************************)
(* What `dbar status` shows of a pull request, over time: the refreshes    *)
(* that ask GitHub and fill the cache (run_refresh in src/lib.rs,          *)
(* refresh_pr_cache in src/status/mod.rs), the entries as they age         *)
(* (src/cache/mod.rs), their keys (CacheKey), the settings of the two      *)
(* commands (Settings), and around them GitHub, the checkouts and the      *)
(* wall clock.                                                             *)
(*                                                                         *)
(* PrCache has a refresh call by call; here it is two steps, so that ages  *)
(* may be counted: from its settings to GitHub's answer, and the store.    *)
(* Instants are kept as ages up to a horizon past which none matters.      *)
(***************************************************************************)
EXTENDS Integers, FiniteSets, Functions, Settings, CacheKey

CONSTANTS
    Dirs,           \* project directories, as fields of a key
    Heads,          \* the branches each of them may have checked out
    NoBranch,       \* a detached HEAD, or a branch that could not be read
    Replies,        \* what gh may print for each directory and branch, "" for no PR
    Mocks,          \* what a mock client may be made to say, likewise
    Numbered,       \* the number in the name of a branch, "" if there is none
    UserDir,        \* the cache directory of the platform
    Stacks,         \* the files and environments the two commands may be given
    StatusFlags,    \* the flags a status may be given
    RefreshFlags,   \* the flags a refresh may be given
    MaxAnswers,     \* bound: answers of GitHub's on their way into the cache
    MaxTtl,         \* bound: the longest TTL any layer sets
    MaxLag,         \* bound: seconds from GitHub's answer to the entry's stamp
    MaxBack         \* bound: seconds the wall clock is behind

Branches == (UNION {Heads[d] : d \in Dirs}) \ {NoBranch}
Pairs    == {p \in Dirs \X Branches : p[2] \in Heads[p[1]]}
Values(pair) == {IF r # "" THEN r ELSE Numbered[pair[2]] : r \in Replies[pair] \cup Mocks}
Layers   == {stack.status : stack \in Stacks} \cup {stack.refresh : stack \in Stacks}

\* MockGitHubClient::new, for a command that has a mock client.
MockSays(settings) ==
    LET value == Setting(settings, "github_mock_pr", "") IN
    IF value = "none" THEN "" ELSE value

\* The digest is taken to tell the streams of the pairs at hand apart; what settings
\* that load say is within the bounds.
ASSUME PrDisplayAssumption ==
    /\ Dirs \subseteq Fields /\ Branches \subseteq Fields
    /\ DOMAIN Heads = Dirs /\ DOMAIN Replies = Pairs
    /\ \A p, q \in Pairs : Fnv(Absorbed(p[1], p[2])) = Fnv(Absorbed(q[1], q[2]))
                               => Absorbed(p[1], p[2]) = Absorbed(q[1], q[2])
    /\ \A flags \in StatusFlags \cup RefreshFlags, l \in Layers :
           Loads(Merged(flags, l)) =>
               /\ \A cwd \in Dirs : ProjectDir(Merged(flags, l), cwd) \in Dirs
               /\ StatusTtl(Merged(flags, l)) \in 0..MaxTtl
               /\ RefreshTtl(Merged(flags, l)) \in 0..MaxTtl
               /\ MockSays(Merged(flags, l)) \in Mocks
    /\ {MaxTtl, MaxLag, MaxBack} \subseteq Nat
    /\ DefaultTtl \in 0..MaxTtl

\* Ages past these tell nothing apart: an entry so old is expired for every TTL,
\* however far the clock is set back.
Horizon == MaxTtl + MaxBack + 1
Upto(limit, n) == IF n < limit THEN n ELSE limit

VARIABLES
    layers,     \* the file and the environment of each command
    head,       \* the branch each directory has checked out
    github,     \* what gh would print for each pair by now
    store,      \* the entries there are, by their path
    answers,    \* the answers refreshes may still store, each of one refresh or more
    back        \* the seconds the wall clock is behind

vars == <<layers, head, github, store, answers, back>>

Init ==
    /\ layers \in Stacks
    /\ head \in {h \in [Dirs -> Branches \cup {NoBranch}] : \A d \in Dirs : h[d] \in Heads[d]}
    /\ github \in {g \in [Pairs -> UNION {Replies[p] : p \in Pairs}] :
                       \A p \in Pairs : g[p] \in Replies[p]}
    /\ store = [p \in {} |-> p]
    /\ answers = {}
    /\ back = 0

-----------------------------------------------------------------------------

\* load_cached_value: an age below zero is saturated, and one that is the TTL
\* is fresh.
Age(path) == IF store[path].age < 0 THEN 0 ELSE store[path].age
FreshAt(path, ttl) == path \in DOMAIN store /\ Age(path) <= ttl

\* Faulty variant: a sweep takes what is as old as its TTL.
SweptAtTtl(dir, ttl) ==
    LET expired == {p \in DOMAIN store : p[1] = dir /\ Age(p) >= ttl}
    IN  {Restrict(store, DOMAIN store \ gone) : gone \in SUBSET expired}

\* sweep_cache_dir, which is bounded and may fail: any of the entries in the
\* directory that the sweeper's TTL is past.
Swept(dir, ttl) ==
    LET expired == {p \in DOMAIN store : p[1] = dir /\ ~FreshAt(p, ttl)}
    IN  {Restrict(store, DOMAIN store \ gone) : gone \in SUBSET expired}

With(path, e) ==
    [p \in DOMAIN store \cup {path} |-> IF p = path THEN e ELSE store[p]]

RefreshSettings(flags) == Merged(flags, layers.refresh)
StatusSettings(flags) == Merged(flags, layers.status)

\* GhCliClient::pr_number: no open PR is an empty output, and no failure.
GhSays(pair) == github[pair]

\* The client run_refresh picks.
Asked(settings, pair) ==
    IF "github_mock_pr" \in DOMAIN settings THEN MockSays(settings) ELSE GhSays(pair)

\* decide: without a PR, what the name of the branch says.
Decided(reply, branch) == IF reply # "" THEN reply ELSE Numbered[branch]

PathOf(settings, dir) == CachePath(CacheDir(settings, UserDir), dir, head[dir])

\* A refresh that its settings and the checkout let come as far as the cache.
Sweeps(cwd, settings) ==
    /\ Loads(settings)
    /\ head[ProjectDir(settings, cwd)] # NoBranch
    /\ store' \in Swept(CacheDir(settings, UserDir), RefreshTtl(settings))

Hits(cwd, settings) ==
    FreshAt(PathOf(settings, ProjectDir(settings, cwd)), RefreshTtl(settings))

\* It finds a fresh entry and leaves GitHub alone.
RefreshHits(cwd, flags) ==
    /\ Sweeps(cwd, RefreshSettings(flags)) /\ Hits(cwd, RefreshSettings(flags))
    /\ UNCHANGED <<layers, head, github, answers, back>>

\* It finds none, or one that cannot be read, and asks.
RefreshAsks(cwd, flags) ==
    LET s    == RefreshSettings(flags)
        dir  == ProjectDir(s, cwd)
        pair == <<dir, head[dir]>>
    IN
    /\ Sweeps(cwd, s)
    /\ answers' = answers \cup
          {[path |-> PathOf(s, dir), of |-> pair,
            value |-> Decided(Asked(s, pair), head[dir]), lag |-> 0]}
    /\ Cardinality(answers') <= MaxAnswers
    /\ UNCHANGED <<layers, head, github, back>>

\* Faulty variant: a lookup that failed leaves an entry without a number.
RefreshFailsStoring(cwd, flags) ==
    LET s   == RefreshSettings(flags)
        dir == ProjectDir(s, cwd)
    IN
    /\ Loads(s) /\ head[dir] # NoBranch /\ ~Hits(cwd, s)
    /\ store' = With(PathOf(s, dir), [value |-> "", of |-> <<dir, head[dir]>>,
                                      age |-> 0, taken |-> 0])
    /\ UNCHANGED <<layers, head, github, answers, back>>

\* It finds none, and the lookup fails or the process is killed.
RefreshFails(cwd, flags) ==
    /\ Sweeps(cwd, RefreshSettings(flags)) /\ ~Hits(cwd, RefreshSettings(flags))
    /\ UNCHANGED <<layers, head, github, answers, back>>

Entry(a) == [value |-> a.value, of |-> a.of, age |-> 0, taken |-> a.lag]

\* Faulty variant: an entry that is there keeps its stamp.
StoreKeepsStamp(a) ==
    LET age == IF a.path \in DOMAIN store THEN store[a.path].age ELSE 0 IN
    /\ store' = With(a.path, [Entry(a) EXCEPT !.age = age])
    /\ UNCHANGED <<layers, head, github, answers, back>>

\* store_cached_value: the entry is stamped with the time of its writing, not with
\* that of the answer in it.
Store(a) ==
    /\ store' = With(a.path, Entry(a))
    /\ UNCHANGED <<layers, head, github, answers, back>>

-----------------------------------------------------------------------------
(* What goes on around the two commands.                                   *)

Older(e) == [e EXCEPT !.age = Upto(Horizon, @ + 1),
                      !.taken = Upto(Horizon + MaxLag, @ + 1)]

\* An answer that has not been stored by then never is.
Tick ==
    /\ store' = [p \in DOMAIN store |-> Older(store[p])]
    /\ answers' = {[a EXCEPT !.lag = @ + 1] : a \in {a \in answers : a.lag < MaxLag}}
    /\ UNCHANGED <<layers, head, github, back>>

\* The wall clock is set, back or forward.
SetClock(to) ==
    /\ to # back /\ back' = to
    /\ store' = [p \in DOMAIN store |->
                    [store[p] EXCEPT !.age = Upto(Horizon, @ + back - to)]]
    /\ UNCHANGED <<layers, head, github, answers>>

Checkout(dir) ==
    /\ head' \in {[head EXCEPT ![dir] = b] : b \in Heads[dir] \ {head[dir]}}
    /\ UNCHANGED <<layers, github, store, answers, back>>

AnswerChanges(pair) ==
    /\ github' \in {[github EXCEPT ![pair] = v] : v \in Replies[pair] \ {github[pair]}}
    /\ UNCHANGED <<layers, head, store, answers, back>>

Refresh ==
    \E cwd \in Dirs, flags \in RefreshFlags :
        RefreshHits(cwd, flags) \/ RefreshAsks(cwd, flags) \/ RefreshFails(cwd, flags)

Next ==
    \/ Refresh
    \/ \E a \in answers : Store(a)
    \/ Tick
    \/ \E to \in 0..MaxBack : SetClock(to)
    \/ \E dir \in Dirs : Checkout(dir)
    \/ \E pair \in Pairs : AnswerChanges(pair)

\* Time passes.
Spec == Init /\ [][Next]_vars /\ WF_vars(Tick)

-----------------------------------------------------------------------------

Entries == [value : UNION {Values(p) : p \in Pairs}, of : Pairs,
            age : -MaxBack..Horizon, taken : 0..Horizon + MaxLag]

\* An entry holds what decide may find for its pair, and so does an answer on its way.
TypeOK ==
    /\ layers \in Stacks
    /\ \A d \in Dirs : head[d] \in Heads[d]
    /\ \A p \in Pairs : github[p] \in Replies[p]
    /\ back \in 0..MaxBack
    /\ \A p \in DOMAIN store : store[p] \in Entries /\ store[p].value \in Values(store[p].of)
    /\ \A a \in answers : a.lag \in 0..MaxLag /\ a.value \in Values(a.of)

\* A status that finds a fresh entry, and the value in it.
Finds(cwd, flags) ==
    LET s == StatusSettings(flags) IN
    /\ Loads(s) /\ ShowsPr(s)
    /\ head[ProjectDir(s, cwd)] # NoBranch
    /\ FreshAt(PathOf(s, ProjectDir(s, cwd)), StatusTtl(s))

Found(cwd, flags) ==
    LET s == StatusSettings(flags) IN store[PathOf(s, ProjectDir(s, cwd))]

\* What status shows GitHub once answered for the very directory and branch of the
\* status, and that no longer ago than the TTL of the status and what neither side
\* can see: the way from the answer to the stamp, and how far the clock is behind.
ShownWasAnswered ==
    \A cwd \in Dirs, flags \in StatusFlags :
        Finds(cwd, flags) =>
            LET s == StatusSettings(flags)
                dir == ProjectDir(s, cwd)
            IN  /\ Found(cwd, flags).of = <<dir, head[dir]>>
                /\ Found(cwd, flags).taken <= StatusTtl(s) + back + MaxLag

\* A refresh whose sweep is through and whose TTL is shorter than that of a status with
\* the same cache directory.
SweepsEarlier(cwd, flags, status) ==
    LET r == RefreshSettings(flags)
        s == StatusSettings(status)
    IN  /\ Sweeps(cwd, r)
        /\ CacheDir(r, UserDir) = CacheDir(s, UserDir)
        /\ RefreshTtl(r) < StatusTtl(s)

\* What a status shows it goes on showing until time passes, the clock is set, its
\* directory has another branch checked out, or a refresh with a shorter TTL of its own
\* sweeps the same cache: no sweep for whatever project takes an entry within its TTL
\* (src/cache/retention.rs, sweep_expired_entries: "that entry's own recorded timestamp
\* puts it past `ttl`"), no answer however late leaves its key without one, and a refresh
\* that finds an entry, fails or is killed leaves it where it is.
ShownUntilExpired ==
    [][\A cwd \in Dirs, flags \in StatusFlags :
           Finds(cwd, flags) /\ ~Finds(cwd, flags)' =>
               \/ Tick
               \/ \E to \in 0..MaxBack : SetClock(to)
               \/ Checkout(ProjectDir(StatusSettings(flags), cwd))
               \/ \E d \in Dirs, f \in RefreshFlags : SweepsEarlier(d, f, flags)]_vars

NoFlags == [n \in {} |-> n]

\* Two commands without flags that load, and meet in one entry.
Served(cwd) ==
    LET s == StatusSettings(NoFlags)
        r == RefreshSettings(NoFlags)
    IN  /\ Loads(s) /\ Loads(r) /\ ShowsPr(s)
        /\ ProjectDir(s, cwd) = cwd /\ ProjectDir(r, cwd) = cwd
        /\ CacheDir(s, UserDir) = CacheDir(r, UserDir)

Shows(cwd, value) == Finds(cwd, NoFlags) /\ Found(cwd, NoFlags).value = value

\* Once neither the checkout nor the answer changes any more, a status shows no
\* other answer from some time on, and this one again and again, if refreshes of the
\* directory go on storing: whatever else is refreshed, swept and stored meanwhile,
\* with whatever TTL, and however the clock is set.
SettledAnswerIsShown ==
    \A pair \in Pairs : \A value \in Values(pair) :
        LET cwd == pair[1]
            answer == Decided(Asked(RefreshSettings(NoFlags), pair), pair[2])
        IN
        /\ []<><<\E a \in answers : a.of = pair /\ Store(a)>>_vars
        /\ <>[](Served(cwd) /\ head[cwd] = pair[2] /\ answer = value)
        => /\ <>[](Finds(cwd, NoFlags) => Shows(cwd, value))
           /\ []<>Shows(cwd, value)
=============================================================================
