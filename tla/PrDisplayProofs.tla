-------------------------- MODULE PrDisplayProofs --------------------------
(***************************************************************************)
(* Proofs about PrDisplay: what a status shows was answered for the        *)
(* directory and the branch it is shown for, and not too long ago.         *)
(***************************************************************************)
EXTENDS PrDisplay, SequenceTheorems, TLAPS

-----------------------------------------------------------------------------
(* The key: the frames keep the two fields apart, whatever bytes they are    *)
(* made of.                                                                  *)

\* A sequence that begins with s agrees with s on the length of s, and goes on as
\* what follows s.
LEMMA ConcatAt ==
    ASSUME NEW s \in Seq(Bytes), NEW t \in Seq(Bytes)
    PROVE  /\ s \o t \in Seq(Bytes) /\ Len(s \o t) = Len(s) + Len(t)
           /\ \A i \in 1..Len(s) : (s \o t)[i] = s[i]
           /\ \A i \in 1..Len(t) : (s \o t)[Len(s) + i] = t[i]
<1>1. Len(s) \in Nat /\ Len(t) \in Nat
  BY LenProperties
<1>2. /\ s \o t \in Seq(Bytes)
      /\ Len(s \o t) = Len(s) + Len(t)
      /\ \A i \in 1 .. Len(s) + Len(t) : (s \o t)[i] =
                     IF i <= Len(s) THEN s[i] ELSE t[i - Len(s)]
  BY ConcatProperties
<1>3. ASSUME NEW i \in 1..Len(t) PROVE (s \o t)[Len(s) + i] = t[i]
  <2>1. Len(s) + i \in 1 .. Len(s) + Len(t) /\ ~(Len(s) + i <= Len(s))
    BY <1>1
  <2>2. (Len(s) + i) - Len(s) = i
    BY <1>1
  <2>3. QED
    BY <1>2, <2>1, <2>2
<1>4. QED
  BY <1>1, <1>2, <1>3

\* What the proofs below use of sequences of bytes.
LEMMA Associates ==
    \A s, t, u \in Seq(Bytes) : (s \o t) \o u = s \o (t \o u)
BY ConcatAssociative

LEMMA CancelsLeft ==
    \A s, t, u \in Seq(Bytes) : s \o t = s \o u => t = u
BY ConcatSimplifications

LEMMA Closed ==
    \A s, t \in Seq(Bytes) : s \o t \in Seq(Bytes)
BY ConcatProperties

\* Two sequences that are equal and begin with as many bytes begin and go on with
\* the same bytes.
LEMMA ConcatCancels ==
    ASSUME NEW s \in Seq(Bytes), NEW t \in Seq(Bytes),
           NEW u \in Seq(Bytes), NEW v \in Seq(Bytes),
           s \o t = u \o v, Len(s) = Len(u)
    PROVE  s = u /\ t = v
<1>1. \A i \in 1..Len(s) : s[i] = u[i]
  <2>1. \A i \in 1..Len(s) : (s \o t)[i] = s[i]
    BY ConcatAt
  <2>2. \A i \in 1..Len(u) : (u \o v)[i] = u[i]
    BY ConcatAt
  <2>3. QED
    BY <2>1, <2>2
<1>2. s = u
  BY <1>1, SeqEqual
<1>3. t = v
  BY <1>2, CancelsLeft
<1>4. QED
  BY <1>2, <1>3

\* A decimal that goes on where another sequence has ended has no colon there.
LEMMA NoColonInside ==
    ASSUME NEW a \in Seq(Bytes), NEW b \in Seq(Bytes),
           NEW at \in Seq(Bytes), NEW bt \in Seq(Bytes),
           b \in Seq(Digits), at[1] = Colon, Len(at) >= 1,
           a \o at = b \o bt
    PROVE  ~(Len(a) < Len(b))
<1>1. SUFFICES ASSUME Len(a) < Len(b) PROVE FALSE
  OBVIOUS
<1>2. Len(a) \in Nat /\ Len(b) \in Nat /\ Len(at) \in Nat
  BY LenProperties
<1>3. (a \o at)[Len(a) + 1] = at[1]
  <2>0. Len(at) >= 1
    OBVIOUS
  <2>1. 1 \in 1..Len(at)
    BY <1>2, <2>0
  <2>2. \A i \in 1..Len(at) : (a \o at)[Len(a) + i] = at[i]
    BY ConcatAt
  <2>3. QED
    BY <2>1, <2>2
<1>4. Len(a) + 1 \in 1..Len(b)
  BY <1>1, <1>2
<1>5. (b \o bt)[Len(a) + 1] = b[Len(a) + 1]
  BY <1>4, ConcatAt
<1>6. b[Len(a) + 1] \in Digits
  BY <1>4, ElementOfSeq
<1>7. QED
  BY <1>3, <1>5, <1>6, CacheKeyAssumption

\* Two frames, and what follows them.
FramesAgree(m, n, u, v) ==
    Decimal[m] \o (<<Colon>> \o u) = Decimal[n] \o (<<Colon>> \o v)

\* The first colon of a framed field ends its frame: two streams that are equal
\* have the same length in front of it, and the same rest.
LEMMA FramesSplit ==
    ASSUME NEW m \in 0..MaxLen, NEW n \in 0..MaxLen,
           NEW u \in Seq(Bytes), NEW v \in Seq(Bytes),
           FramesAgree(m, n, u, v)
    PROVE  m = n /\ u = v
<1> DEFINE x == Decimal[m]
           y == Decimal[n]
           xs == <<Colon>> \o u
           ys == <<Colon>> \o v
<1>1. /\ x \in Seq(Digits) /\ y \in Seq(Digits)
      /\ x \in Seq(Bytes) /\ y \in Seq(Bytes) /\ <<Colon>> \in Seq(Bytes)
  BY CacheKeyAssumption
<1>2. /\ xs \in Seq(Bytes) /\ Len(xs) = 1 + Len(u) /\ xs[1] = Colon
      /\ ys \in Seq(Bytes) /\ Len(ys) = 1 + Len(v) /\ ys[1] = Colon
  <2>1. Len(<<Colon>>) = 1 /\ <<Colon>>[1] = Colon /\ 1 \in 1..1
    OBVIOUS
  <2>2. QED
    BY <1>1, <2>1, ConcatAt
<1> HIDE DEF x, y, xs, ys
<1>4. x \o xs = y \o ys
  BY DEF FramesAgree, x, y, xs, ys
<1>5. Len(x) = Len(y)
  <2>1. Len(x) \in Nat /\ Len(y) \in Nat /\ Len(u) \in Nat /\ Len(v) \in Nat
    BY <1>1, LenProperties
  <2>2. Len(xs) >= 1 /\ Len(ys) >= 1
    BY <1>2, <2>1
  <2>3. ~(Len(x) < Len(y)) /\ ~(Len(y) < Len(x))
    BY <1>1, <1>2, <1>4, <2>2, NoColonInside, Zenon
  <2>4. QED
    BY <2>1, <2>3
<1>6. x = y /\ xs = ys
  BY <1>1, <1>2, <1>4, <1>5, ConcatCancels
<1>7. m = n
  BY <1>6, CacheKeyAssumption DEF x, y
<1>8. u = v
  <2>1. <<Colon>> \o u = <<Colon>> \o v
    BY <1>6 DEF xs, ys
  <2>2. QED
    BY <1>1, <2>1, CancelsLeft
<1>9. QED
  BY <1>7, <1>8

\* Regrouping from the left to the right.
Regrouped(s, t, u, v, w) ==
    (((s \o t) \o u) \o v) \o w = s \o (t \o (u \o (v \o w)))

LEMMA Regroups == \A s, t, u, v, w \in Seq(Bytes) : Regrouped(s, t, u, v, w)
<1> TAKE s, t, u, v, w \in Seq(Bytes)
<1> DEFINE st  == s \o t
           stu == st \o u
           vw  == v \o w
           uvw == u \o vw
<1>1. st \in Seq(Bytes)
  BY Closed
<1>2. vw \in Seq(Bytes)
  BY Closed
<1> HIDE DEF st, vw
<1>3. stu \in Seq(Bytes)
  BY <1>1, Closed
<1>4. uvw \in Seq(Bytes)
  BY <1>2, Closed
<1> HIDE DEF stu, uvw
<1>5. (stu \o v) \o w = stu \o vw
  BY <1>3, Associates DEF vw
<1>6. stu \o vw = st \o uvw
  BY <1>1, <1>2, Associates DEF stu, uvw
<1>7. st \o uvw = s \o (t \o uvw)
  BY <1>4, Associates DEF st
<1>8. QED
  BY <1>5, <1>6, <1>7 DEF Regrouped, st, stu, vw, uvw

\* What digest absorbs of a pair, as one frame and field after another.
LEMMA AbsorbedIs ==
    ASSUME NEW d \in Fields, NEW b \in Fields
    PROVE  /\ Len(d) \in 0..MaxLen /\ Len(b) \in 0..MaxLen
           /\ d \in Seq(Bytes) /\ b \in Seq(Bytes)
           /\ Decimal[Len(b)] \o (<<Colon>> \o b) \in Seq(Bytes)
           /\ d \o (Decimal[Len(b)] \o (<<Colon>> \o b)) \in Seq(Bytes)
           /\ Absorbed(d, b) = Decimal[Len(d)] \o (<<Colon>> \o
                                  (d \o (Decimal[Len(b)] \o (<<Colon>> \o b))))
<1> DEFINE x == Decimal[Len(d)]
           y == Decimal[Len(b)]
           c == <<Colon>>
<1>1. /\ Len(d) \in 0..MaxLen /\ Len(b) \in 0..MaxLen
      /\ d \in Seq(Bytes) /\ b \in Seq(Bytes)
  BY LenProperties, CacheKeyAssumption DEF Fields
<1>2. x \in Seq(Bytes) /\ y \in Seq(Bytes) /\ c \in Seq(Bytes) /\ <<>> \in Seq(Bytes)
  BY <1>1, CacheKeyAssumption
<1>3. Absorbed(d, b) = ((((<<>> \o x) \o c) \o d) \o y) \o c \o b
  BY DEF Absorbed, AbsorbField
<1> HIDE DEF x, y, c
<1>4. <<>> \o x = x
  BY <1>2, ConcatEmptySeq
<1>5. /\ x \o c \in Seq(Bytes) /\ (x \o c) \o d \in Seq(Bytes)
      /\ ((x \o c) \o d) \o y \in Seq(Bytes)
      /\ c \o b \in Seq(Bytes) /\ y \o (c \o b) \in Seq(Bytes)
      /\ d \o (y \o (c \o b)) \in Seq(Bytes)
  BY <1>1, <1>2, Closed, Zenon
<1>6. ((((x \o c) \o d) \o y) \o c) \o b = (((x \o c) \o d) \o y) \o (c \o b)
  <2> DEFINE xcdy == ((x \o c) \o d) \o y
  <2>1. xcdy \in Seq(Bytes)
    BY <1>5
  <2> HIDE DEF xcdy
  <2>2. (xcdy \o c) \o b = xcdy \o (c \o b)
    BY <1>1, <1>2, <2>1, Associates
  <2>3. QED
    BY <2>2 DEF xcdy
<1>7. (((x \o c) \o d) \o y) \o (c \o b) = x \o (c \o (d \o (y \o (c \o b))))
  <2>1. d \in Seq(Bytes)
    BY <1>1
  <2>2. Regrouped(x, c, d, y, c \o b)
    BY <1>2, <1>5, <2>1, Regroups
  <2>3. QED
    BY <2>2 DEF Regrouped
<1>8. Absorbed(d, b) = x \o (c \o (d \o (y \o (c \o b))))
  BY <1>3, <1>4, <1>6, <1>7, Zenon
<1>9. QED
  BY <1>1, <1>5, <1>8 DEF x, y, c

\* Two pairs of fields whose digests absorb the same bytes are the same pair ("the
\* framing is self-delimiting", cache_key.rs: field boundaries cannot be forged by
\* moving characters from one field to the next).
THEOREM FramingSeparates ==
    ASSUME NEW d \in Fields, NEW b \in Fields, NEW e \in Fields, NEW f \in Fields,
           Absorbed(d, b) = Absorbed(e, f)
    PROVE  d = e /\ b = f
<1> DEFINE R == Decimal[Len(b)] \o (<<Colon>> \o b)
           S == Decimal[Len(f)] \o (<<Colon>> \o f)
<1>1. /\ Len(d) \in 0..MaxLen /\ Len(b) \in 0..MaxLen
      /\ d \in Seq(Bytes) /\ b \in Seq(Bytes) /\ R \in Seq(Bytes) /\ d \o R \in Seq(Bytes)
      /\ Absorbed(d, b) = Decimal[Len(d)] \o (<<Colon>> \o (d \o R))
  BY AbsorbedIs
<1>2. /\ Len(e) \in 0..MaxLen /\ Len(f) \in 0..MaxLen
      /\ e \in Seq(Bytes) /\ f \in Seq(Bytes) /\ S \in Seq(Bytes) /\ e \o S \in Seq(Bytes)
      /\ Absorbed(e, f) = Decimal[Len(e)] \o (<<Colon>> \o (e \o S))
  BY AbsorbedIs
<1> HIDE DEF R, S
<1>3. Len(d) = Len(e) /\ d \o R = e \o S
  <2>1. FramesAgree(Len(d), Len(e), d \o R, e \o S)
    BY <1>1, <1>2 DEF FramesAgree
  <2>2. QED
    BY <1>1, <1>2, <2>1, FramesSplit
<1>4. d = e /\ R = S
  BY <1>1, <1>2, <1>3, ConcatCancels, Zenon
<1>5. b = f
  <2>1. FramesAgree(Len(b), Len(f), b, f)
    BY <1>4 DEF FramesAgree, R, S
  <2>2. QED
    BY <1>1, <1>2, <2>1, FramesSplit
<1>6. QED
  BY <1>4, <1>5

-----------------------------------------------------------------------------
(* The inductive invariant.                                                *)

\* The second component of the path of a pair, in whatever cache directory.
KeyOf(pair) == Fnv(Absorbed(pair[1], pair[2]))

\* An entry lies where its pair belongs, and its answer is older than the entry by
\* no more than its way into the cache and the setbacks of the clock.
EntryOK(path, e, late) ==
    /\ e \in Entries /\ e.value \in Values(e.of)
    /\ path[2] = KeyOf(e.of)
    /\ -late <= e.age
    /\ e.taken <= e.age + late + MaxLag

AnswerOK(a) ==
    /\ a = [path |-> a.path, of |-> a.of, value |-> a.value, lag |-> a.lag]
    /\ a.of \in Pairs /\ a.value \in Values(a.of) /\ a.lag \in 0..MaxLag
    /\ a.path[2] = KeyOf(a.of)

Surroundings ==
    /\ layers \in Stacks
    /\ head \in [Dirs -> Branches \cup {NoBranch}]
    /\ \A d \in Dirs : head[d] \in Heads[d]
    /\ github \in [Pairs -> UNION {Replies[p] : p \in Pairs}]
    /\ \A p \in Pairs : github[p] \in Replies[p]
    /\ back \in 0..MaxBack

IInv ==
    /\ Surroundings
    /\ \A p \in DOMAIN store : EntryOK(p, store[p], back)
    /\ \A a \in answers : AnswerOK(a)

-----------------------------------------------------------------------------
(* Lemmas.                                                                 *)

LEMMA Bounds ==
    /\ MaxTtl \in Nat /\ MaxLag \in Nat /\ MaxBack \in Nat
    /\ Horizon \in Nat /\ Horizon + MaxLag \in Nat
BY PrDisplayAssumption DEF Horizon

\* A key stands for one pair only.
LEMMA KeysSeparate ==
    ASSUME NEW p \in Pairs, NEW q \in Pairs, KeyOf(p) = KeyOf(q)
    PROVE  p = q
<1>1. Absorbed(p[1], p[2]) = Absorbed(q[1], q[2])
  BY PrDisplayAssumption DEF KeyOf
<1>2. /\ p[1] \in Fields /\ p[2] \in Fields /\ p = <<p[1], p[2]>>
      /\ q[1] \in Fields /\ q[2] \in Fields /\ q = <<q[1], q[2]>>
  BY PrDisplayAssumption DEF Pairs
<1>3. p[1] = q[1] /\ p[2] = q[2]
  BY <1>1, <1>2, FramingSeparates
<1>4. QED
  BY <1>2, <1>3

\* A directory that has a branch checked out makes a pair with it.
LEMMA HeadsArePairs ==
    ASSUME Surroundings, NEW dir \in Dirs, head[dir] # NoBranch
    PROVE  <<dir, head[dir]>> \in Pairs
BY DEF Surroundings, Pairs, Branches

\* What the settings of a command say is among what is modelled.
LEMMA SettingsInBounds ==
    ASSUME Surroundings, NEW cwd \in Dirs
    PROVE  /\ \A flags \in StatusFlags : Loads(StatusSettings(flags)) =>
                  /\ ProjectDir(StatusSettings(flags), cwd) \in Dirs
                  /\ StatusTtl(StatusSettings(flags)) \in 0..MaxTtl
           /\ \A flags \in RefreshFlags : Loads(RefreshSettings(flags)) =>
                  /\ ProjectDir(RefreshSettings(flags), cwd) \in Dirs
                  /\ RefreshTtl(RefreshSettings(flags)) \in 0..MaxTtl
                  /\ MockSays(RefreshSettings(flags)) \in Mocks
<1>1. layers.status \in Layers /\ layers.refresh \in Layers
  BY DEF Surroundings, Layers
<1>2. QED
  BY <1>1, PrDisplayAssumption DEF StatusSettings, RefreshSettings

\* A sweep takes entries away and changes none.
LEMMA SweepOnlyRemoves ==
    ASSUME NEW dir, NEW ttl, NEW swept \in Swept(dir, ttl)
    PROVE  /\ DOMAIN swept \subseteq DOMAIN store
           /\ \A p \in DOMAIN swept : swept[p] = store[p]
BY DEF Swept, Restrict

\* An entry that has just been stored.
LEMMA StoredIsOK ==
    ASSUME NEW a, AnswerOK(a), back \in 0..MaxBack
    PROVE  EntryOK(a.path, Entry(a), back)
<1> DEFINE e == Entry(a)
<1>1. e.value = a.value /\ e.of = a.of /\ e.age = 0 /\ e.taken = a.lag
  BY DEF Entry
<1>2. e \in Entries
  <2>1. 0 \in -MaxBack..Horizon /\ a.lag \in 0..Horizon + MaxLag
    BY Bounds DEF AnswerOK
  <2>2. a.value \in UNION {Values(p) : p \in Pairs} /\ a.of \in Pairs
    BY DEF AnswerOK
  <2>3. QED
    BY <2>1, <2>2 DEF Entry, Entries
<1>3. -back <= 0 /\ a.lag <= 0 + back + MaxLag
  BY Bounds DEF AnswerOK
<1> HIDE DEF e
<1>4. EntryOK(a.path, e, back)
  BY <1>1, <1>2, <1>3 DEF EntryOK, AnswerOK
<1>5. QED
  BY <1>4 DEF e

\* A second goes by: answer and entry age alike, but for the horizon.
LEMMA OlderIsOK ==
    ASSUME NEW path, NEW e, EntryOK(path, e, back), back \in 0..MaxBack
    PROVE  EntryOK(path, Older(e), back)
<1> DEFINE older == Older(e)
           age   == Upto(Horizon, e.age + 1)
           taken == Upto(Horizon + MaxLag, e.taken + 1)
<1>1. /\ e \in Entries /\ e.value \in Values(e.of) /\ path[2] = KeyOf(e.of)
      /\ -back <= e.age /\ e.taken <= e.age + back + MaxLag
      /\ e.age \in -MaxBack..Horizon /\ e.taken \in 0..Horizon + MaxLag
  BY DEF EntryOK, Entries
<1>2. /\ age \in -MaxBack..Horizon /\ taken \in 0..Horizon + MaxLag
      /\ -back <= age /\ taken <= age + back + MaxLag
  BY <1>1, Bounds DEF Upto
<1>3. older = [value |-> e.value, of |-> e.of, age |-> age, taken |-> taken]
  <2> HIDE DEF age, taken
  <2>1. older = [e EXCEPT !.age = age, !.taken = taken]
    BY DEF Older, older, age, taken
  <2> HIDE DEF older
  <2>2. QED
    BY <1>1, <2>1 DEF Entries
<1> HIDE DEF older, age, taken
<1>4. older \in Entries
  BY <1>1, <1>2, <1>3 DEF Entries
<1>5. EntryOK(path, older, back)
  BY <1>1, <1>2, <1>3, <1>4 DEF EntryOK
<1>6. QED
  BY <1>5 DEF older

\* The clock is set: the entry's age moves with it, its answer's does not.
LEMMA ResetIsOK ==
    ASSUME NEW path, NEW e, EntryOK(path, e, back), back \in 0..MaxBack,
           NEW to \in 0..MaxBack
    PROVE  EntryOK(path, [e EXCEPT !.age = Upto(Horizon, @ + back - to)], to)
<1> DEFINE reset == [e EXCEPT !.age = Upto(Horizon, @ + back - to)]
           age   == Upto(Horizon, e.age + back - to)
<1>1. /\ e \in Entries /\ e.value \in Values(e.of) /\ path[2] = KeyOf(e.of)
      /\ -back <= e.age /\ e.taken <= e.age + back + MaxLag
      /\ e.age \in -MaxBack..Horizon /\ e.taken \in 0..Horizon + MaxLag
  BY DEF EntryOK, Entries
<1>2. /\ age \in -MaxBack..Horizon
      /\ -to <= age /\ e.taken <= age + to + MaxLag
  BY <1>1, Bounds DEF Upto
<1>3. reset = [value |-> e.value, of |-> e.of, age |-> age, taken |-> e.taken]
  BY <1>1 DEF Entries
<1> HIDE DEF reset, age
<1>4. reset \in Entries
  BY <1>1, <1>2, <1>3 DEF Entries
<1>5. EntryOK(path, reset, to)
  BY <1>1, <1>2, <1>3, <1>4 DEF EntryOK
<1>6. QED
  BY <1>5 DEF reset

-----------------------------------------------------------------------------
(* The invariant is inductive.                                             *)

LEMMA InitOK == Init => IInv
<1> SUFFICES ASSUME Init PROVE IInv
  OBVIOUS
<1>1. Surroundings
  BY Bounds DEF Init, Surroundings
<1>2. DOMAIN store = {} /\ answers = {}
  BY DEF Init
<1>3. QED
  BY <1>1, <1>2 DEF IInv

\* What a sweep leaves is still as it should be.
LEMMA SweepsKeepEntries ==
    ASSUME IInv, NEW cwd, NEW s, Sweeps(cwd, s)
    PROVE  \A p \in DOMAIN store' : EntryOK(p, store'[p], back)
<1>1. store' \in Swept(CacheDir(s, UserDir), RefreshTtl(s))
  BY DEF Sweeps
<1>2. DOMAIN store' \subseteq DOMAIN store /\ \A p \in DOMAIN store' : store'[p] = store[p]
  BY <1>1, SweepOnlyRemoves
<1>3. QED
  BY <1>2 DEF IInv

\* A refresh that asks puts an answer on its way to the place of its pair.
LEMMA AsksOK ==
    ASSUME IInv, NEW cwd \in Dirs, NEW flags \in RefreshFlags, RefreshAsks(cwd, flags)
    PROVE  IInv'
<1> DEFINE s   == RefreshSettings(flags)
           dir == ProjectDir(s, cwd)
           new == [path |-> PathOf(s, dir), of |-> <<dir, head[dir]>>,
                   value |-> Decided(Asked(s, <<dir, head[dir]>>), head[dir]), lag |-> 0]
<1>1. /\ Sweeps(cwd, s) /\ answers' = answers \cup {new}
      /\ UNCHANGED <<layers, head, github, back>>
  BY DEF RefreshAsks
<1>2. Surroundings
  BY DEF IInv
<1>3. Loads(s) /\ head[dir] # NoBranch
  BY <1>1 DEF Sweeps
<1>4. dir \in Dirs
  BY <1>2, <1>3, SettingsInBounds
<1>5. <<dir, head[dir]>> \in Pairs
  BY <1>2, <1>3, <1>4, HeadsArePairs
<1>6. AnswerOK(new)
  <2>1. PathOf(s, dir)[2] = KeyOf(<<dir, head[dir]>>)
    BY DEF PathOf, CachePath, KeyOf
  <2>2. new.value \in Values(<<dir, head[dir]>>)
    <3>1. github[<<dir, head[dir]>>] \in Replies[<<dir, head[dir]>>]
      BY <1>2, <1>5 DEF Surroundings
    <3>2. MockSays(s) \in Mocks
      BY <1>2, <1>3, SettingsInBounds
    <3>3. Asked(s, <<dir, head[dir]>>) \in Replies[<<dir, head[dir]>>] \cup Mocks
      BY <3>1, <3>2 DEF Asked, GhSays
    <3> HIDE DEF s, dir
    <3>4. QED
      BY <3>3 DEF Decided, Values
  <2>3. 0 \in 0..MaxLag
    BY Bounds
  <2> HIDE DEF s, dir
  <2>4. QED
    BY <1>5, <2>1, <2>2, <2>3 DEF AnswerOK
<1>7. \A p \in DOMAIN store' : EntryOK(p, store'[p], back)
  BY <1>1, SweepsKeepEntries
<1> HIDE DEF new, s, dir
<1>8. \A a \in answers' : AnswerOK(a)
  BY <1>1, <1>6 DEF IInv
<1>9. Surroundings'
  BY <1>1, <1>2 DEF Surroundings
<1>10. QED
  BY <1>1, <1>7, <1>8, <1>9 DEF IInv

LEMMA StoreOK ==
    ASSUME IInv, NEW a \in answers, Store(a)
    PROVE  IInv'
<1>1. /\ store' = With(a.path, Entry(a))
      /\ UNCHANGED <<layers, head, github, answers, back>>
  BY DEF Store
<1>2. AnswerOK(a) /\ back \in 0..MaxBack
  BY DEF IInv, Surroundings
<1>3. ASSUME NEW p \in DOMAIN store' PROVE EntryOK(p, store'[p], back)
  <2>1. CASE p = a.path
    <3>1. store'[p] = Entry(a)
      BY <1>1, <2>1 DEF With
    <3>2. QED
      BY <1>2, <2>1, <3>1, StoredIsOK
  <2>2. CASE p # a.path
    <3>1. p \in DOMAIN store /\ store'[p] = store[p]
      BY <1>1, <1>3, <2>2 DEF With
    <3>2. QED
      BY <3>1 DEF IInv
  <2>3. QED
    BY <2>1, <2>2
<1>4. Surroundings' /\ \A b \in answers' : AnswerOK(b)
  BY <1>1 DEF IInv, Surroundings
<1>5. QED
  BY <1>1, <1>3, <1>4 DEF IInv

LEMMA TickOK ==
    ASSUME IInv, Tick
    PROVE  IInv'
<1>1. back \in 0..MaxBack /\ Surroundings'
  BY DEF IInv, Tick, Surroundings
<1>2. ASSUME NEW p \in DOMAIN store' PROVE EntryOK(p, store'[p], back')
  <2>1. /\ p \in DOMAIN store /\ back' = back
        /\ store'[p] = Older(store[p])
    BY <1>2 DEF Tick
  <2>2. EntryOK(p, store[p], back)
    BY <2>1 DEF IInv
  <2>3. EntryOK(p, store'[p], back)
    BY <1>1, <2>1, <2>2, OlderIsOK
  <2>4. QED
    BY <2>1, <2>3
<1>3. ASSUME NEW b \in answers' PROVE AnswerOK(b)
  <2>1. PICK a \in answers : a.lag < MaxLag /\ b = [a EXCEPT !.lag = @ + 1]
    BY <1>3 DEF Tick
  <2>2. AnswerOK(a)
    BY DEF IInv
  <2>3. b = [path |-> a.path, of |-> a.of, value |-> a.value, lag |-> a.lag + 1]
    BY <2>1, <2>2 DEF AnswerOK
  <2>4. a.lag + 1 \in 0..MaxLag
    BY <2>1, <2>2, Bounds DEF AnswerOK
  <2>5. QED
    BY <2>2, <2>3, <2>4 DEF AnswerOK
<1>4. QED
  BY <1>1, <1>2, <1>3 DEF IInv

LEMMA SetClockOK ==
    ASSUME IInv, NEW to \in 0..MaxBack, SetClock(to)
    PROVE  IInv'
<1>1. back' = to /\ UNCHANGED <<layers, head, github, answers>>
  BY DEF SetClock
<1>2. ASSUME NEW p \in DOMAIN store' PROVE EntryOK(p, store'[p], to)
  <2>1. /\ p \in DOMAIN store
        /\ store'[p] = [store[p] EXCEPT !.age = Upto(Horizon, @ + back - to)]
    BY <1>2 DEF SetClock
  <2>2. EntryOK(p, store[p], back) /\ back \in 0..MaxBack
    BY <2>1 DEF IInv, Surroundings
  <2>3. QED
    BY <2>1, <2>2, ResetIsOK
<1>3. Surroundings' /\ \A a \in answers' : AnswerOK(a)
  BY <1>1 DEF IInv, Surroundings
<1>4. QED
  BY <1>1, <1>2, <1>3 DEF IInv

LEMMA NextOK == IInv /\ [Next]_vars => IInv'
<1> SUFFICES ASSUME IInv, [Next]_vars PROVE IInv'
  OBVIOUS
<1>1. ASSUME NEW cwd \in Dirs, NEW flags \in RefreshFlags,
             RefreshHits(cwd, flags) \/ RefreshFails(cwd, flags)
      PROVE  IInv'
  <2>1. /\ Sweeps(cwd, RefreshSettings(flags))
        /\ UNCHANGED <<layers, head, github, answers, back>>
    BY <1>1 DEF RefreshHits, RefreshFails
  <2>2. \A p \in DOMAIN store' : EntryOK(p, store'[p], back)
    BY <2>1, SweepsKeepEntries
  <2>3. Surroundings' /\ \A a \in answers' : AnswerOK(a)
    BY <2>1 DEF IInv, Surroundings
  <2>4. QED
    BY <2>1, <2>2, <2>3 DEF IInv
<1>2. CASE \E dir \in Dirs : Checkout(dir)
  <2>1. PICK dir \in Dirs : \E b \in Heads[dir] :
            /\ head' = [head EXCEPT ![dir] = b]
            /\ UNCHANGED <<layers, github, store, answers, back>>
    BY <1>2 DEF Checkout
  <2>2. \A b \in Heads[dir] : b \in Branches \cup {NoBranch}
    BY <2>1 DEF Branches
  <2>3. Surroundings'
    BY <2>1, <2>2 DEF IInv, Surroundings
  <2>4. QED
    BY <2>1, <2>3 DEF IInv
<1>3. CASE \E pair \in Pairs : AnswerChanges(pair)
  <2>1. PICK pair \in Pairs : \E v \in Replies[pair] :
            /\ github' = [github EXCEPT ![pair] = v]
            /\ UNCHANGED <<layers, head, store, answers, back>>
    BY <1>3 DEF AnswerChanges
  <2>2. Surroundings'
    BY <2>1 DEF IInv, Surroundings
  <2>3. QED
    BY <2>1, <2>2 DEF IInv
<1>4. CASE UNCHANGED vars
  BY <1>4 DEF IInv, Surroundings, vars
<1>5. QED
  BY <1>1, <1>2, <1>3, <1>4, AsksOK, StoreOK, TickOK, SetClockOK DEF Next, Refresh

LEMMA Inductive == Spec => []IInv
<1>1. QED
  BY InitOK, NextOK, PTL DEF Spec

-----------------------------------------------------------------------------
(* What follows from it.                                                   *)

\* Types: every entry and every answer on its way belongs to a pair and has a value
\* that decide may find for it.
THEOREM TypeCorrect == Spec => []TypeOK
<1>1. IInv => TypeOK
  BY DEF IInv, Surroundings, EntryOK, AnswerOK, TypeOK
<1>2. QED
  BY <1>1, Inductive, PTL

\* What a status finds was stored under its own key, which is that of its own pair
\* alone; and its age, which the clock may have lowered, is within the TTL.
THEOREM ShownWasAnsweredAlways == Spec => []ShownWasAnswered
<1>1. IInv => ShownWasAnswered
  <2> SUFFICES ASSUME IInv, NEW cwd \in Dirs, NEW flags \in StatusFlags,
                      Finds(cwd, flags)
               PROVE  LET s   == StatusSettings(flags)
                          dir == ProjectDir(s, cwd)
                      IN  /\ Found(cwd, flags).of = <<dir, head[dir]>>
                          /\ Found(cwd, flags).taken <= StatusTtl(s) + back + MaxLag
    BY DEF ShownWasAnswered
  <2> DEFINE s    == StatusSettings(flags)
             dir  == ProjectDir(s, cwd)
             path == PathOf(s, dir)
             e    == store[path]
             ttl  == StatusTtl(s)
  <2>1. /\ Loads(s) /\ head[dir] # NoBranch
        /\ path \in DOMAIN store /\ Age(path) <= ttl
    BY DEF Finds, FreshAt
  <2>2. Surroundings /\ EntryOK(path, e, back)
    BY <2>1 DEF IInv
  <2>3. <<dir, head[dir]>> \in Pairs
    BY <2>1, <2>2, SettingsInBounds, HeadsArePairs
  <2>4. path[2] = KeyOf(<<dir, head[dir]>>)
    BY DEF PathOf, CachePath, KeyOf
  <2>5. e.of = <<dir, head[dir]>>
    BY <2>2, <2>3, <2>4, KeysSeparate DEF EntryOK, Entries
  <2>6. e.taken <= ttl + back + MaxLag
    <3>1. ttl \in 0..MaxTtl
      BY <2>1, <2>2, SettingsInBounds
    <3>2. /\ e.age \in -MaxBack..Horizon /\ e.taken \in 0..Horizon + MaxLag
          /\ e.taken <= e.age + back + MaxLag /\ back \in 0..MaxBack
      BY <2>2 DEF EntryOK, Entries, Surroundings
    <3>3. e.age <= ttl
      BY <2>1, <3>1, <3>2, Bounds DEF Age
    <3>4. QED
      BY <3>1, <3>2, <3>3, Bounds
  <2>7. QED
    BY <2>5, <2>6 DEF Found
<1>2. QED
  BY <1>1, Inductive, PTL

\* A sweep leaves what is not past its TTL.
LEMMA SweepKeepsFresh ==
    ASSUME NEW dir, NEW ttl, NEW swept \in Swept(dir, ttl),
           NEW path \in DOMAIN store, path[1] # dir \/ FreshAt(path, ttl)
    PROVE  path \in DOMAIN swept
BY DEF Swept, Restrict

\* An entry there is once a step is over, and not past a TTL by then.
LEMMA FreshThen ==
    ASSUME NEW path, NEW ttl, path \in DOMAIN store',
           (IF store'[path].age < 0 THEN 0 ELSE store'[path].age) <= ttl
    PROVE  FreshAt(path, ttl)'
BY DEF FreshAt, Age

\* A status finds its entry after a step that changes neither settings nor checkouts
\* and leaves at its path an entry within its TTL.
LEMMA FindsThen ==
    ASSUME NEW cwd, NEW flags, Finds(cwd, flags), UNCHANGED <<layers, head>>,
           NEW path, path = PathOf(StatusSettings(flags),
                                   ProjectDir(StatusSettings(flags), cwd)),
           path \in DOMAIN store',
           (IF store'[path].age < 0 THEN 0 ELSE store'[path].age)
               <= StatusTtl(StatusSettings(flags))
    PROVE  Finds(cwd, flags)'
<1>1. StatusSettings(flags)' = StatusSettings(flags)
  BY DEF StatusSettings
<1>2. PICK ttl : ttl = StatusTtl(StatusSettings(flags))
  OBVIOUS
<1>3. FreshAt(path, ttl)'
  BY <1>2, FreshThen
<1>4. path = PathOf(StatusSettings(flags), ProjectDir(StatusSettings(flags), cwd))'
  BY <1>1 DEF PathOf
<1>5. QED
  BY <1>1, <1>2, <1>3, <1>4 DEF Finds

\* A status whose entry a refresh takes away has the refresh's cache directory and a
\* longer TTL; or else it finds the same entry as before.
LEMMA RefreshTakesExpired ==
    ASSUME IInv, NEW cwd \in Dirs, NEW flags \in StatusFlags, Finds(cwd, flags),
           NEW d \in Dirs, NEW f \in RefreshFlags, Sweeps(d, RefreshSettings(f)),
           UNCHANGED <<layers, head>>
    PROVE  Finds(cwd, flags)' \/ SweepsEarlier(d, f, flags)
<1> DEFINE s    == StatusSettings(flags)
           r    == RefreshSettings(f)
           path == PathOf(s, ProjectDir(s, cwd))
<1>1. /\ Loads(s) /\ ShowsPr(s) /\ head[ProjectDir(s, cwd)] # NoBranch
      /\ path \in DOMAIN store /\ Age(path) <= StatusTtl(s)
  BY DEF Finds, FreshAt
<1>2. store' \in Swept(CacheDir(r, UserDir), RefreshTtl(r)) /\ Loads(r)
  BY DEF Sweeps
<1>3. CASE path \in DOMAIN store'
  <2>1. store'[path] = store[path]
    BY <1>2, <1>3, SweepOnlyRemoves
  <2>2. QED
    BY <1>1, <1>3, <2>1, FindsThen DEF Age
<1>4. CASE path \notin DOMAIN store'
  <2>1. path[1] = CacheDir(r, UserDir) /\ ~FreshAt(path, RefreshTtl(r))
    BY <1>1, <1>2, <1>4, SweepKeepsFresh
  <2>2. path[1] = CacheDir(s, UserDir)
    BY DEF PathOf, CachePath
  <2>3. ~(Age(path) <= RefreshTtl(r))
    BY <1>1, <2>1 DEF FreshAt
  <2>4. StatusTtl(s) \in 0..MaxTtl /\ RefreshTtl(r) \in 0..MaxTtl
    BY <1>1, <1>2, SettingsInBounds DEF IInv
  <2>5. Age(path) \in Int
    <3>1. store[path].age \in Int
      BY <1>1 DEF IInv, EntryOK, Entries
    <3>2. QED
      BY <3>1 DEF Age
  <2> HIDE DEF s, r, path
  <2>6. RefreshTtl(r) < StatusTtl(s)
    BY <1>1, <2>3, <2>4, <2>5, Bounds
  <2>7. QED
    BY <2>1, <2>2, <2>6 DEF SweepsEarlier, s, r
<1>5. QED
  BY <1>3, <1>4

\* Storing an answer takes nothing away, and what it puts over another entry is fresh.
LEMMA StoreShowsOn ==
    ASSUME IInv, NEW cwd \in Dirs, NEW flags \in StatusFlags, Finds(cwd, flags),
           NEW a \in answers, Store(a)
    PROVE  Finds(cwd, flags)'
<1> DEFINE s    == StatusSettings(flags)
           path == PathOf(s, ProjectDir(s, cwd))
<1>1. /\ Loads(s) /\ ShowsPr(s) /\ head[ProjectDir(s, cwd)] # NoBranch
      /\ path \in DOMAIN store /\ Age(path) <= StatusTtl(s)
  BY DEF Finds, FreshAt
<1>2. store' = With(a.path, Entry(a)) /\ UNCHANGED <<layers, head>>
  BY DEF Store
<1>3. StatusTtl(s) \in 0..MaxTtl
  BY <1>1, SettingsInBounds DEF IInv
<1>4. /\ path \in DOMAIN store'
      /\ store'[path] = IF path = a.path THEN Entry(a) ELSE store[path]
  BY <1>1, <1>2 DEF With
<1>5. (IF store'[path].age < 0 THEN 0 ELSE store'[path].age) <= StatusTtl(s)
  <2>1. CASE path = a.path
    <3>1. store'[path].age = 0
      BY <1>4, <2>1 DEF Entry
    <3>2. QED
      BY <1>3, <3>1, Bounds
  <2>2. CASE path # a.path
    BY <1>1, <1>4, <2>2 DEF Age
  <2>3. QED
    BY <2>1, <2>2
<1>6. QED
  BY <1>2, <1>4, <1>5, FindsThen

\* The checkout of another directory leaves the path of the status as it is.
LEMMA CheckoutElsewhere ==
    ASSUME IInv, NEW cwd \in Dirs, NEW flags \in StatusFlags, Finds(cwd, flags),
           NEW dir \in Dirs, Checkout(dir), dir # ProjectDir(StatusSettings(flags), cwd)
    PROVE  Finds(cwd, flags)'
<1> DEFINE s    == StatusSettings(flags)
           here == ProjectDir(s, cwd)
<1>1. PICK b \in Heads[dir] : head' = [head EXCEPT ![dir] = b]
  BY DEF Checkout
<1>2. UNCHANGED <<layers, store>>
  BY DEF Checkout
<1>3. head'[here] = head[here]
  BY <1>1 DEF IInv, Surroundings
<1>4. StatusSettings(flags)' = s /\ PathOf(s, here)' = PathOf(s, here)
  BY <1>2, <1>3 DEF StatusSettings, PathOf
<1>5. QED
  BY <1>2, <1>3, <1>4 DEF Finds, FreshAt, Age

\* Whatever is refreshed, with whatever settings, and however late an answer comes: an
\* entry a status shows is not lost to it before its time, but to a refresh for which
\* that time is shorter.
THEOREM ShownUntilExpiredAlways == Spec => ShownUntilExpired
<1> DEFINE Kept(cwd, flags) ==
               \/ Tick
               \/ \E to \in 0..MaxBack : SetClock(to)
               \/ Checkout(ProjectDir(StatusSettings(flags), cwd))
               \/ \E d \in Dirs, f \in RefreshFlags : SweepsEarlier(d, f, flags)
<1>1. IInv /\ [Next]_vars =>
          [\A cwd \in Dirs, flags \in StatusFlags :
               Finds(cwd, flags) /\ ~Finds(cwd, flags)' => Kept(cwd, flags)]_vars
  <2> SUFFICES ASSUME IInv, Next, NEW cwd \in Dirs, NEW flags \in StatusFlags,
                      Finds(cwd, flags), ~Finds(cwd, flags)'
               PROVE  Kept(cwd, flags)
    OBVIOUS
  <2>1. CASE Refresh
    <3>1. PICK d \in Dirs, f \in RefreshFlags :
              RefreshHits(d, f) \/ RefreshAsks(d, f) \/ RefreshFails(d, f)
      BY <2>1 DEF Refresh
    <3>2. Sweeps(d, RefreshSettings(f)) /\ UNCHANGED <<layers, head>>
      BY <3>1 DEF RefreshHits, RefreshAsks, RefreshFails
    <3>3. QED
      BY <3>2, RefreshTakesExpired
  <2>2. CASE \E a \in answers : Store(a)
    BY <2>2, StoreShowsOn
  <2>3. CASE \E dir \in Dirs : Checkout(dir)
    BY <2>3, CheckoutElsewhere
  <2>4. CASE \E pair \in Pairs : AnswerChanges(pair)
    <3>1. UNCHANGED <<layers, head, store>>
      BY <2>4 DEF AnswerChanges
    <3>2. QED
      BY <3>1 DEF Finds, FreshAt, Age, StatusSettings, PathOf
  <2>5. QED
    BY <2>1, <2>2, <2>3, <2>4 DEF Next
<1>2. QED
  BY <1>1, Inductive, PTL DEF Spec, ShownUntilExpired
=============================================================================
