--------------------------- MODULE LogStoreProofs ---------------------------
(***************************************************************************)
(* The followers of a log, however many: the channel of each is closed at  *)
(* most once, and Close ends every stream.  Both follow from the role of   *)
(* the map linkLog.followers as the one place that says who still has to   *)
(* be released.                                                            *)
(*                                                                         *)
(* The ring, whatever its capacity and the sizes of the records: it holds  *)
(* the newest ones that fit.  Size is recursive, so its laws are proved    *)
(* from the sums that define it, by induction over sets of naturals.       *)
(***************************************************************************)
EXTENDS LogStore, SequenceTheorems, WellFoundedInduction, TLAPS

-----------------------------------------------------------------------------
\* Followers.

\* Whoever is in the map is served and unreleased; whoever is not in it has
\* been released at most once and has no open stream.
InMap(f) ==
  IF f \in followers
    THEN fol[f].done = 0 /\ fol[f].watcher = "waiting" /\ fol[f].writer \in {"idle", "writing"}
    ELSE fol[f].done \in {0, 1} /\ fol[f].reader # "open"

FollowersTyped ==
  /\ closed \in BOOLEAN /\ written \in 0 .. MaxLines
  /\ followers \subseteq Followers /\ fol \in [Followers -> Follower]

FollowInv ==
  /\ FollowersTyped
  /\ \A f \in Followers : InMap(f)
  /\ closed => followers = {}

\* A queue, like the ring, starts as the empty sequence of lines.
LEMMA NoLines == <<>> \in Seq(Line)
  OBVIOUS

\* Before Follow a follower has nothing to release.
LEMMA NoFollowerTyped ==
  /\ NoFollower \in Follower /\ NoFollower.done = 0 /\ NoFollower.reader = "none"
  /\ NoFollower.writer = "none" /\ NoFollower.watcher = "none"
  BY NoLines DEF NoFollower, Follower

\* The queue of a follower is the only field that a line reaches.
LEMMA BroadcastKeeps ==
  ASSUME FollowInv, NEW size \in 1 .. MaxSize, AppendLine(size)
  PROVE  FollowInv'
<1> USE LogAssumption
<1> DEFINE line == [n |-> written', size |-> size]
<1>1. /\ UNCHANGED <<closed, followers>>
      /\ written' = written + 1 /\ written < MaxLines
      /\ fol' = fol \/ Broadcast(line)
  BY DEF AppendLine
<1>2. written' \in 1 .. MaxLines /\ line \in Line
  BY <1>1 DEF FollowInv, FollowersTyped, Line
<1>3. ASSUME NEW f \in Followers
      PROVE  /\ fol'[f] \in Follower
             /\ fol'[f].done = fol[f].done /\ fol'[f].watcher = fol[f].watcher
             /\ fol'[f].writer = fol[f].writer /\ fol'[f].reader = fol[f].reader
  <2>1. fol[f] \in Follower
    BY DEF FollowInv, FollowersTyped
  <2>2. CASE fol' = fol
    BY <2>1, <2>2
  <2>3. CASE Broadcast(line)
    <3> HIDE DEF line
    <3>1. \/ fol'[f] = fol[f]
          \/ fol'[f] = [fol[f] EXCEPT !.queue = Append(fol[f].queue, line)]
      BY <2>3 DEF Broadcast
    <3>2. Append(fol[f].queue, line) \in Seq(Line)
      BY <1>2, <2>1 DEF Follower
    <3> QED BY <3>1, <3>2, <2>1 DEF Follower
  <2> QED BY <1>1, <2>2, <2>3
<1>4. fol' \in [Followers -> Follower]
  <2>1. fol' = [f \in Followers |-> fol'[f]]
    BY <1>1 DEF Broadcast, FollowInv, FollowersTyped
  <2> QED BY <2>1, <1>3
<1> QED BY <1>1, <1>2, <1>3, <1>4 DEF FollowInv, FollowersTyped, InMap

\* What a release does to each follower: those in F are closed once more.
LEMMA ReleasedFields ==
  ASSUME FollowInv, NEW F \in SUBSET followers
  PROVE  /\ Released(F) \in [Followers -> Follower]
         /\ \A f \in Followers :
              /\ f \in F => Released(F)[f].done = 1 /\ Released(F)[f].reader # "open"
              /\ f \notin F => Released(F)[f] = fol[f]
              /\ Released(F)[f].writer = fol[f].writer
              /\ Released(F)[f].watcher = fol[f].watcher
<1>1. ASSUME NEW f \in Followers
      PROVE  /\ f \in F => Released(F)[f].done = 1 /\ Released(F)[f].reader # "open"
             /\ f \notin F => Released(F)[f] = fol[f]
             /\ Released(F)[f].writer = fol[f].writer
             /\ Released(F)[f].watcher = fol[f].watcher
             /\ Released(F)[f] \in Follower
  <2>1. fol[f] \in Follower /\ (f \in F => fol[f].done = 0)
    BY DEF FollowInv, FollowersTyped, InMap
  <2>2. CASE f \notin F
    BY <2>1, <2>2 DEF Released
  <2>3. CASE f \in F
    <3> DEFINE end == IF fol[f].reader = "open" THEN "eof" ELSE fol[f].reader
               freed == [fol[f] EXCEPT !.done = 1, !.reader = end]
    <3>1. Released(F)[f] = freed
      <4>1. Released(F)[f] = [fol[f] EXCEPT !.done = fol[f].done + 1, !.reader = end]
        BY <2>3 DEF Released
      <4>2. fol[f].done + 1 = 1
        BY <2>1, <2>3
      <4> QED BY <4>1, <4>2
    <3>2. end \in {"none", "eof", "left"}
      BY <2>1 DEF Follower
    <3> HIDE DEF end
    <3>3. 1 \in 0 .. 2
      OBVIOUS
    <3>4. /\ freed \in Follower /\ freed.done = 1 /\ freed.reader = end
          /\ freed.writer = fol[f].writer /\ freed.watcher = fol[f].watcher
      BY <2>1, <3>2, <3>3 DEF Follower
    <3> QED BY <3>1, <3>2, <3>4, <2>3
  <2> QED BY <2>2, <2>3
<1>2. Released(F) = [f \in Followers |-> Released(F)[f]]
  BY DEF Released
<1> QED BY <1>1, <1>2

\* Close releases the followers in the map and takes them out of it.
LEMMA CloseKeeps ==
  ASSUME FollowInv, CloseLog
  PROVE  FollowInv'
<1>1. CASE closed
  BY <1>1 DEF CloseLog, FollowInv, FollowersTyped, InMap
<1>2. CASE ~closed
  <2>1. /\ closed' = TRUE /\ followers' = {} /\ fol' = Released(followers) /\ written' = written
    BY <1>2 DEF CloseLog
  <2>2. followers \in SUBSET followers
    OBVIOUS
  <2>3. \A f \in Followers : fol'[f].done \in {0, 1} /\ fol'[f].reader # "open"
    BY <2>1, <2>2, ReleasedFields DEF FollowInv, InMap
  <2>4. fol' \in [Followers -> Follower]
    BY <2>1, <2>2, ReleasedFields
  <2> QED BY <2>1, <2>3, <2>4 DEF FollowInv, FollowersTyped, InMap
<1> QED BY <1>1, <1>2

\* A step of one follower that leaves the map alone, the log and the others.
LEMMA OwnStep ==
  ASSUME FollowInv, NEW f \in Followers, NEW new \in Follower,
         fol' = [fol EXCEPT ![f] = new], UNCHANGED <<closed, written, followers>>,
         new.done = fol[f].done, fol[f].reader # "open" => new.reader # "open",
         f \in followers => new.watcher = "waiting" /\ new.writer \in {"idle", "writing"}
  PROVE  FollowInv'
  BY DEF FollowInv, FollowersTyped, InMap

\* The follower releases itself, if nobody did, and one of its goroutines ends.
LEMMA RemoveKeeps ==
  ASSUME FollowInv, NEW f \in Followers, NEW new \in Follower,
         fol' = [Removed(f) EXCEPT ![f] = new],
         new.done = Removed(f)[f].done, new.reader = Removed(f)[f].reader,
         followers' = followers \ {f}, UNCHANGED <<closed, written>>
  PROVE  FollowInv'
<1> DEFINE F == {f} \intersect followers
<1>1. F \in SUBSET followers /\ Removed(f) = Released(F)
  BY DEF Removed
<1>2. /\ Removed(f) \in [Followers -> Follower]
      /\ Removed(f)[f].done \in {0, 1} /\ Removed(f)[f].reader # "open"
      /\ \A g \in Followers \ {f} : Removed(f)[g] = fol[g]
  BY <1>1, ReleasedFields DEF FollowInv, InMap
<1>3. fol' \in [Followers -> Follower]
  BY <1>2
<1>4. ASSUME NEW g \in Followers PROVE InMap(g)'
  BY <1>2 DEF FollowInv, InMap
<1> QED BY <1>3, <1>4 DEF FollowInv, FollowersTyped

\* A new follower enters the map with an open channel, or a closed log ends it
\* at once.
LEMMA FollowKeeps ==
  ASSUME FollowInv, NEW f \in Followers, Follow(f)
  PROVE  FollowInv'
<1>1. fol[f] \in Follower /\ fol[f] = NoFollower /\ f \notin followers
  BY DEF Follow, FollowInv, FollowersTyped, InMap, NoFollower
<1>2. CASE closed
  <2> DEFINE new == [fol[f] EXCEPT !.reader = "eof"]
  <2>1. new \in Follower /\ new.done = fol[f].done /\ new.reader # "open"
    BY <1>1 DEF Follower
  <2>2. fol' = [fol EXCEPT ![f] = new] /\ UNCHANGED <<closed, written, followers>>
    BY <1>2 DEF Follow
  <2> HIDE DEF new
  <2> QED BY <1>1, <2>1, <2>2, OwnStep
<1>3. CASE ~closed
  <2> DEFINE new == [fol[f] EXCEPT !.reader = "open", !.writer = "idle", !.watcher = "waiting"]
  <2>1. /\ new \in Follower /\ new.done = 0
        /\ new.watcher = "waiting" /\ new.writer = "idle"
    BY <1>1, NoFollowerTyped DEF Follower
  <2>2. /\ fol' = [fol EXCEPT ![f] = new] /\ followers' = followers \union {f}
        /\ UNCHANGED <<closed, written>>
    BY <1>3 DEF Follow
  <2> HIDE DEF new
  <2>3. fol' \in [Followers -> Follower]
    BY <2>1, <2>2 DEF FollowInv, FollowersTyped
  <2>4. ASSUME NEW g \in Followers PROVE InMap(g)'
    BY <2>1, <2>2 DEF FollowInv, FollowersTyped, InMap
  <2> QED BY <1>3, <2>2, <2>3, <2>4 DEF FollowInv, FollowersTyped
<1> QED BY <1>2, <1>3

\* Whatever a reader, writer or watcher does keeps the map of followers.
LEMMA GoroutineKeeps ==
  ASSUME FollowInv, NEW f \in Followers, Reader(f) \/ Writer(f) \/ Watcher(f)
  PROVE  FollowInv'
<1>1. fol[f] \in Follower /\ fol \in [Followers -> Follower] /\ InMap(f)
  BY DEF FollowInv, FollowersTyped
<1>2. CASE Follow(f)
  BY <1>2, FollowKeeps
<1>3. CASE ReaderReads(f)
  <2> DEFINE new == [fol[f] EXCEPT !.writer = "idle", !.held = <<>>]
  <2>1. new \in Follower /\ new.done = fol[f].done /\ new.reader = fol[f].reader
        /\ new.watcher = fol[f].watcher /\ new.writer = "idle"
    BY <1>1, NoLines DEF Follower
  <2>2. fol' = [fol EXCEPT ![f] = new] /\ UNCHANGED <<closed, written, followers>>
    BY <1>3 DEF ReaderReads, Log
  <2> HIDE DEF new
  <2> QED BY <1>1, <2>1, <2>2, OwnStep DEF InMap
<1>4. CASE ReaderLeaves(f)
  <2> DEFINE new == [fol[f] EXCEPT !.reader = "left"]
  <2>1. new \in Follower /\ new.done = fol[f].done /\ new.reader = "left"
        /\ new.watcher = fol[f].watcher /\ new.writer = fol[f].writer
    BY <1>1 DEF Follower
  <2>2. fol' = [fol EXCEPT ![f] = new] /\ UNCHANGED <<closed, written, followers>>
    BY <1>4 DEF ReaderLeaves, Log
  <2> HIDE DEF new
  <2> QED BY <1>1, <2>1, <2>2, OwnStep DEF InMap
<1>5. CASE WriterTakes(f)
  <2> DEFINE new == [fol[f] EXCEPT !.writer = "writing", !.held = <<Head(fol[f].queue)>>,
                                   !.queue = Tail(fol[f].queue)]
  <2>1. Head(fol[f].queue) \in Line /\ Tail(fol[f].queue) \in Seq(Line)
    BY <1>1, <1>5 DEF WriterTakes, Follower
  <2>2. <<Head(fol[f].queue)>> \in Seq(Line)
    BY <2>1
  <2>3. new \in Follower /\ new.done = fol[f].done /\ new.reader = fol[f].reader
        /\ new.watcher = fol[f].watcher /\ new.writer = "writing"
    BY <1>1, <2>1, <2>2 DEF Follower
  <2>4. fol' = [fol EXCEPT ![f] = new] /\ UNCHANGED <<closed, written, followers>>
    BY <1>5 DEF WriterTakes, Log
  <2> HIDE DEF new
  <2> QED BY <1>1, <2>3, <2>4, OwnStep DEF InMap
<1>6. CASE WriteFails(f)
  <2> DEFINE new == [Removed(f)[f] EXCEPT !.writer = "gone", !.held = <<>>]
  <2>1. Removed(f)[f] \in Follower
    BY ReleasedFields, {f} \intersect followers \in SUBSET followers DEF Removed
  <2>2. new \in Follower /\ new.done = Removed(f)[f].done /\ new.reader = Removed(f)[f].reader
    BY <2>1, NoLines DEF Follower
  <2>3. /\ fol' = [Removed(f) EXCEPT ![f] = new] /\ followers' = followers \ {f}
        /\ UNCHANGED <<closed, written>>
    BY <1>6 DEF WriteFails, Log
  <2> HIDE DEF new
  <2> QED BY <2>2, <2>3, RemoveKeeps
<1>7. CASE WatcherRemoves(f)
  <2> DEFINE new == [Removed(f)[f] EXCEPT !.watcher = "gone"]
  <2>1. Removed(f)[f] \in Follower
    BY ReleasedFields, {f} \intersect followers \in SUBSET followers DEF Removed
  <2>2. new \in Follower /\ new.done = Removed(f)[f].done /\ new.reader = Removed(f)[f].reader
    BY <2>1 DEF Follower
  <2>3. /\ fol' = [Removed(f) EXCEPT ![f] = new] /\ followers' = followers \ {f}
        /\ UNCHANGED <<closed, written>>
    BY <1>7 DEF WatcherRemoves, Log
  <2> HIDE DEF new
  <2> QED BY <2>2, <2>3, RemoveKeeps
<1>8. CASE WriterStops(f)
  <2> DEFINE new == [fol[f] EXCEPT !.writer = "gone"]
  <2>1. new \in Follower /\ new.done = fol[f].done /\ new.reader = fol[f].reader
    BY <1>1 DEF Follower
  <2>2. fol' = [fol EXCEPT ![f] = new] /\ UNCHANGED <<closed, written, followers>>
    BY <1>8 DEF WriterStops, Log
  <2>3. f \notin followers
    BY <1>1, <1>8 DEF WriterStops, InMap
  <2> HIDE DEF new
  <2> QED BY <2>1, <2>2, <2>3, OwnStep
<1>9. CASE WatcherStops(f)
  <2> DEFINE new == [fol[f] EXCEPT !.watcher = "gone"]
  <2>1. new \in Follower /\ new.done = fol[f].done /\ new.reader = fol[f].reader
    BY <1>1 DEF Follower
  <2>2. fol' = [fol EXCEPT ![f] = new] /\ UNCHANGED <<closed, written, followers>>
    BY <1>9 DEF WatcherStops, Log
  <2>3. f \notin followers
    BY <1>1, <1>9 DEF WatcherStops, InMap
  <2> HIDE DEF new
  <2> QED BY <2>1, <2>2, <2>3, OwnStep
<1> QED BY <1>2, <1>3, <1>4, <1>5, <1>6, <1>7, <1>8, <1>9 DEF Reader, Writer, Watcher

\* At the start nobody follows, and every step keeps the map true.
LEMMA FollowInvStarts == LogInit => FollowInv
<1> SUFFICES ASSUME LogInit PROVE FollowInv
  OBVIOUS
<1>1. fol \in [Followers -> Follower] /\ \A f \in Followers : fol[f] = NoFollower
  BY NoFollowerTyped DEF LogInit
<1>2. written \in 0 .. MaxLines
  BY LogAssumption DEF LogInit
<1> QED BY <1>1, <1>2, NoFollowerTyped DEF LogInit, FollowInv, FollowersTyped, InMap

\* Every step of the log store keeps FollowInv.
LEMMA FollowInvKept ==
  ASSUME FollowInv, [LogNext]_logs
  PROVE  FollowInv'
<1>1. CASE \E size \in 1 .. MaxSize : AppendLine(size)
  BY <1>1, BroadcastKeeps
<1>2. CASE CloseLog
  BY <1>2, CloseKeeps
<1>3. CASE \E f \in Followers : Reader(f) \/ Writer(f) \/ Watcher(f)
  BY <1>3, GoroutineKeeps
<1>4. CASE UNCHANGED logs
  BY <1>4 DEF logs, FollowInv, FollowersTyped, InMap
<1> QED BY <1>1, <1>2, <1>3, <1>4 DEF LogNext

\* The map of followers tells the truth in every behaviour of the log.
THEOREM FollowInvAlways == LogSpec => []FollowInv
<1>1. FollowInv /\ [LogNext]_logs => FollowInv'
  BY FollowInvKept
<1> QED BY <1>1, FollowInvStarts, PTL DEF LogSpec

\* The done channel of a follower is closed at most once, whoever of Close,
\* its writer and its watcher gets to it (remove and Close in logs/store.go).
THEOREM ReleasedOnceAlways == LogSpec => []ReleasedOnce
<1>1. FollowInv => ReleasedOnce
  BY DEF FollowInv, FollowersTyped, InMap, ReleasedOnce
<1> QED BY <1>1, FollowInvAlways, PTL

\* Once the log is closed no stream is open, also none that a concurrent
\* Follow began (Follow and Close in logs/store.go).
THEOREM ClosedEndsStreamsAlways == LogSpec => []ClosedEndsStreams
<1>1. FollowInv => ClosedEndsStreams
  BY DEF FollowInv, FollowersTyped, InMap, ClosedEndsStreams
<1> QED BY <1>1, FollowInvAlways, PTL

-----------------------------------------------------------------------------
\* Naturals.

\* A set with 0 and every successor of its members has all naturals.
LEMMA Naturally ==
  ASSUME NEW T, 0 \in T, \A n \in Nat : n \in T => n + 1 \in T
  PROVE  \A n \in Nat : n \in T
<1> DEFINE R == OpToRel(<, Nat)
<1>1. SUFFICES ASSUME NEW k \in Nat, k \notin T PROVE FALSE
  OBVIOUS
<1>2. PICK x \in Nat \ T : \A y \in Nat \ T : ~ (<<y, x>> \in R)
  <2>1. IsWellFoundedOn(R, Nat)
    BY NatLessThanWellFounded
  <2> HIDE DEF R
  <2>2. QED BY <1>1, <2>1, WFMin
<1>3. \A y \in Nat \ T : ~ (y < x)
  BY <1>2 DEF OpToRel
<1>4. x # 0 /\ x - 1 \in Nat /\ x - 1 < x
  OBVIOUS
<1>5. x - 1 \in T
  BY <1>3, <1>4
<1>6. (x - 1) + 1 \in T
  BY <1>4, <1>5
<1>7. QED BY <1>6

\* Every set of naturals has a least element.
LEMMA LeastOf ==
  ASSUME NEW S \in SUBSET Nat, S # {}
  PROVE  Min(S) \in S /\ \A y \in S : Min(S) <= y
<1> DEFINE R == OpToRel(<, Nat)
<1>1. PICK x \in S : \A y \in S : ~ (<<y, x>> \in R)
  <2>1. IsWellFoundedOn(R, Nat)
    BY NatLessThanWellFounded
  <2> HIDE DEF R
  <2>2. QED BY <2>1, WFMin
<1>2. \A y \in S : ~ (y < x)
  BY <1>1 DEF OpToRel
<1>3. \A y \in S : x =< y
  BY <1>2
<1>4. QED BY <1>3 DEF Min

-----------------------------------------------------------------------------
\* Sizes.

\* f are the sums of the first 0, 1, ..., Len(s) records of s.
Sums(s, f) ==
  /\ DOMAIN f = 0 .. Len(s) /\ f[0] = 0
  /\ \A i \in 1 .. Len(s) : f[i] = f[i - 1] + s[i].size

\* The same up to n, as the definition of Size writes them.
Prefix(s, n, f) ==
  f = [i \in 0 .. n |-> IF i = 0 THEN 0 ELSE f[i - 1] + s[i].size]

\* The sums exist,
LEMMA SumsExist ==
  ASSUME NEW s, NEW n \in Nat
  PROVE  \E f : Prefix(s, n, f)
<1> DEFINE T == {k \in Nat : \E f : Prefix(s, k, f)}
<1>1. 0 \in T
  <2> DEFINE g == [i \in 0 .. 0 |-> 0]
  <2>1. g = [i \in 0 .. 0 |-> IF i = 0 THEN 0 ELSE g[i - 1] + s[i].size]
    OBVIOUS
  <2>2. QED BY <2>1 DEF Prefix
<1>2. ASSUME NEW k \in Nat, k \in T
      PROVE  k + 1 \in T
  <2>1. PICK f : Prefix(s, k, f)
    BY <1>2
  <2> DEFINE g == [i \in 0 .. k + 1 |-> IF i = k + 1 THEN f[k] + s[k + 1].size ELSE f[i]]
  <2>2. DOMAIN f = 0 .. k /\ \A i \in 0 .. k : f[i] = IF i = 0 THEN 0 ELSE f[i - 1] + s[i].size
    BY <2>1 DEF Prefix
  <2>3. ASSUME NEW i \in 0 .. k + 1
        PROVE  g[i] = IF i = 0 THEN 0 ELSE g[i - 1] + s[i].size
    <3>1. CASE i = 0
      BY <2>2, <3>1
    <3>2. CASE i = k + 1
      BY <3>2
    <3>3. CASE i \in 1 .. k
      BY <2>2, <3>3
    <3>4. QED BY <3>1, <3>2, <3>3
  <2>4. g = [i \in 0 .. k + 1 |-> IF i = 0 THEN 0 ELSE g[i - 1] + s[i].size]
    BY <2>3
  <2> HIDE DEF g
  <2>5. QED BY <2>4 DEF Prefix
<1> HIDE DEF T
<1>3. n \in T
  BY <1>1, <1>2, Naturally
<1>4. QED BY <1>3 DEF T

\* and are unique.
LEMMA SumsUnique ==
  ASSUME NEW s, NEW n \in Nat, NEW f, NEW g, Len(s) = n, Sums(s, f), Sums(s, g)
  PROVE  \A i \in 0 .. n : f[i] = g[i]
<1> DEFINE T == {k \in Nat : k <= n => f[k] = g[k]}
<1>1. 0 \in T
  BY DEF Sums
<1>2. ASSUME NEW k \in Nat, k \in T
      PROVE  k + 1 \in T
  <2>1. k + 1 <= n => f[k + 1] = f[k] + s[k + 1].size /\ g[k + 1] = g[k] + s[k + 1].size
    BY DEF Sums
  <2>2. QED BY <1>2, <2>1
<1> HIDE DEF T
<1>3. \A k \in Nat : k \in T
  BY <1>1, <1>2, Naturally
<1>4. QED BY <1>3 DEF T

\* Every sequence has sums, and they tell its size.
LEMMA SizeOf ==
  ASSUME NEW s, Len(s) \in Nat
  PROVE  /\ \E f : Sums(s, f)
         /\ \A f : Sums(s, f) => Size(s) = f[Len(s)]
<1> DEFINE n == Len(s)
           sum == CHOOSE f : f = [i \in 0 .. n |-> IF i = 0 THEN 0 ELSE f[i - 1] + s[i].size]
<1>1. Prefix(s, n, sum)
  BY SumsExist DEF Prefix
<1>2. Size(s) = sum[n]
  BY DEF Size
<1> HIDE DEF sum
<1>3. Sums(s, sum)
  BY <1>1 DEF Sums, Prefix
<1>4. QED BY <1>2, <1>3, SumsUnique

\* No record is empty.
LEMMA LineSize ==
  ASSUME NEW x \in Line
  PROVE  x.size \in Nat /\ x.size > 0
  BY LogAssumption DEF Line

\* They are naturals,
LEMMA SumsNat ==
  ASSUME NEW s \in Seq(Line), NEW f, Sums(s, f)
  PROVE  \A i \in 0 .. Len(s) : f[i] \in Nat
<1> DEFINE T == {k \in Nat : k <= Len(s) => f[k] \in Nat}
<1>1. 0 \in T
  BY DEF Sums
<1>2. ASSUME NEW k \in Nat, k \in T
      PROVE  k + 1 \in T
  <2>1. ASSUME k + 1 <= Len(s)
        PROVE  f[k + 1] \in Nat
    <3>1. k + 1 \in 1 .. Len(s) /\ k <= Len(s)
      BY <2>1
    <3>2. s[k + 1].size \in Nat
      <4>1. s[k + 1] \in Line
        BY <3>1, ElementOfSeq
      <4>2. QED BY <4>1, LineSize
    <3>3. f[k + 1] = f[k] + s[k + 1].size
      BY <3>1 DEF Sums
    <3>4. QED BY <1>2, <3>1, <3>2, <3>3
  <2>2. QED BY <2>1
<1> HIDE DEF T
<1>3. \A k \in Nat : k \in T
  BY <1>1, <1>2, Naturally
<1>4. QED BY <1>3 DEF T

\* and so is the size of a ring.
LEMMA SizeNat ==
  ASSUME NEW s \in Seq(Line)
  PROVE  Size(s) \in Nat
<1>1. PICK f : Sums(s, f)
  BY SizeOf
<1>2. Size(s) = f[Len(s)]
  BY <1>1, SizeOf
<1>3. QED BY <1>1, <1>2, SumsNat

\* Sizes add up.
LEMMA SizeAppend ==
  ASSUME NEW s \in Seq(Line), NEW x \in Line
  PROVE  Size(Append(s, x)) = Size(s) + x.size
<1> DEFINE t == Append(s, x)
           n == Len(s)
<1>1. /\ n \in Nat /\ Len(t) = n + 1
      /\ \A i \in 1 .. n : t[i] = s[i]
      /\ t[n + 1] = x
  BY AppendProperties
<1> HIDE DEF t
<1>2. PICK f : Sums(s, f)
  BY SizeOf
<1> DEFINE g == [i \in 0 .. n + 1 |-> IF i = n + 1 THEN f[n] + x.size ELSE f[i]]
<1>3. ASSUME NEW i \in 1 .. n + 1
      PROVE  g[i] = g[i - 1] + t[i].size
  <2>1. CASE i = n + 1
    BY <1>1, <2>1
  <2>2. CASE i \in 1 .. n
    BY <1>1, <1>2, <2>2 DEF Sums
  <2>3. QED BY <1>1, <2>1, <2>2
<1>4. g[0] = 0 /\ DOMAIN g = 0 .. n + 1 /\ g[n + 1] = f[n] + x.size
  BY <1>1, <1>2 DEF Sums
<1> HIDE DEF g
<1>5. Sums(t, g)
  BY <1>1, <1>3, <1>4 DEF Sums
<1>6. Size(t) = g[n + 1] /\ Size(s) = f[n]
  BY <1>1, <1>2, <1>5, SizeOf
<1>7. QED BY <1>4, <1>6 DEF t

\* Size is additive: that of a prefix and that of the rest make up the whole.
LEMMA SizeSplit ==
  ASSUME NEW s \in Seq(Line), NEW k \in 0 .. Len(s)
  PROVE  Size(SubSeq(s, 1, k)) + Size(SubSeq(s, k + 1, Len(s))) = Size(s)
<1> DEFINE a == SubSeq(s, 1, k)
           b == SubSeq(s, k + 1, Len(s))
           n == Len(s)
<1>1. n \in Nat /\ k \in Nat /\ k <= n
  OBVIOUS
<1>2. a \in Seq(Line) /\ Len(a) = k /\ \A i \in 1 .. k : a[i] = s[i]
  BY SubSeqProperties
<1>3. b \in Seq(Line) /\ Len(b) = n - k /\ \A i \in 1 .. n - k : b[i] = s[k + i]
  BY SubSeqProperties
<1> HIDE DEF a, b
<1>4. PICK f : Sums(s, f)
  BY SizeOf
<1>5. \A i \in 0 .. n : f[i] \in Nat
  BY <1>4, SumsNat
<1> DEFINE g == [i \in 0 .. k |-> f[i]]
           h == [i \in 0 .. n - k |-> f[k + i] - f[k]]
<1>6. Sums(a, g)
  BY <1>1, <1>2, <1>4 DEF Sums
<1>7. ASSUME NEW i \in 1 .. n - k
      PROVE  h[i] = h[i - 1] + b[i].size
  <2>1. k + i \in 1 .. n /\ (k + i) - 1 = k + (i - 1) /\ k + (i - 1) \in 0 .. n
    BY <1>1
  <2>2. f[k + i] = f[k + (i - 1)] + s[k + i].size
    BY <1>4, <2>1 DEF Sums
  <2>3. s[k + i].size \in Nat
    <3>1. s[k + i] \in Line
      BY <2>1, ElementOfSeq
    <3>2. QED BY <3>1, LineSize
  <2>4. h[i] = f[k + i] - f[k] /\ h[i - 1] = f[k + (i - 1)] - f[k]
    BY <1>1
  <2>5. f[k] \in Nat /\ f[k + (i - 1)] \in Nat
    BY <1>1, <1>5, <2>1
  <2>6. b[i].size = s[k + i].size
    BY <1>1, <1>3
  <2> HIDE DEF h
  <2>7. QED BY <2>2, <2>3, <2>4, <2>5, <2>6
<1>8. DOMAIN h = 0 .. n - k /\ h[0] = 0
  BY <1>1, <1>5
<1>9. h[n - k] = f[n] - f[k] /\ g[k] = f[k]
  BY <1>1
<1> HIDE DEF g, h
<1>10. Sums(b, h)
  BY <1>3, <1>7, <1>8 DEF Sums
<1>11. Size(a) = f[k]
  BY <1>1, <1>2, <1>6, <1>9, SizeOf
<1>12. Size(b) = f[n] - f[k]
  BY <1>1, <1>3, <1>9, <1>10, SizeOf
<1>13. Size(s) = f[n]
  BY <1>4, SizeOf
<1>14. QED BY <1>1, <1>5, <1>11, <1>12, <1>13 DEF a, b

\* An empty ring has no bytes.
LEMMA SizeEmpty == Size(<<>>) = 0
<1>1. <<>> \in Seq(Line) /\ Len(<<>>) = 0
  OBVIOUS
<1>2. PICK f : Sums(<<>>, f)
  BY <1>1, SizeOf
<1>3. Size(<<>>) = f[0]
  BY <1>1, <1>2, SizeOf
<1>4. QED BY <1>2, <1>3 DEF Sums

-----------------------------------------------------------------------------
\* The ring.

\* The n records behind the first i.
LEMMA Piece ==
  ASSUME NEW s \in Seq(Line), NEW i \in Nat, NEW n \in Nat, NEW j \in Nat,
         j = i + n, j <= Len(s)
  PROVE  /\ SubSeq(s, i + 1, j) \in Seq(Line) /\ Len(SubSeq(s, i + 1, j)) = n
         /\ \A x \in 1 .. n : SubSeq(s, i + 1, j)[x] = s[i + x]
<1>1. Len(s) \in Nat
  OBVIOUS
<1>2. i + 1 \in 1 .. Len(s) + 1 /\ j \in i + 1 - 1 .. Len(s)
  BY <1>1
<1> DEFINE b == SubSeq(s, i + 1, j)
<1>3. /\ b \in Seq(Line) /\ Len(b) = (IF i + 1 <= j THEN j - (i + 1) + 1 ELSE 0)
      /\ \A x \in 1 .. j - (i + 1) + 1 : b[x] = s[(i + 1) + x - 1]
  BY <1>2, SubSeqProperties
<1> HIDE DEF b
<1>4. Len(b) = n /\ j - (i + 1) + 1 = n
  BY <1>3
<1>5. \A x \in 1 .. n : (i + 1) + x - 1 = i + x
  OBVIOUS
<1>6. QED BY <1>3, <1>4, <1>5 DEF b

\* A suffix of a suffix, and of a sequence that grew.
LEMMA SuffixOfSuffix ==
  ASSUME NEW h \in Seq(Line), NEW k \in 0 .. Len(h), NEW g \in 0 .. Len(h) - k
  PROVE  SubSeq(SubSeq(h, k + 1, Len(h)), g + 1, Len(h) - k) = SubSeq(h, k + g + 1, Len(h))
<1> DEFINE m == Len(h)
           a == SubSeq(h, k + 1, m)
           b == SubSeq(a, g + 1, m - k)
           c == SubSeq(h, k + g + 1, m)
<1>1. m \in Nat /\ k \in Nat /\ g \in Nat /\ k + g <= m
  OBVIOUS
<1>2. a \in Seq(Line) /\ Len(a) = m - k /\ \A i \in 1 .. m - k : a[i] = h[k + i]
  BY SubSeqProperties
<1> HIDE DEF a
<1>3. b \in Seq(Line) /\ Len(b) = m - k - g /\ \A i \in 1 .. m - k - g : b[i] = a[g + i]
  <2>1. m - k \in Nat /\ m - k - g \in Nat /\ m - k = g + (m - k - g) /\ m - k <= Len(a)
    BY <1>1, <1>2
  <2>2. QED BY <1>1, <1>2, <2>1, Piece
<1>4. c \in Seq(Line) /\ Len(c) = m - k - g /\ \A i \in 1 .. m - k - g : c[i] = h[k + g + i]
  <2>1. k + g \in Nat /\ m - k - g \in Nat /\ m = (k + g) + (m - k - g) /\ m <= Len(h)
    BY <1>1
  <2>2. QED BY <1>1, <2>1, Piece
<1> HIDE DEF b, c
<1>5. ASSUME NEW i \in 1 .. m - k - g
      PROVE  b[i] = c[i]
  <2>1. b[i] = a[g + i] /\ g + i \in 1 .. m - k
    BY <1>1, <1>3
  <2>2. a[g + i] = h[k + (g + i)]
    BY <1>2, <2>1
  <2>3. k + (g + i) = k + g + i /\ c[i] = h[k + g + i]
    BY <1>1, <1>4
  <2>4. QED BY <2>1, <2>2, <2>3
<1>6. b = c
  BY <1>3, <1>4, <1>5, SeqEqual
<1>7. QED BY <1>6 DEF a, b, c

\* A suffix of the longer history is the suffix of the old one and the new record.
LEMMA SuffixOfLonger ==
  ASSUME NEW h \in Seq(Line), NEW x \in Line, NEW i \in 1 .. Len(h) + 1
  PROVE  SubSeq(Append(h, x), i, Len(h) + 1) = Append(SubSeq(h, i, Len(h)), x)
<1> DEFINE m == Len(h)
           t == Append(h, x)
           a == SubSeq(h, i, m)
           b == SubSeq(t, i, m + 1)
           c == Append(a, x)
<1>1. m \in Nat /\ i \in Nat /\ 1 <= i /\ i <= m + 1
  OBVIOUS
<1>2. /\ t \in Seq(Line) /\ Len(t) = m + 1 /\ t[m + 1] = x
      /\ \A j \in 1 .. m : t[j] = h[j]
  BY AppendProperties
<1>3. a \in Seq(Line) /\ Len(a) = m + 1 - i /\ \A j \in 1 .. m + 1 - i : a[j] = h[i + j - 1]
  BY <1>1, SubSeqProperties
<1> HIDE DEF t, a
<1>4. b \in Seq(Line) /\ Len(b) = m + 2 - i /\ \A j \in 1 .. m + 2 - i : b[j] = t[i + j - 1]
  BY <1>1, <1>2, SubSeqProperties
<1>5. /\ c \in Seq(Line) /\ Len(c) = m + 2 - i /\ c[m + 2 - i] = x
      /\ \A j \in 1 .. m + 1 - i : c[j] = a[j]
  <2>1. /\ c \in Seq(Line) /\ Len(c) = Len(a) + 1 /\ c[Len(a) + 1] = x
        /\ \A j \in 1 .. Len(a) : c[j] = a[j]
    BY <1>3, AppendProperties
  <2> HIDE DEF c
  <2>2. QED BY <1>1, <1>3, <2>1
<1> HIDE DEF b, c
<1>6. ASSUME NEW j \in 1 .. m + 2 - i
      PROVE  b[j] = c[j]
  <2>1. CASE j = m + 2 - i
    <3>1. i + j - 1 = m + 1
      BY <1>1, <2>1
    <3>2. QED BY <1>2, <1>4, <1>5, <2>1, <3>1
  <2>2. CASE j # m + 2 - i
    <3>1. j \in 1 .. m + 1 - i /\ i + j - 1 \in 1 .. m
      BY <1>1, <2>2
    <3>2. QED BY <1>2, <1>3, <1>4, <1>5, <3>1
  <2>3. QED BY <2>1, <2>2
<1>7. b = c
  BY <1>4, <1>5, <1>6, SeqEqual
<1>8. QED BY <1>7 DEF t, a, b, c

\* The invariant of the ring: what RingIsNewest says, of sequences of records.
RingInv ==
  /\ records \in Seq(Line) /\ history \in Seq(Line) /\ bytes \in Nat
  /\ RingIsNewest

\* What is evicted is as little as makes room.
LEMMA EvictedFacts ==
  ASSUME records \in Seq(Line), NEW line \in Line, line.size <= Capacity
  PROVE  /\ Evicted(line) \in 0 .. Len(records)
         /\ Size(SubSeq(records, Evicted(line) + 1, Len(records))) + line.size <= Capacity
         /\ Evicted(line) > 0 =>
              Size(SubSeq(records, Evicted(line), Len(records))) + line.size > Capacity
<1> DEFINE n == Len(records)
           fit == {k \in 0 .. n : Size(SubSeq(records, k + 1, n)) + line.size <= Capacity}
           g == Evicted(line)
<1>1. n \in Nat /\ line.size \in Nat /\ Capacity \in Nat
  BY LineSize, LogAssumption
<1>2. SubSeq(records, n + 1, n) = <<>>
  BY <1>1, SubSeqEmpty
<1>3. n \in fit
  <2>1. Size(SubSeq(records, n + 1, n)) = 0
    BY <1>2, SizeEmpty
  <2>2. n \in 0 .. n /\ 0 + line.size <= Capacity
    BY <1>1
  <2>3. QED BY <2>1, <2>2
<1>4. fit \in SUBSET Nat /\ fit # {}
  BY <1>1, <1>3
<1>5. g = Min(fit)
  BY DEF Evicted
<1> HIDE DEF g
<1>6. g \in fit /\ \A y \in fit : g <= y
  <2> HIDE DEF fit
  <2>1. QED BY <1>4, <1>5, LeastOf
<1>7. ASSUME g > 0
      PROVE  Size(SubSeq(records, g, n)) + line.size > Capacity
  <2>1. g \in 1 .. n /\ g - 1 \in 0 .. n /\ (g - 1) + 1 = g
    BY <1>1, <1>6, <1>7
  <2>2. SubSeq(records, g, n) \in Seq(Line)
    BY <1>1, <2>1, SubSeqProperties
  <2>3. Size(SubSeq(records, g, n)) \in Nat
    BY <2>2, SizeNat
  <2>4. g - 1 \notin fit
    <3> HIDE DEF fit
    <3>1. ~(g <= g - 1)
      BY <2>1
    <3>2. QED BY <1>6, <3>1
  <2>5. ~(Size(SubSeq(records, g, n)) + line.size <= Capacity)
    BY <2>1, <2>4
  <2>6. QED BY <1>1, <2>3, <2>5
<1>8. QED BY <1>6, <1>7 DEF g

\* A record that fits takes the place of the oldest ones.
LEMMA RetainKeeps ==
  ASSUME RingInv, NEW line \in Line, Retain(line)
  PROVE  RingInv'
<1>1. CASE ~(line.size <= Capacity)
  BY <1>1 DEF Retain, RingInv, RingIsNewest
<1>2. CASE line.size <= Capacity
  <2> DEFINE n == Len(records)
             m == Len(history)
             g == Evicted(line)
             kept == SubSeq(records, g + 1, n)
  <2>1. /\ records \in Seq(Line) /\ history \in Seq(Line) /\ n \in Nat /\ m \in Nat
        /\ bytes \in Nat /\ bytes = Size(records)
        /\ line.size \in Nat /\ Capacity \in Nat
    BY LineSize, LogAssumption DEF RingInv, RingIsNewest
  <2>2. /\ records' = Append(kept, line) /\ history' = Append(history, line)
        /\ bytes' = bytes - Size(SubSeq(records, 1, g)) + line.size
    BY <1>2 DEF Retain
  <2>3. /\ g \in 0 .. n /\ Size(kept) + line.size <= Capacity
        /\ g > 0 => Size(SubSeq(records, g, n)) + line.size > Capacity
    BY <1>2, <2>1, EvictedFacts
  <2> HIDE DEF g
  <2>4. kept \in Seq(Line) /\ SubSeq(records, 1, g) \in Seq(Line)
    BY <2>1, <2>3, SubSeqProperties
  <2>5. Size(kept) \in Nat /\ Size(SubSeq(records, 1, g)) \in Nat
    BY <2>4, SizeNat
  <2>6. Size(SubSeq(records, 1, g)) + Size(kept) = bytes
    BY <2>1, <2>3, SizeSplit
  <2>7. PICK k \in 0 .. m : /\ records = SubSeq(history, k + 1, m)
                            /\ k > 0 => Size(SubSeq(history, k, m)) > Capacity
    BY DEF RingInv, RingIsNewest
  <2>8. n = m - k
    <3>1. Len(SubSeq(history, k + 1, m)) = IF k + 1 <= m THEN m - (k + 1) + 1 ELSE 0
      BY <2>1, <2>7, SubSeqProperties
    <3>2. QED BY <2>1, <2>7, <3>1
  <2> DEFINE q == k + g
  <2>9. q \in 0 .. m
    BY <2>1, <2>3, <2>7, <2>8
  <2>10. kept = SubSeq(history, q + 1, m)
    BY <2>1, <2>3, <2>7, <2>8, SuffixOfSuffix
  <2>11. ASSUME q > 0
         PROVE  Size(SubSeq(history, q, m)) + line.size > Capacity
    <3>1. CASE g > 0
      <4>1. g - 1 \in 0 .. m - k /\ (g - 1) + 1 = g /\ k + (g - 1) + 1 = q
        BY <2>1, <2>3, <2>7, <2>8, <3>1
      <4>2. SubSeq(SubSeq(history, k + 1, m), (g - 1) + 1, m - k) = SubSeq(history, k + (g - 1) + 1, m)
        BY <2>1, <2>7, <4>1, SuffixOfSuffix
      <4>3. SubSeq(records, g, n) = SubSeq(history, q, m)
        BY <2>7, <2>8, <4>1, <4>2
      <4>4. QED BY <2>3, <3>1, <4>3
    <3>2. CASE g = 0
      <4>1. q = k /\ k > 0
        BY <2>7, <2>11, <3>2
      <4>2. SubSeq(history, k, m) \in Seq(Line)
        BY <2>1, <2>7, <4>1, SubSeqProperties
      <4>3. Size(SubSeq(history, k, m)) \in Nat
        BY <4>2, SizeNat
      <4>4. QED BY <2>1, <2>7, <4>1, <4>3
    <3>3. QED BY <2>3, <3>1, <3>2
  <2> HIDE DEF q
  <2>12. /\ history' \in Seq(Line) /\ records' \in Seq(Line) /\ Len(history') = m + 1
    BY <2>1, <2>2, <2>4, AppendProperties
  <2>13. Size(records') = Size(kept) + line.size
    BY <2>2, <2>4, SizeAppend
  <2>14. bytes' = Size(records') /\ bytes' <= Capacity /\ bytes' \in Nat
    <3> DEFINE x == Size(SubSeq(records, 1, g))
               y == Size(kept)
    <3>1. x \in Nat /\ y \in Nat /\ bytes = x + y /\ y + line.size <= Capacity
      BY <2>3, <2>5, <2>6
    <3>2. bytes' = bytes - x + line.size /\ Size(records') = y + line.size
      BY <2>2, <2>13
    <3> HIDE DEF x, y
    <3>3. QED BY <2>1, <3>1, <3>2
  <2>15. records' = SubSeq(history', q + 1, m + 1)
    <3>1. q + 1 \in 1 .. m + 1
      BY <2>1, <2>9
    <3>2. QED BY <2>1, <2>2, <2>10, <3>1, SuffixOfLonger
  <2>16. ASSUME q > 0
         PROVE  Size(SubSeq(history', q, m + 1)) > Capacity
    <3>1. q \in 1 .. m + 1
      BY <2>1, <2>9, <2>16
    <3>2. SubSeq(history', q, m + 1) = Append(SubSeq(history, q, m), line)
      BY <2>1, <2>2, <3>1, SuffixOfLonger
    <3>3. SubSeq(history, q, m) \in Seq(Line)
      BY <2>1, <3>1, SubSeqProperties
    <3>4. Size(SubSeq(history', q, m + 1)) = Size(SubSeq(history, q, m)) + line.size
      BY <3>2, <3>3, SizeAppend
    <3>5. QED BY <2>11, <2>16, <3>4
  <2>17. q \in 0 .. Len(history')
    BY <2>1, <2>9, <2>12
  <2>18. RingIsNewest'
    BY <2>12, <2>14, <2>15, <2>16, <2>17 DEF RingIsNewest
  <2>19. QED BY <2>12, <2>14, <2>18 DEF RingInv
<1>3. QED BY <1>1, <1>2

\* No step but Append touches the ring.
LEMMA RingKeeps ==
  ASSUME RingInv, FollowInv, [LogNext]_logs
  PROVE  RingInv'
<1>1. ASSUME UNCHANGED <<records, bytes, history>>
      PROVE  RingInv'
  BY <1>1 DEF RingInv, RingIsNewest
<1>2. ASSUME NEW size \in 1 .. MaxSize, AppendLine(size)
      PROVE  RingInv'
  <2> DEFINE line == [n |-> written', size |-> size]
  <2>1. line \in Line
    BY <1>2, LogAssumption DEF AppendLine, FollowInv, FollowersTyped, Line
  <2>2. UNCHANGED <<records, bytes, history>> \/ Retain(line)
    BY <1>2 DEF AppendLine
  <2> HIDE DEF line
  <2>3. QED BY <1>1, <2>1, <2>2, RetainKeeps
<1>3. CASE CloseLog
  BY <1>1, <1>3 DEF CloseLog
<1>4. ASSUME NEW f \in Followers, Reader(f) \/ Writer(f) \/ Watcher(f)
      PROVE  RingInv'
  BY <1>1, <1>4 DEF Reader, Writer, Watcher, Follow, ReaderReads, ReaderLeaves, WriterTakes,
                    WriteFails, WriterStops, WatcherRemoves, WatcherStops, Log
<1>5. CASE UNCHANGED logs
  BY <1>1, <1>5 DEF logs
<1>6. QED BY <1>2, <1>3, <1>4, <1>5 DEF LogNext

\* An empty ring is the newest suffix of nothing.
LEMMA RingEmpty ==
  ASSUME records = <<>>, history = <<>>, bytes = 0
  PROVE  RingInv
<1>1. <<>> \in Seq(Line) /\ Len(<<>>) = 0 /\ 0 <= Capacity
  BY LogAssumption
<1>2. SubSeq(<<>>, 1, 0) = <<>>
  BY SubSeqEmpty
<1>3. 0 \in 0 .. Len(history) /\ records = SubSeq(history, 0 + 1, Len(history))
  BY <1>1, <1>2
<1>4. QED BY <1>1, <1>3, SizeEmpty DEF RingInv, RingIsNewest

\* Both invariants hold in every behaviour of the log store.
LEMMA LogInvariance == LogSpec => [](FollowInv /\ RingInv)
<1>1. LogInit => RingInv
  BY RingEmpty DEF LogInit
<1>2. RingInv /\ FollowInv /\ [LogNext]_logs => RingInv'
  BY RingKeeps
<1>3. QED BY <1>1, <1>2, FollowInvAlways, PTL DEF LogSpec

\* The types follow from the two invariants.
LEMMA LogTyped == FollowInv /\ RingInv => LogTypeOK
  BY LogAssumption DEF FollowInv, FollowersTyped, RingInv, RingIsNewest, LogTypeOK

\* Whatever is appended, the log is well formed, and the count of its bytes
\* never exceeds the capacity nor falls below zero (Append in logs/store.go).
THEOREM LogTypeCorrect == LogSpec => []LogTypeOK
BY LogInvariance, LogTyped, PTL

\* The ring holds the longest suffix of the retained records that fits, and
\* bytes is its size: the loop of Append evicts the oldest, and no more of them
\* than it must (Append in logs/store.go).
THEOREM RingIsNewestAlways == LogSpec => []RingIsNewest
<1>1. RingInv => RingIsNewest
  BY DEF RingInv
<1>2. QED BY <1>1, LogInvariance, PTL
=============================================================================
