------------------------------ MODULE LogStore ------------------------------
(***************************************************************************)
(* The log of one link (internal/adapters/outbound/logs): a ring of        *)
(* records bounded by their bytes, and followers that are each served by   *)
(* a writer goroutine (runFollower) and a goroutine that watches for the   *)
(* end of the reader's context.  Store.mu makes Append, Follow, remove and *)
(* Close atomic.                                                           *)
(***************************************************************************)
EXTENDS Naturals, Sequences, SequencesExt

CONSTANTS Followers,  \* calls of Follow
          Capacity,   \* the bytes retained (10 MiB in the code)
          QueueLen,   \* the records queued for a follower (64 in the code)
          MaxSize,    \* bound: the size of a record
          MaxLines    \* bound: the records offered

ASSUME LogAssumption ==
  /\ Capacity \in Nat \ {0}
  /\ QueueLen \in Nat \ {0}
  /\ MaxSize \in Nat \ {0}
  /\ MaxLines \in Nat

VARIABLES records,    \* linkLog.records
          bytes,      \* linkLog.bytes
          closed,     \* linkLog.closed
          followers,  \* linkLog.followers
          fol,        \* what belongs to one call of Follow
          history,    \* history: the records retained at some time
          written     \* history: how many records were offered

logs == <<records, bytes, closed, followers, fol, history, written>>

\* Records are numbered in the order of their creation; a size stands for the
\* encoded length.
Line == [n: 1 .. MaxLines, size: 1 .. MaxSize]

\* done counts the closes of the channel, of which Go allows one.  The writer
\* holds the record it took from the queue while it writes to the pipe.
Follower == [queue: Seq(Line), held: Seq(Line), done: 0 .. 2,
             writer: {"none", "idle", "writing", "gone"},
             watcher: {"none", "waiting", "gone"},
             reader: {"none", "open", "eof", "left"}]
NoFollower == [queue |-> <<>>, held |-> <<>>, done |-> 0,
               writer |-> "none", watcher |-> "none", reader |-> "none"]

LogTypeOK ==
  /\ records \in Seq(Line) /\ history \in Seq(Line)
  /\ bytes \in 0 .. Capacity
  /\ closed \in BOOLEAN
  /\ followers \subseteq Followers
  /\ fol \in [Followers -> Follower]
  /\ written \in 0 .. MaxLines

LogInit ==
  /\ records = <<>> /\ bytes = 0 /\ history = <<>> /\ written = 0
  /\ closed = FALSE
  /\ followers = {} /\ fol = [f \in Followers |-> NoFollower]

-----------------------------------------------------------------------------
Size(s) == LET sum[i \in 0 .. Len(s)] == IF i = 0 THEN 0 ELSE sum[i - 1] + s[i].size
           IN  sum[Len(s)]

\* Mutant: a full ring is cleared.
EvictedAll(line) == IF Size(records) + line.size <= Capacity THEN 0 ELSE Len(records)

\* The oldest records go until the rest and the new one fit.
Evicted(line) ==
  Min({k \in 0 .. Len(records) : Size(SubSeq(records, k + 1, Len(records))) + line.size <= Capacity})

Retain(line) ==
  IF line.size <= Capacity
    THEN LET gone == Evicted(line)
         IN  /\ records' = Append(SubSeq(records, gone + 1, Len(records)), line)
             /\ bytes' = bytes - Size(SubSeq(records, 1, gone)) + line.size
             /\ history' = Append(history, line)
    ELSE UNCHANGED <<records, bytes, history>>

\* A follower whose queue is full loses the record; the writer does not wait.
Broadcast(line) ==
  fol' = [f \in Followers |->
            IF f \in followers /\ Len(fol[f].queue) < QueueLen
              THEN [fol[f] EXCEPT !.queue = Append(@, line)] ELSE fol[f]]

\* Append refuses a closed log: ErrClosedPipe, which capture ignores.
AppendLine(size) ==
  /\ written < MaxLines /\ written' = written + 1
  /\ LET line == [n |-> written', size |-> size]
     IN  IF closed THEN UNCHANGED <<records, bytes, history, fol>>
                   ELSE Retain(line) /\ Broadcast(line)
  /\ UNCHANGED <<closed, followers>>

-----------------------------------------------------------------------------
\* Mutant: Follow does not look whether the log is closed.
FollowAnyway(f) ==
  /\ fol[f] = NoFollower
  /\ followers' = followers \union {f}
  /\ fol' = [fol EXCEPT ![f].reader = "open", ![f].writer = "idle", ![f].watcher = "waiting"]
  /\ UNCHANGED <<records, bytes, closed, history, written>>

\* A follower of a closed log gets an ended pipe and no goroutines.
Follow(f) ==
  /\ fol[f] = NoFollower
  /\ IF closed
       THEN fol' = [fol EXCEPT ![f].reader = "eof"] /\ UNCHANGED followers
       ELSE /\ followers' = followers \union {f}
            /\ fol' = [fol EXCEPT ![f].reader = "open", ![f].writer = "idle", ![f].watcher = "waiting"]
  /\ UNCHANGED <<records, bytes, closed, history, written>>

\* Releasing followers F: done is closed and the pipe is ended.
Released(F) ==
  [f \in Followers |-> IF f \in F
     THEN [fol[f] EXCEPT !.done = @ + 1, !.reader = IF @ = "open" THEN "eof" ELSE @] ELSE fol[f]]

\* Mutant: remove without the look at the map.
RemovedBlindly(f) == Released({f})

\* remove: only who still finds the follower in the map releases it.
Removed(f) == Released({f} \intersect followers)

\* Close is idempotent and releases every follower.
CloseLog ==
  /\ closed' = TRUE
  /\ followers' = {}
  /\ fol' = IF closed THEN fol ELSE Released(followers)
  /\ UNCHANGED <<records, bytes, history, written>>

-----------------------------------------------------------------------------
\* The goroutines of a follower.
Log == UNCHANGED <<records, bytes, closed, history, written>>

\* select picks any ready case, so a record may be taken although done is closed.
WriterTakes(f) ==
  /\ fol[f].writer = "idle" /\ fol[f].queue # <<>>
  /\ fol' = [fol EXCEPT ![f].writer = "writing", ![f].held = <<Head(fol[f].queue)>>,
                        ![f].queue = Tail(@)]
  /\ Log /\ UNCHANGED followers

\* A pipe has no buffer: Write returns when the reader has read.
ReaderReads(f) ==
  /\ fol[f].writer = "writing" /\ fol[f].reader = "open"
  /\ fol' = [fol EXCEPT ![f].writer = "idle", ![f].held = <<>>]
  /\ Log /\ UNCHANGED followers

\* The pipe was ended from either side: Write fails and the writer removes the
\* follower.
WriteFails(f) ==
  /\ fol[f].writer = "writing" /\ fol[f].reader \in {"eof", "left"}
  /\ followers' = followers \ {f}
  /\ fol' = [Removed(f) EXCEPT ![f].writer = "gone", ![f].held = <<>>]
  /\ Log

WriterStops(f) ==
  /\ fol[f].writer = "idle" /\ fol[f].done > 0
  /\ fol' = [fol EXCEPT ![f].writer = "gone"]
  /\ Log /\ UNCHANGED followers

\* The HTTP handler returns: it closes its end of the pipe and its context ends.
ReaderLeaves(f) ==
  /\ fol[f].reader \in {"open", "eof"}
  /\ fol' = [fol EXCEPT ![f].reader = "left"]
  /\ Log /\ UNCHANGED followers

\* Mutant: the watcher ends without removing the follower.
WatcherForgets(f) ==
  /\ fol[f].watcher = "waiting"
  /\ fol' = [fol EXCEPT ![f].watcher = "gone"]
  /\ Log /\ UNCHANGED followers

\* The context ends because the handler is gone, or by the request timeout.
WatcherRemoves(f) ==
  /\ fol[f].watcher = "waiting"
  /\ followers' = followers \ {f}
  /\ fol' = [Removed(f) EXCEPT ![f].watcher = "gone"]
  /\ Log

WatcherStops(f) ==
  /\ fol[f].watcher = "waiting" /\ fol[f].done > 0
  /\ fol' = [fol EXCEPT ![f].watcher = "gone"]
  /\ Log /\ UNCHANGED followers

-----------------------------------------------------------------------------
Writer(f)  == WriterTakes(f) \/ WriteFails(f) \/ WriterStops(f)
Watcher(f) == WatcherRemoves(f) \/ WatcherStops(f)
Reader(f)  == Follow(f) \/ ReaderReads(f) \/ ReaderLeaves(f)

\* Anyone may append and close at any time.
LogNext ==
  \/ \E size \in 1 .. MaxSize : AppendLine(size)
  \/ CloseLog
  \/ \E f \in Followers : Reader(f) \/ Writer(f) \/ Watcher(f)

LogSpec == LogInit /\ [][LogNext]_logs

\* Go runs every runnable goroutine.  A watcher must act once the handler is
\* gone; the request timeout, which may end a context earlier, is not relied on.
LogFairness ==
  \A f \in Followers : /\ WF_logs(Writer(f))
                       /\ WF_logs(fol[f].reader # "open" /\ Watcher(f))

LogFairSpec == LogSpec /\ LogFairness

-----------------------------------------------------------------------------
\* The ring holds the newest complete records that fit: the longest such
\* suffix of what was retained, and bytes is its size.
RingIsNewest ==
  /\ bytes = Size(records) /\ bytes <= Capacity
  /\ \E k \in 0 .. Len(history) :
       /\ records = SubSeq(history, k + 1, Len(history))
       /\ k > 0 => Size(SubSeq(history, k, Len(history))) > Capacity

\* The done channel of a follower is closed once, although Close, its writer
\* and its watcher may all release it: a second close would panic the daemon.
ReleasedOnce == \A f \in Followers : fol[f].done <= 1

\* After Close nobody waits on the log: every stream has ended, also one that
\* a concurrent Follow opened.
ClosedEndsStreams == closed => followers = {} /\ \A f \in Followers : fol[f].reader # "open"

\* No goroutine outlives its follower: after the end of the stream, and after a
\* client that went away, writer and watcher end, blocked in a write or not.
GoroutinesEnd ==
  \A f \in Followers :
    (fol[f].reader \in {"eof", "left"})
      ~> (fol[f].writer \in {"none", "gone"} /\ fol[f].watcher \in {"none", "gone"})
=============================================================================
