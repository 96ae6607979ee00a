------------------------------- MODULE FileLRU -------------------------------
(***************************************************************************)
(* The cache of static files and the inotify watch that keeps it current.  *)
(* A request asks for a file on the thread of its sub loop: get looks under *)
(* the shared lock, put reads the file under the unique lock.  The watch   *)
(* runs on the main loop's thread and turns the events of the directory    *)
(* into addFile, delFile and moveFile.  The disk changes when it likes.    *)
(* A file has many names: the map is looked up by what the request says,   *)
(* while the watch makes one name of the path, '/' and what is below the   *)
(* static directory.                                                       *)
(*                                                                         *)
(* A file's content is its length.  The list of entries is the code's: two *)
(* pointers for each entry, written one at a time, since get writes them   *)
(* while it only shares the lock.                                          *)
(***************************************************************************)
EXTENDS Integers, Sequences, FiniteSets, SequencesExt, FiniteSetsExt

CONSTANTS Files,       \* the files, each by the name the watch has for it
          Names,       \* what requests say: those, and others such as "//a.html"
          FileOf,      \* the file a name leads to below the static directory
          Outside,     \* a place elsewhere, for files moved in and out
          Readers,     \* sub loops, whose requests ask for files
          Capacity,    \* capacity_, in units of length
          MaxLength,   \* bound: length of a file
          MaxChanges,  \* bound: changes of the directory
          MaxNodes     \* bound: entries that exist or are pointed to

Watch == "watch"
Threads == Readers \union {Watch}
Absent == 0                        \* the length of a file that is not there
Lengths == 1 .. MaxLength
Nodes == 1 .. MaxNodes
head == 0
tail == MaxNodes + 1
null == MaxNodes + 2
Pointers == head .. null
None == Outside                    \* the key of an entry that is not allocated

ASSUME FileLRUAssumption ==
         /\ Files \subseteq Names /\ FileOf \in [Names -> Files]
         /\ \A f \in Files : FileOf[f] = f
         /\ Outside \notin Names /\ Watch \notin Readers
         /\ Capacity \in Nat /\ MaxLength \in Nat
         /\ MaxChanges \in Nat /\ MaxNodes \in Nat

VARIABLES map,      \* map_: the entry of each name, or null
          key,      \* key__ of each entry
          buf,      \* buf__ of each entry: its length
          list,     \* next__ and prev__ of the entries and of head_ and tail_
          size,     \* size_
          at,       \* where each thread is
          want,     \* the name it is about
          step,     \* the next pointer it writes
          storage,  \* move_file_storage: cookies and their paths
          disk,     \* the directory: the length of each file
          events,   \* the kernel's inotify queue
          changes,  \* changes of the directory so far
          renamed,  \* history: names that took part in a rename
          overlapped, \* history: two readers have moved entries at once
          fate      \* "runs", or how the process ended

cache == <<map, key, buf, list, size>>
threads == <<at, want, step>>
directory == <<disk, events, changes, renamed>>
vars == <<cache, threads, storage, directory, overlapped, fate>>

Events == [kind : {"changed", "deleted", "from", "to"}, file : Files, cookie : 1 .. MaxChanges]

Allocated == {n \in Nodes : key[n] # None}
Cached(f) == map[f] # null
Moving == {r \in Readers : at[r] = "move"}

TypeOK == /\ map \in [Names -> Nodes \union {null}]
          /\ key \in [Nodes -> Names \union {None}]
          /\ buf \in [Nodes -> Lengths \union {Absent}]
          /\ list \in [{"next", "prev"} -> [head .. tail -> Pointers]]
          /\ size \in Nat
          /\ at \in [Threads -> {"idle", "move", "put", "read"}]
          /\ want \in [Threads -> Names \union {None}]
          /\ step \in [Threads -> 0 .. 8]
          /\ storage \in [1 .. MaxChanges -> Files \union {None}]
          /\ disk \in [Files -> Lengths \union {Absent}]
          /\ events \in Seq(Events)
          /\ changes \in 0 .. MaxChanges
          /\ renamed \subseteq Files
          /\ overlapped \in BOOLEAN
          /\ fate \in {"runs", "null", "dangling", "torn", "terminate"}

Init == /\ map = [f \in Names |-> null]
        /\ key = [n \in Nodes |-> None]
        /\ buf = [n \in Nodes |-> Absent]
        /\ list = [next |-> [p \in head .. tail |-> IF p = head THEN tail ELSE null],
                   prev |-> [p \in head .. tail |-> IF p = tail THEN head ELSE null]]
        /\ size = 0
        /\ at = [t \in Threads |-> "idle"]
        /\ want = [t \in Threads |-> None]
        /\ step = [t \in Threads |-> 0]
        /\ storage = [c \in 1 .. MaxChanges |-> None]
        /\ disk \in [Files -> Lengths \union {Absent}]
        /\ events = <<>>
        /\ changes = 0
        /\ renamed = {}
        /\ overlapped = FALSE
        /\ fate = "runs"

-----------------------------------------------------------------------------
(* The list.  remove writes pointers 1 to 4, push_back 5 to 8: one at a    *)
(* time under the shared lock, in one step under the unique one.           *)

Writes(l, n) == << <<"next", l.prev[n], l.next[n]>>,
                   <<"prev", l.next[n], l.prev[n]>>,
                   <<"prev", n, null>>,
                   <<"next", n, null>>,
                   <<"prev", n, l.prev[tail]>>,
                   <<"next", n, tail>>,
                   <<"next", l.prev[tail], n>>,
                   <<"prev", tail, n>> >>

Written(l, n, i) == LET w == Writes(l, n)[i] IN [l EXCEPT ![w[1]][w[2]] = w[3]]

(* Plausible bugs, each of which breaks a property at the end.  Next uses    *)
(* none of them.                                                             *)

\* tail_->prev__ is set before the entry it pointed to is made to lead on.
PushBackSwapped(l, n) ==
    [next |-> [l.next EXCEPT ![n] = n],
     prev |-> [l.prev EXCEPT ![n] = l.prev[tail], ![tail] = n]]

\* push_front in its place: what was used last is evicted first.
PushFront(l, n) ==
    [next |-> [l.next EXCEPT ![n] = l.next[head], ![head] = n],
     prev |-> [l.prev EXCEPT ![n] = head, ![l.next[head]] = n]]

\* The new length is not added; it is not counted at all; the old buffer stays.
RenewSubtracts(f, length) ==
    /\ size' = size - buf[map[f]]
    /\ buf' = [buf EXCEPT ![map[f]] = length]
    /\ UNCHANGED <<map, key, list>>
RenewKeepsSize(f, length) ==
    /\ buf' = [buf EXCEPT ![map[f]] = length]
    /\ UNCHANGED <<map, key, list, size>>
RenewKeepsBuffer(f, length) == UNCHANGED cache

\* The evicted entries stay in the map.
NoKeys(nodes) == {}

Unlink(l, n) ==
    [next |-> [l.next EXCEPT ![l.prev[n]] = l.next[n], ![n] = null],
     prev |-> [l.prev EXCEPT ![l.next[n]] = l.prev[n], ![n] = null]]
PushBack(l, n) ==
    [next |-> [l.next EXCEPT ![n] = tail, ![l.prev[tail]] = n],
     prev |-> [l.prev EXCEPT ![n] = l.prev[tail], ![tail] = n]]
UnlinkAll(l, nodes) ==
    LET left[i \in 0 .. Len(nodes)] == IF i = 0 THEN l ELSE Unlink(left[i - 1], nodes[i])
    IN left[Len(nodes)]

\* The entries on the way from head_ to tail_.
Chain(l) ==
    LET after == [p \in Pointers |-> IF p \in Nodes THEN l.next[p] ELSE p]
        hop[i \in Nat] == IF i = 0 THEN l.next[head] ELSE after[hop[i - 1]]
    IN [i \in {k \in Nodes : hop[k - 1] \in Nodes} |-> hop[i - 1]]

\* next__ leads from head_ to tail_ over every entry that exists, each once, and
\* prev__ leads back the same way.
InOnePiece ==
    LET way == <<head>> \o Chain(list) \o <<tail>> IN
    /\ ToSet(Chain(list)) = Allocated /\ IsInjective(way)
    /\ \A i \in 1 .. Len(way) - 1 : /\ list.next[way[i]] = way[i + 1]
                                    /\ list.prev[way[i + 1]] = way[i]

\* How much some entries hold.
Sum(nodes) == Cardinality(UNION {{n} \X (1 .. buf[n]) : n \in nodes})

-----------------------------------------------------------------------------
(* FileLRU.  The unique lock keeps out all others, the shared one who has  *)
(* or wants the unique one.  An entry that was freed and is still pointed  *)
(* to is "dangling": following it is undefined, and the model ends there.  *)
(* So it does where readers who moved entries at the same time have left   *)
(* the list in pieces ("torn"), once somebody with the unique lock uses it.*)

Runs == fate = "runs"
SharedFree == \A t \in Threads : at[t] # "read"
LockFree == \A t \in Threads : at[t] \notin {"move", "read"}
Dangling(f) == Cached(f) /\ map[f] \notin Allocated

Goes(t, where) == at' = [at EXCEPT ![t] = where]
Ends(how) == /\ fate' = how
             /\ UNCHANGED <<cache, threads, storage>>

\* getFile and get, up to the first pointer or to the end of a miss.  The shared
\* lock does not keep out another reader that moves an entry.
Get(r, f) ==
    /\ Runs /\ at[r] = "idle" /\ SharedFree
    /\ IF Dangling(f)
         THEN Ends("dangling")
         ELSE /\ Goes(r, IF Cached(f) THEN "move" ELSE "put")
              /\ want' = [want EXCEPT ![r] = f]
              /\ step' = [step EXCEPT ![r] = IF Cached(f) THEN 1 ELSE 0]
              /\ UNCHANGED <<cache, storage, fate>>
    /\ overlapped' = (overlapped \/ (Cached(f) /\ ~Dangling(f) /\ Moving # {}))
    /\ UNCHANGED directory

\* get: push_back(remove(map_[key])), one pointer.
Move(r) ==
    LET n == map[want[r]] IN
    /\ Runs /\ at[r] = "move"
    /\ IF Writes(list, n)[step[r]][2] = null
         THEN Ends("null")
         ELSE /\ list' = Written(list, n, step[r])
              /\ IF step[r] < 8
                   THEN /\ step' = [step EXCEPT ![r] = @ + 1]
                        /\ UNCHANGED <<at, want>>
                   ELSE /\ Goes(r, "idle")
                        /\ want' = [want EXCEPT ![r] = None]
                        /\ step' = [step EXCEPT ![r] = 0]
              /\ UNCHANGED <<map, key, buf, size, storage, fate>>
    /\ UNCHANGED <<directory, overlapped>>

PutDone(t) == /\ Goes(t, "idle")
              /\ want' = [want EXCEPT ![t] = None]
              /\ UNCHANGED step

\* full_path: where the name leads, whatever it looks like.
OnDisk(t) == disk[FileOf[want[t]]]

\* put: the lock and the two checks.  A file that is not there is an exception
\* getFile and addFile catch.  bigfile_error is not one of those: the caller of
\* getFile catches it, and nobody does on the main loop's thread.
PutChecks(t) ==
    /\ Runs /\ at[t] = "put" /\ LockFree
    /\ IF OnDisk(t) \in 1 .. Capacity
         THEN Goes(t, "read") /\ UNCHANGED <<want, step, cache, storage, fate>>
         ELSE IF t = Watch /\ OnDisk(t) > Capacity
           THEN Ends("terminate")
           ELSE PutDone(t) /\ UNCHANGED <<cache, storage, fate>>
    /\ UNCHANGED <<directory, overlapped>>

\* put: an entry that exists gets the new buffer and is the last in the list.
Renew(f, length) ==
    LET n == map[f] IN
    /\ size' = size - buf[n] + length
    /\ buf' = [buf EXCEPT ![n] = length]
    /\ list' = PushBack(Unlink(list, n), n)
    /\ UNCHANGED <<map, key>>

\* The loop goes on while size_ >= capacity_.
EvictionsBelow(length) ==
    {i \in 0 .. Len(Chain(list)) :
        size + length - Sum(ToSet(SubSeq(Chain(list), 1, i))) < Capacity}

\* put: how many entries go before a new one of this length, from head_ on.
Evictions(length) ==
    {i \in 0 .. Len(Chain(list)) :
        size + length - Sum(ToSet(SubSeq(Chain(list), 1, i))) <= Capacity}

KeysOf(nodes) == {key[n] : n \in nodes \intersect Nodes}

\* What an entry can be put in: not where a name still leads to a freed one.
Free == Nodes \ (Allocated \union {map[f] : f \in Names})
NewNode == CHOOSE n \in Free : TRUE

\* put: an entry that does not exist.  The map loses what the keys of the
\* evicted entries say.
Insert(f, length) ==
    LET gone == SubSeq(Chain(list), 1, Min(Evictions(length)))
        lost == KeysOf(ToSet(gone))
        new  == NewNode
    IN /\ Free # {}
       /\ size' = size + length - Sum(ToSet(gone))
       /\ map' = [g \in Names |-> IF g = f THEN new ELSE IF g \in lost THEN null ELSE map[g]]
       /\ key' = [n \in Nodes |-> IF n = new THEN f ELSE IF n \in ToSet(gone) THEN None ELSE key[n]]
       /\ buf' = [n \in Nodes |-> IF n = new THEN length ELSE IF n \in ToSet(gone) THEN Absent ELSE buf[n]]
       /\ list' = PushBack(UnlinkAll(list, gone), new)

\* put: the file is read and stored.  It may be gone by now, or have grown:
\* then the loop that makes room goes on past the last entry.
PutReads(t) ==
    LET f == want[t]
        length == OnDisk(t)
    IN /\ Runs /\ at[t] = "read"
       /\ IF length = Absent
            THEN PutDone(t) /\ UNCHANGED <<cache, storage, fate>>
            ELSE IF Dangling(f) THEN Ends("dangling")
            ELSE IF ~InOnePiece THEN Ends("torn")
            ELSE IF ~Cached(f) /\ Evictions(length) = {} THEN Ends("null")
            ELSE /\ IF Cached(f) THEN Renew(f, length) ELSE Insert(f, length)
                 /\ PutDone(t)
                 /\ UNCHANGED <<storage, fate>>
       /\ UNCHANGED <<directory, overlapped>>

DelFile(f) ==
    LET n == map[f] IN
    IF Dangling(f) THEN Ends("dangling")
    ELSE IF Cached(f) /\ ~InOnePiece THEN Ends("torn")
    ELSE /\ IF Cached(f)
              THEN /\ size' = size - buf[n]
                   /\ list' = Unlink(list, n)
                   /\ key' = [key EXCEPT ![n] = None]
                   /\ buf' = [buf EXCEPT ![n] = Absent]
                   /\ map' = [map EXCEPT ![f] = null]
              ELSE UNCHANGED cache
         /\ UNCHANGED <<threads, storage, fate>>

\* The name changes in the map only: key__ stays what it was.
MoveFile(old, new) ==
    /\ map' = IF Cached(old) THEN [map EXCEPT ![old] = null, ![new] = map[old]] ELSE map
    /\ UNCHANGED <<key, buf, list, size, threads, fate>>

-----------------------------------------------------------------------------
(* The watch: the read callback of the inotify descriptor, event by event.   *)

NextEvent == /\ Runs /\ at[Watch] = "idle" /\ events # <<>>
             /\ events' = Tail(events)
             /\ UNCHANGED <<disk, changes, renamed, overlapped>>

\* IN_CREATE and IN_MODIFY: addFile, which is put.
Changed == LET e == Head(events) IN
           /\ NextEvent /\ e.kind = "changed"
           /\ Goes(Watch, "put")
           /\ want' = [want EXCEPT ![Watch] = e.file]
           /\ UNCHANGED <<step, cache, storage, fate>>

Deleted == LET e == Head(events) IN
           /\ NextEvent /\ e.kind = "deleted" /\ LockFree
           /\ DelFile(e.file)

\* IN_MOVED_FROM and IN_MOVED_TO, whichever comes second for its cookie.
Paired == LET e == Head(events)
              other == storage[e.cookie]
          IN /\ NextEvent /\ e.kind \in {"from", "to"} /\ other # None /\ LockFree
             /\ IF e.kind = "from" THEN MoveFile(e.file, other) ELSE MoveFile(other, e.file)
             /\ storage' = [storage EXCEPT ![e.cookie] = None]

Stored == LET e == Head(events) IN
          /\ NextEvent /\ e.kind \in {"from", "to"} /\ storage[e.cookie] = None
          /\ storage' = [storage EXCEPT ![e.cookie] = e.file]
          /\ UNCHANGED <<cache, threads, fate>>

-----------------------------------------------------------------------------
(* The directory.                                                            *)

Change(newDisk, newEvents, names) ==
    /\ Runs /\ changes < MaxChanges
    /\ changes' = changes + 1
    /\ disk' = newDisk
    /\ events' = events \o newEvents
    /\ renamed' = renamed \union names
    /\ UNCHANGED <<cache, threads, storage, overlapped, fate>>

Event(kind, f) == [kind |-> kind, file |-> f, cookie |-> changes + 1]

Write(f, n) == /\ disk[f] # n
               /\ Change([disk EXCEPT ![f] = n], <<Event("changed", f)>>, {})

Delete(f) == /\ disk[f] # Absent
             /\ Change([disk EXCEPT ![f] = Absent], <<Event("deleted", f)>>, {})

Rename(f, g) == /\ disk[f] # Absent /\ f # g
                /\ Change([disk EXCEPT ![f] = Absent, ![g] = disk[f]],
                          <<Event("from", f), Event("to", g)>>, {f, g})

MoveOut(f) == /\ disk[f] # Absent
              /\ Change([disk EXCEPT ![f] = Absent], <<Event("from", f)>>, {f})

MoveIn(f, n) == Change([disk EXCEPT ![f] = n], <<Event("to", f)>>, {f})

-----------------------------------------------------------------------------
Next == \/ \E r \in Readers, f \in Names : Get(r, f)
        \/ \E r \in Readers : Move(r)
        \/ \E t \in Threads : PutChecks(t) \/ PutReads(t)
        \/ Changed \/ Deleted \/ Paired \/ Stored
        \/ \E f \in Files, n \in Lengths : Write(f, n) \/ MoveIn(f, n)
        \/ \E f \in Files : Delete(f) \/ MoveOut(f)
        \/ \E f, g \in Files : Rename(f, g)

Spec == Init /\ [][Next]_vars

-----------------------------------------------------------------------------
(* Properties.                                                               *)

\* Between two moves the list leads over every entry that exists, each once, and
\* back the same way, as long as no two moves have overlapped.
ListWhole == Runs /\ Moving = {} /\ ~overlapped => InOnePiece

\* size_ is what the entries hold, those included that a rename has left without
\* a name: an error in it would be an eviction too many, or a cache that grows.
SizeIsSum == size = Sum(Allocated)

\* Names that took part in no rename have the entry that bears their name, and an
\* entry that bears such a name is theirs: nothing is left behind, or freed while
\* the map still leads to it.
MapMatchesEntries ==
    Runs =>
      /\ \A f \in Names \ renamed : Cached(f) => key[map[f]] = f
      /\ \A n \in Allocated : key[n] \notin renamed => map[key[n]] = n

\* When the watch has handled all events, what is cached under a name the watch
\* uses is what is on the disk, if no rename has touched the name.  What another
\* spelling of the name has cached the watch never reaches: it stays what it was.
CachedIsCurrent ==
    Runs /\ events = <<>> /\ at[Watch] = "idle" =>
      \A f \in Files \ renamed : Cached(f) => buf[map[f]] = disk[f]

\* A pointer is written through null only where two readers have moved entries at
\* once, or a file that is being read has outgrown the whole cache since it was
\* checked: the loop that makes room stops in time for every other file.
GrownTooBig == \E t \in Threads : at[t] = "read" /\ OnDisk(t) > Capacity
NullOnlyWhenGrown == fate = "null" => overlapped \/ GrownTooBig

\* No pointer is written through null.
NoNullWrite == fate # "null"

Less(s, n) == IF n \in ToSet(s) THEN RemoveAt(s, CHOOSE i \in DOMAIN s : s[i] = n) ELSE s

\* The list is Recency's, a move that has begun being taken for done, until two
\* moves overlap.
Order == IF Moving = {} THEN Chain(list)
         ELSE LET n == map[want[CHOOSE r \in Moving : TRUE]]
              IN Append(Less(Chain(list), n), n)

WithLengths == [order \in Seq(Nodes) |->
                  [i \in DOMAIN order |-> [entry |-> order[i], length |-> buf[order[i]]]]]

R == INSTANCE Recency WITH Entries <- Nodes, recent <- WithLengths[Order]
ImplementsRecency == R!Init /\ [][overlapped' \/ R!Next]_(WithLengths[Order])
=============================================================================
