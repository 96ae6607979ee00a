---------------------------- MODULE FileLRUProofs ----------------------------
(***************************************************************************)
(* Map and entries of FileLRU agree, size_ is what the entries hold, and   *)
(* what is cached under the watch's names is what is on the disk once the  *)
(* watch has caught up: for any number of files and of spellings of their  *)
(* names, of requests at once, of changes and of lengths, whatever the     *)
(* list looks like.  Until two readers move entries at once, the list is   *)
(* whole and goes the way of Recency, and only a file that outgrows the    *)
(* cache while it is read takes a pointer through null.                    *)
(***************************************************************************)
EXTENDS FileLRU, SequenceLemmas, FiniteSetTheorems

\* The types of all but the list, its size and the pointers being written.
Types == /\ map \in [Names -> Nodes \union {null}]
         /\ key \in [Nodes -> Names \union {None}]
         /\ buf \in [Nodes -> Lengths \union {Absent}]
         /\ at \in [Threads -> {"idle", "move", "put", "read"}]
         /\ want \in [Threads -> Names \union {None}]
         /\ \A t \in Threads : at[t] # "idle" => want[t] \in Names
         /\ at[Watch] # "idle" => want[Watch] \in Files
         /\ storage \in [1 .. MaxChanges -> Files \union {None}]
         /\ disk \in [Files -> Lengths \union {Absent}]
         /\ events \in Seq(Events)
         /\ changes \in 0 .. MaxChanges
         /\ renamed \subseteq Files

\* Two names never lead to one entry, not even to one that was freed.
NoSharing == \A f, g \in Names : Cached(f) /\ map[f] = map[g] => f = g

NamesMatch == \A f \in Names \ renamed : Cached(f) => key[map[f]] = f
EntriesMatch == \A n \in Allocated : key[n] \notin renamed => map[key[n]] = n

\* The watch renames only what took part in a rename.
MovesNamed == /\ \A i \in DOMAIN events : events[i].kind \in {"from", "to"} => events[i].file \in renamed
              /\ \A c \in DOMAIN storage : storage[c] # None => storage[c] \in renamed

LastKind(f) == IF disk[f] = Absent THEN "deleted" ELSE "changed"
Due(f) == \/ \E i \in DOMAIN events : events[i].file = f /\ events[i].kind = LastKind(f)
          \/ at[Watch] \in {"put", "read"} /\ want[Watch] = f /\ disk[f] # Absent

\* A file that is cached and not as on the disk is due: its last change is in the
\* queue, or the watch is about to read it.
StaleIsDue == Runs => \A f \in Files \ renamed : Cached(f) /\ buf[map[f]] # disk[f] => Due(f)

Inv == Types /\ NoSharing /\ NamesMatch /\ EntriesMatch /\ MovesNamed /\ StaleIsDue

\* What the map and the entries say, which four operations change.
Agreement == NoSharing /\ NamesMatch /\ EntriesMatch

LEMMA ConstantFacts ==
  /\ Absent \notin Lengths /\ null \notin Nodes /\ None \notin Names
  /\ Files \subseteq Names /\ None \notin Files
  /\ \A f \in Names : FileOf[f] \in Files
  /\ \A f \in Files : FileOf[f] = f
  /\ Watch \in Threads /\ Watch \notin Readers /\ Readers \subseteq Threads
  /\ \A n \in Nodes : n # null
BY FileLRUAssumption DEF Absent, Lengths, null, Nodes, None, Threads, Watch

LEMMA InvInit == Init => Inv
<1> SUFFICES ASSUME Init PROVE Inv
  OBVIOUS
<1> USE DEF Init
<1>1. Types
  BY FileLRUAssumption, ConstantFacts DEF Types, Events
<1>2. NoSharing /\ NamesMatch /\ StaleIsDue
  BY ConstantFacts DEF NoSharing, NamesMatch, StaleIsDue, Cached
<1>3. EntriesMatch /\ MovesNamed
  BY DEF EntriesMatch, MovesNamed, Allocated
<1> QED BY <1>1, <1>2, <1>3 DEF Inv

\* A step that only moves threads on keeps the agreement.
LEMMA AgreementKept ==
  ASSUME Agreement, UNCHANGED <<map, key, renamed>>
  PROVE  Agreement'
BY DEF Agreement, NoSharing, NamesMatch, EntriesMatch, Cached, Allocated

\* An entry is renewed: no other name's buffer changes.
LEMMA RenewEffect ==
  ASSUME Types, Agreement, NEW f \in Names, NEW length \in Lengths, ~Dangling(f), Cached(f),
         Renew(f, length), UNCHANGED renamed
  PROVE  /\ UNCHANGED <<map, key>>
         /\ buf' \in [Nodes -> Lengths \union {Absent}]
         /\ \A g \in Names \ renamed : Cached(g) => buf'[map[g]] = IF g = f THEN length ELSE buf[map[g]]
<1>1. map[f] \in Nodes
  BY DEF Types, Cached
<1>2. UNCHANGED <<map, key>> /\ buf' = [buf EXCEPT ![map[f]] = length]
  BY DEF Renew
<1>3. \A g \in Names \ renamed : Cached(g) => map[g] \in Nodes /\ (g # f => map[g] # map[f])
  BY DEF Types, Agreement, NoSharing, Cached
<1> QED BY <1>1, <1>2, <1>3 DEF Types

\* A new entry is made, and any others are evicted.
LEMMA InsertEffect ==
  ASSUME Types, Agreement, NEW f \in Names, NEW length \in Lengths, ~Cached(f),
         Insert(f, length), UNCHANGED renamed
  PROVE  /\ Agreement'
         /\ map' \in [Names -> Nodes \union {null}]
         /\ key' \in [Nodes -> Names \union {None}]
         /\ buf' \in [Nodes -> Lengths \union {Absent}]
         /\ \A g \in Names \ renamed : Cached(g)' =>
              IF g = f THEN buf'[map'[g]] = length
                       ELSE Cached(g) /\ buf'[map'[g]] = buf[map[g]]
<1> DEFINE G == ToSet(SubSeq(Chain(list), 1, Min(Evictions(length))))
           new == NewNode
           lost == KeysOf(G)
<1>1. /\ map' = [g \in Names |-> IF g = f THEN new ELSE IF g \in lost THEN null ELSE map[g]]
      /\ key' = [n \in Nodes |-> IF n = new THEN f ELSE IF n \in G THEN None ELSE key[n]]
      /\ buf' = [n \in Nodes |-> IF n = new THEN length ELSE IF n \in G THEN Absent ELSE buf[n]]
      /\ Free # {}
  BY DEF Insert
<1>2. new \in Free
  BY <1>1 DEF NewNode
<1>3. new \in Nodes /\ new \notin Allocated /\ \A g \in Names : map[g] # new
  BY <1>2 DEF Free
<1>4. lost = {key[n] : n \in G \intersect Nodes}
  BY DEF KeysOf
<1> HIDE DEF G, new, lost
<1>5. \A g \in Names \ renamed : Cached(g) => map[g] \in Nodes /\ key[map[g]] = g
  BY DEF Types, Agreement, NamesMatch, Cached
<1>6. \A g \in Names \ renamed : Cached(g)' /\ g # f => Cached(g) /\ map'[g] = map[g] /\ map[g] \notin G
  BY <1>1, <1>4, <1>5 DEF Cached
<1>7. NamesMatch'
  BY <1>1, <1>3, <1>5, <1>6 DEF NamesMatch, Cached
<1>8. NoSharing'
  BY <1>1, <1>3 DEF NoSharing, Agreement, Cached
<1>9. EntriesMatch'
  <2> SUFFICES ASSUME NEW n \in Allocated', key'[n] \notin renamed
               PROVE  map'[key'[n]] = n
    BY DEF EntriesMatch
  <2>1. n \in Nodes /\ key'[n] # None
    BY DEF Allocated
  <2>2. CASE n = new
    BY <1>1, <1>3, <2>2
  <2>3. CASE n # new
    <3>1. n \notin G /\ key'[n] = key[n] /\ n \in Allocated
      BY <1>1, <2>1, <2>3 DEF Allocated
    <3>2. key[n] \in Names /\ map[key[n]] = n
      BY <3>1, <2>1 DEF Agreement, EntriesMatch, Types
    <3>3. key[n] # f
      BY <3>2, <2>1, ConstantFacts DEF Cached
    <3>4. key[n] \notin lost
      BY <1>4, <3>1, <3>2, ConstantFacts DEF Agreement, EntriesMatch, Allocated
    <3> QED BY <1>1, <3>1, <3>2, <3>3, <3>4
  <2> QED BY <2>2, <2>3
<1>10. /\ map' \in [Names -> Nodes \union {null}]
       /\ key' \in [Nodes -> Names \union {None}]
       /\ buf' \in [Nodes -> Lengths \union {Absent}]
  BY <1>1, <1>3 DEF Types
<1>11. \A g \in Names \ renamed : Cached(g)' =>
              IF g = f THEN buf'[map'[g]] = length
                       ELSE Cached(g) /\ buf'[map'[g]] = buf[map[g]]
  BY <1>1, <1>3, <1>5, <1>6
<1> QED BY <1>7, <1>8, <1>9, <1>10, <1>11 DEF Agreement

\* A file is deleted: its name loses its entry, if it has one.
LEMMA DelFileEffect ==
  ASSUME Types, Agreement, NEW f \in Names, DelFile(f), UNCHANGED renamed
  PROVE  /\ Agreement'
         /\ map' \in [Names -> Nodes \union {null}]
         /\ key' \in [Nodes -> Names \union {None}]
         /\ buf' \in [Nodes -> Lengths \union {Absent}]
         /\ Runs' => /\ ~Cached(f)'
                     /\ \A g \in Names \ renamed : Cached(g)' => Cached(g) /\ buf'[map'[g]] = buf[map[g]]
<1>1. CASE Dangling(f) \/ (Cached(f) /\ ~InOnePiece)
  <2>1. UNCHANGED <<map, key, buf>> /\ ~Runs'
    BY <1>1 DEF DelFile, Ends, cache, Runs
  <2> QED BY <2>1, AgreementKept DEF Types
<1>2. CASE ~Dangling(f) /\ ~Cached(f)
  <2>1. UNCHANGED <<map, key, buf>>
    BY <1>2 DEF DelFile, cache
  <2> QED BY <1>2, <2>1, AgreementKept DEF Types, Cached
<1>3. CASE ~Dangling(f) /\ Cached(f) /\ InOnePiece
  <2>1. /\ map' = [map EXCEPT ![f] = null]
        /\ key' = [key EXCEPT ![map[f]] = None]
        /\ buf' = [buf EXCEPT ![map[f]] = Absent]
    BY <1>3 DEF DelFile
  <2>2. map[f] \in Nodes
    BY <1>3 DEF Types, Cached
  <2>3. \A g \in Names : g # f => map'[g] = map[g] /\ (Cached(g) => map[g] # map[f])
    BY <1>3, <2>1 DEF Types, Agreement, NoSharing, Cached
  <2>4. map'[f] = null
    BY <2>1 DEF Types
  <2>5. NoSharing'
    BY <2>3, <2>4 DEF Agreement, NoSharing, Cached
  <2>6. NamesMatch'
    BY <2>1, <2>3, <2>4 DEF Agreement, NamesMatch, Cached, Types
  <2>7. EntriesMatch'
    <3> SUFFICES ASSUME NEW n \in Allocated', key'[n] \notin renamed
                 PROVE  map'[key'[n]] = n
      BY DEF EntriesMatch
    <3>1. n \in Nodes /\ n # map[f] /\ key'[n] = key[n] /\ n \in Allocated
      BY <2>1, <2>2 DEF Allocated, Types
    <3>2. key[n] \in Names /\ map[key[n]] = n
      BY <3>1 DEF Agreement, EntriesMatch, Types, Allocated
    <3> QED BY <2>3, <3>1, <3>2
  <2>8. /\ map' \in [Names -> Nodes \union {null}]
        /\ key' \in [Nodes -> Names \union {None}]
        /\ buf' \in [Nodes -> Lengths \union {Absent}]
    BY <2>1 DEF Types
  <2>9. \A g \in Names \ renamed : Cached(g)' => Cached(g) /\ buf'[map'[g]] = buf[map[g]]
    BY <2>1, <2>2, <2>3, <2>4 DEF Cached, Types
  <2> QED BY <2>4, <2>5, <2>6, <2>7, <2>8, <2>9 DEF Agreement, Cached
<1> QED BY <1>1, <1>2, <1>3

\* A rename by the watch concerns renamed names only.
LEMMA MoveFileEffect ==
  ASSUME Types, Agreement, NEW old \in renamed, NEW new \in renamed,
         MoveFile(old, new), UNCHANGED renamed
  PROVE  /\ Agreement'
         /\ map' \in [Names -> Nodes \union {null}]
         /\ \A g \in Names \ renamed : map'[g] = map[g]
<1>1. old \in Files /\ new \in Files
  BY DEF Types
<1>0. old \in Names /\ new \in Names
  BY <1>1, ConstantFacts
<1>2. map' = (IF Cached(old) THEN [map EXCEPT ![old] = null, ![new] = map[old]] ELSE map)
      /\ UNCHANGED key
  BY DEF MoveFile
<1>3. map' \in [Names -> Nodes \union {null}] /\ \A g \in Names \ renamed : map'[g] = map[g]
  BY <1>0, <1>2 DEF Types
<1>4. NoSharing'
  <2>1. CASE Cached(old)
    <3>1. \A g \in Names : map'[g] = IF g = new THEN map[old] ELSE IF g = old THEN null ELSE map[g]
      BY <1>0, <1>2, <2>1 DEF Types
    <3> QED BY <1>0, <3>1 DEF Agreement, NoSharing, Cached
  <2>2. CASE ~Cached(old)
    BY <1>2, <2>2 DEF Agreement, NoSharing, Cached
  <2> QED BY <2>1, <2>2
<1>5. NamesMatch'
  BY <1>2, <1>3 DEF Agreement, NamesMatch, Cached
<1>6. EntriesMatch'
  BY <1>2, <1>3 DEF Agreement, EntriesMatch, Allocated, Types
<1> QED BY <1>3, <1>4, <1>5, <1>6 DEF Agreement

\* A step of requests: the cache but for its list, the directory and the watch
\* stay as they are.
LEMMA InvRequest ==
  ASSUME Inv, Runs, Types', UNCHANGED <<map, key, buf, storage, directory>>,
         at'[Watch] = at[Watch], want'[Watch] = want[Watch]
  PROVE  Inv'
<1> USE DEF directory
<1>1. Agreement'
  BY AgreementKept DEF Inv, Agreement
<1>2. MovesNamed'
  BY DEF Inv, MovesNamed
<1>3. StaleIsDue'
  BY ConstantFacts DEF Inv, StaleIsDue, Due, LastKind, Cached
<1> QED BY <1>1, <1>2, <1>3 DEF Inv, Agreement

\* The process ends: nothing changes but its fate.
LEMMA InvEnds ==
  ASSUME Inv, NEW how \in {"null", "dangling", "torn", "terminate"}, Ends(how), UNCHANGED directory
  PROVE  Inv'
<1> USE DEF Ends, directory, cache, threads
<1>1. Types'
  BY DEF Inv, Types
<1>2. Agreement' /\ MovesNamed'
  BY AgreementKept DEF Inv, Agreement, MovesNamed
<1>3. StaleIsDue'
  BY DEF StaleIsDue, Runs
<1> QED BY <1>1, <1>2, <1>3 DEF Inv, Agreement

LEMMA InvGet == ASSUME Inv, NEW r \in Readers, NEW f \in Names, Get(r, f) PROVE Inv'
<1>1. Runs /\ UNCHANGED directory
  BY DEF Get
<1>2. CASE Dangling(f)
  BY <1>1, <1>2, InvEnds DEF Get
<1>3. CASE ~Dangling(f)
  <2>1. /\ at' = [at EXCEPT ![r] = IF Cached(f) THEN "move" ELSE "put"]
        /\ want' = [want EXCEPT ![r] = f]
        /\ UNCHANGED <<cache, storage>>
    BY <1>3 DEF Get, Goes
  <2>2. Types'
    BY <1>1, <2>1, ConstantFacts DEF Inv, Types, cache, directory
  <2>3. at'[Watch] = at[Watch] /\ want'[Watch] = want[Watch]
    BY <2>1, ConstantFacts DEF Inv, Types
  <2> QED BY <1>1, <2>1, <2>2, <2>3, InvRequest DEF cache
<1> QED BY <1>2, <1>3

LEMMA InvMove == ASSUME Inv, NEW r \in Readers, Move(r) PROVE Inv'
<1> DEFINE ends == Writes(list, map[want[r]])[step[r]][2] = null
<1>1. Runs /\ UNCHANGED directory
  BY DEF Move
<1>2. CASE ends
  BY <1>1, <1>2, InvEnds DEF Move
<1>3. CASE ~ends
  <2>1. /\ UNCHANGED <<map, key, buf, storage>>
        /\ \/ UNCHANGED <<at, want>>
           \/ at' = [at EXCEPT ![r] = "idle"] /\ want' = [want EXCEPT ![r] = None]
    BY <1>3 DEF Move, Goes
  <2>3. at'[Watch] = at[Watch] /\ want'[Watch] = want[Watch]
    BY <2>1, ConstantFacts DEF Inv, Types
  <2>4. /\ at' \in [Threads -> {"idle", "move", "put", "read"}]
        /\ want' \in [Threads -> Names \union {None}]
        /\ \A t \in Threads : at'[t] # "idle" => want'[t] \in Names
    BY <2>1, ConstantFacts DEF Inv, Types
  <2>5. at'[Watch] # "idle" => want'[Watch] \in Files
    BY <2>3 DEF Inv, Types
  <2>6. UNCHANGED <<map, key, buf, storage, disk, events, changes, renamed>>
    BY <1>1, <2>1 DEF directory
  <2>2. Types'
    BY <2>4, <2>5, <2>6 DEF Inv, Types
  <2> QED BY <1>1, <2>1, <2>2, <2>3, InvRequest
<1> QED BY <1>2, <1>3

\* put: nothing is read yet.  The watch gives up only what is not on the disk.
LEMMA InvPutChecks == ASSUME Inv, NEW t \in Threads, PutChecks(t) PROVE Inv'
<1> DEFINE fits == OnDisk(t) \in 1 .. Capacity
           ends == t = Watch /\ OnDisk(t) > Capacity
<1>1. Runs /\ UNCHANGED directory /\ at[t] = "put"
  BY DEF PutChecks
<1>2. /\ want[t] \in Names /\ OnDisk(t) \in Lengths \union {Absent}
      /\ t = Watch => OnDisk(t) = disk[want[Watch]]
  BY <1>1, ConstantFacts DEF Inv, Types, OnDisk
<1>3. CASE ~fits /\ ends
  BY <1>1, <1>3, InvEnds DEF PutChecks
<1>4. CASE fits \/ ~ends
  <2>1. /\ UNCHANGED <<cache, storage>>
        /\ \/ fits /\ at' = [at EXCEPT ![t] = "read"] /\ UNCHANGED want
           \/ ~fits /\ ~ends /\ at' = [at EXCEPT ![t] = "idle"] /\ want' = [want EXCEPT ![t] = None]
    BY <1>4 DEF PutChecks, PutDone, Goes
  <2>2. Types'
    BY <1>1, <2>1, ConstantFacts DEF Inv, Types, cache, directory
  <2>3. Agreement' /\ MovesNamed'
    BY <1>1, <2>1, AgreementKept DEF Inv, Agreement, MovesNamed, cache, directory
  <2>4. ASSUME t = Watch, ~fits, ~ends PROVE disk[want[Watch]] = Absent
    BY <1>2, <2>4, FileLRUAssumption DEF Lengths, Absent
  <2>5. StaleIsDue'
    <3>1. \A f \in Files : Due(f) => Due(f)'
      BY <1>1, <2>1, <2>4, ConstantFacts DEF Due, LastKind, directory, Inv, Types
    <3> QED BY <1>1, <2>1, <3>1 DEF Inv, StaleIsDue, Cached, cache, directory
  <2> QED BY <2>2, <2>3, <2>5 DEF Inv, Agreement
<1> QED BY <1>3, <1>4

\* put: what is stored is what is on the disk at that moment.
LEMMA InvPutReads == ASSUME Inv, NEW t \in Threads, PutReads(t) PROVE Inv'
<1> DEFINE f == want[t]
           length == OnDisk(t)
           gone == length = Absent
           breaks == Dangling(f) \/ ~InOnePiece \/ (~Cached(f) /\ Evictions(length) = {})
<1>1. Runs /\ UNCHANGED directory /\ at[t] = "read"
  BY DEF PutReads
<1>2. /\ f \in Names /\ length \in Lengths \union {Absent}
      /\ \A g \in Files : g = f => length = disk[g]
  BY <1>1, ConstantFacts DEF Inv, Types, OnDisk
<1>3. CASE ~gone /\ breaks
  <2>1. Ends("dangling") \/ Ends("torn") \/ Ends("null")
    BY <1>3 DEF PutReads
  <2> QED BY <1>1, <2>1, InvEnds
<1>4. CASE gone \/ ~breaks
  <2>1. PutDone(t) /\ UNCHANGED storage
    BY <1>4 DEF PutReads
  <2>2. at' = [at EXCEPT ![t] = "idle"] /\ want' = [want EXCEPT ![t] = None]
    BY <2>1 DEF PutDone, Goes
  <2>3. /\ Agreement'
        /\ map' \in [Names -> Nodes \union {null}]
        /\ key' \in [Nodes -> Names \union {None}]
        /\ buf' \in [Nodes -> Lengths \union {Absent}]
        /\ \A g \in Names \ renamed : Cached(g)' =>
             \/ ~gone /\ g = f /\ buf'[map'[g]] = length
             \/ (gone \/ g # f) /\ Cached(g) /\ buf'[map'[g]] = buf[map[g]]
    <3>1. CASE gone
      <4>1. UNCHANGED cache
        BY <3>1 DEF PutReads
      <4> QED BY <1>1, <3>1, <4>1, AgreementKept DEF Inv, Agreement, Types, cache, Cached, directory
    <3>2. CASE ~gone /\ ~breaks /\ Cached(f)
      <4>1. Renew(f, length)
        BY <3>2 DEF PutReads
      <4>2. /\ UNCHANGED <<map, key>>
            /\ buf' \in [Nodes -> Lengths \union {Absent}]
            /\ \A g \in Names \ renamed : Cached(g) => buf'[map[g]] = IF g = f THEN length ELSE buf[map[g]]
        BY <1>1, <1>2, <3>2, <4>1, RenewEffect DEF Inv, Agreement, directory
      <4> QED BY <1>1, <3>2, <4>2, AgreementKept DEF Inv, Agreement, Types, Cached, directory
    <3>3. CASE ~gone /\ ~breaks /\ ~Cached(f)
      <4>1. Insert(f, length)
        BY <3>3 DEF PutReads
      <4> HIDE DEF f, length
      <4>2. /\ Agreement'
            /\ map' \in [Names -> Nodes \union {null}]
            /\ key' \in [Nodes -> Names \union {None}]
            /\ buf' \in [Nodes -> Lengths \union {Absent}]
            /\ \A g \in Names \ renamed : Cached(g)' =>
                 IF g = f THEN buf'[map'[g]] = length
                          ELSE Cached(g) /\ buf'[map'[g]] = buf[map[g]]
        BY <1>1, <1>2, <3>3, <4>1, InsertEffect DEF Inv, Agreement, directory
      <4> QED BY <3>3, <4>2
    <3> QED BY <1>4, <3>1, <3>2, <3>3
  <2>4. Types'
    BY <1>1, <2>1, <2>2, <2>3 DEF Inv, Types, directory
  <2>5. MovesNamed'
    BY <1>1, <2>1 DEF Inv, MovesNamed, directory
  <2>6. StaleIsDue'
    <3> SUFFICES ASSUME NEW g \in Files \ renamed, Cached(g)', buf'[map'[g]] # disk[g]
                 PROVE  Due(g)'
      BY <1>1 DEF StaleIsDue, directory
    <3>1. (gone \/ g # f) /\ Cached(g) /\ buf[map[g]] # disk[g] /\ (g = f => disk[g] = Absent)
      BY <1>2, <2>3, ConstantFacts
    <3>2. Due(g)
      BY <1>1, <3>1 DEF Inv, StaleIsDue
    <3> QED BY <1>1, <2>2, <3>1, <3>2, ConstantFacts DEF Due, LastKind, directory, Inv, Types
  <2> QED BY <2>3, <2>4, <2>5, <2>6 DEF Inv, Agreement
<1> QED BY <1>3, <1>4

\* What is left of the queue when its first event is taken.
LEMMA QueueShrinks ==
  ASSUME Types, MovesNamed, NextEvent
  PROVE  /\ Runs /\ events # <<>> /\ events' \in Seq(Events) /\ Head(events) \in Events
         /\ Head(events).kind \in {"from", "to"} => Head(events).file \in renamed
         /\ \A i \in DOMAIN events' : events'[i].kind \in {"from", "to"} => events'[i].file \in renamed
         /\ at[Watch] = "idle"
         /\ UNCHANGED <<disk, changes, renamed>>
         /\ \A f \in Files : Due(f) =>
              \/ Head(events).file = f /\ Head(events).kind = LastKind(f)
              \/ \E i \in DOMAIN events' : events'[i].file = f /\ events'[i].kind = LastKind(f)
<1>1. /\ Runs /\ events # <<>> /\ events' = Tail(events) /\ at[Watch] = "idle"
      /\ UNCHANGED <<disk, changes, renamed>>
  BY DEF NextEvent
<1>2. events \in Seq(Events) /\ 1 \in DOMAIN events
  BY <1>1 DEF Types
<1>3. events' \in Seq(Events) /\ Head(events) = events[1] /\ Head(events) \in Events
  BY <1>1, <1>2
<1>4. \A i \in DOMAIN events' : i + 1 \in DOMAIN events /\ events'[i] = events[i + 1]
  BY <1>1, <1>2
<1>5. \A i \in DOMAIN events : i = 1 \/ (i - 1 \in DOMAIN events' /\ events'[i - 1] = events[i])
  BY <1>1, <1>2
<1>6. \A i \in DOMAIN events' : events'[i].kind \in {"from", "to"} => events'[i].file \in renamed
  BY <1>4 DEF MovesNamed
<1>7. Head(events).kind \in {"from", "to"} => Head(events).file \in renamed
  BY <1>2, <1>3 DEF MovesNamed
<1>8. ASSUME NEW f \in Files, Due(f)
      PROVE  \/ Head(events).file = f /\ Head(events).kind = LastKind(f)
             \/ \E i \in DOMAIN events' : events'[i].file = f /\ events'[i].kind = LastKind(f)
  <2>1. PICK i \in DOMAIN events : events[i].file = f /\ events[i].kind = LastKind(f)
    BY <1>1, <1>8 DEF Due
  <2> QED BY <1>3, <1>5, <2>1
<1> QED BY <1>1, <1>3, <1>6, <1>7, <1>8

LEMMA InvChanged == ASSUME Inv, Changed PROVE Inv'
<1> DEFINE e == Head(events)
<1>1. /\ NextEvent /\ e.kind = "changed"
      /\ at' = [at EXCEPT ![Watch] = "put"] /\ want' = [want EXCEPT ![Watch] = e.file]
      /\ UNCHANGED <<cache, storage>>
  BY DEF Changed, Goes
<1>2. Types /\ MovesNamed /\ StaleIsDue
  BY DEF Inv
<1>3. e \in Events /\ e.file \in Files
  BY <1>1, <1>2, QueueShrinks DEF Events
<1>4. Types'
  BY <1>1, <1>2, <1>3, QueueShrinks, ConstantFacts DEF Types, cache
<1>5. Agreement'
  BY <1>1, <1>2, QueueShrinks, AgreementKept DEF Inv, Agreement, cache
<1>6. MovesNamed'
  BY <1>1, <1>2, QueueShrinks DEF MovesNamed
<1>7. StaleIsDue'
  <2> SUFFICES ASSUME NEW f \in Files \ renamed, Cached(f), buf[map[f]] # disk[f]
               PROVE  Due(f)'
    BY <1>1, <1>2, QueueShrinks DEF StaleIsDue, Cached, cache
  <2>1. Due(f) /\ LastKind(f)' = LastKind(f)
    BY <1>1, <1>2, QueueShrinks DEF StaleIsDue, LastKind
  <2>2. CASE e.file = f /\ e.kind = LastKind(f)
    <3>1. disk[f] # Absent
      BY <1>1, <2>2 DEF LastKind
    <3> QED BY <1>1, <1>2, <2>2, <3>1, QueueShrinks, ConstantFacts DEF Due, Types
  <2>3. CASE \E i \in DOMAIN events' : events'[i].file = f /\ events'[i].kind = LastKind(f)
    BY <2>1, <2>3 DEF Due
  <2> QED BY <1>1, <1>2, <2>1, <2>2, <2>3, QueueShrinks
<1> QED BY <1>4, <1>5, <1>6, <1>7 DEF Inv, Agreement

LEMMA InvDeleted == ASSUME Inv, Deleted PROVE Inv'
<1>2. Types /\ MovesNamed /\ StaleIsDue /\ Agreement
  BY DEF Inv, Agreement
<1>1. PICK d \in Files : NextEvent /\ Head(events).file = d /\ DelFile(d)
  BY <1>2, QueueShrinks DEF Deleted, Events
<1>3. UNCHANGED <<disk, renamed, changes>>
  BY <1>1, <1>2, QueueShrinks
<1>4. UNCHANGED <<at, want, storage>>
  BY <1>1 DEF DelFile, Ends, threads
<1>5. /\ Agreement'
      /\ map' \in [Names -> Nodes \union {null}]
      /\ key' \in [Nodes -> Names \union {None}]
      /\ buf' \in [Nodes -> Lengths \union {Absent}]
      /\ Runs' => /\ ~Cached(d)'
                  /\ \A g \in Names \ renamed : Cached(g)' => Cached(g) /\ buf'[map'[g]] = buf[map[g]]
  BY <1>1, <1>2, <1>3, ConstantFacts, DelFileEffect
<1>6. Types'
  BY <1>1, <1>2, <1>3, <1>4, <1>5, QueueShrinks DEF Types
<1>7. MovesNamed'
  BY <1>1, <1>2, <1>4, QueueShrinks DEF MovesNamed
<1>8. StaleIsDue'
  <2> SUFFICES ASSUME Runs', NEW f \in Files \ renamed, Cached(f)', buf'[map'[f]] # disk[f]
               PROVE  Due(f)'
    BY <1>3 DEF StaleIsDue
  <2>1. f # d /\ Cached(f) /\ buf[map[f]] # disk[f]
    BY <1>1, <1>5, ConstantFacts
  <2>2. Due(f) /\ LastKind(f)' = LastKind(f)
    BY <1>1, <1>2, <1>3, <2>1, QueueShrinks DEF StaleIsDue, LastKind
  <2> QED BY <1>1, <1>2, <2>1, <2>2, QueueShrinks DEF Due
<1> QED BY <1>2, <1>5, <1>6, <1>7, <1>8 DEF Inv, Agreement

\* Both halves of a rename: only renamed names are touched.
LEMMA InvMoved == ASSUME Inv, Paired \/ Stored PROVE Inv'
<1> DEFINE e == Head(events)
<1>1. NextEvent /\ e.kind \in {"from", "to"} /\ UNCHANGED <<key, buf, threads>>
  BY DEF Paired, Stored, MoveFile, cache
<1>2. Types /\ MovesNamed /\ StaleIsDue /\ Agreement
  BY DEF Inv, Agreement
<1>3. /\ e \in Events /\ e.file \in renamed /\ renamed \subseteq Files
      /\ UNCHANGED <<disk, renamed, changes>>
  BY <1>1, <1>2, QueueShrinks DEF Types
<1>4. e.cookie \in 1 .. MaxChanges /\ e.file \in Files
  BY <1>3 DEF Events
<1>5. /\ Agreement'
      /\ map' \in [Names -> Nodes \union {null}]
      /\ \A g \in Names \ renamed : map'[g] = map[g]
  <2>1. CASE Paired
    <3>1. storage[e.cookie] \in renamed
      BY <1>2, <1>4, <2>1 DEF Paired, MovesNamed, Types
    <3>2. MoveFile(e.file, storage[e.cookie]) \/ MoveFile(storage[e.cookie], e.file)
      BY <2>1 DEF Paired
    <3> QED BY <1>2, <1>3, <3>1, <3>2, MoveFileEffect
  <2>2. CASE Stored
    BY <1>2, <1>3, <2>2, AgreementKept DEF Stored, cache, Types
  <2> QED BY <2>1, <2>2
<1>6. storage' = [storage EXCEPT ![e.cookie] = None] \/ storage' = [storage EXCEPT ![e.cookie] = e.file]
  BY DEF Paired, Stored
<1>7. Types'
  BY <1>1, <1>2, <1>3, <1>4, <1>5, <1>6, QueueShrinks DEF Types, threads
<1>8. MovesNamed'
  BY <1>1, <1>2, <1>3, <1>4, <1>6, QueueShrinks DEF MovesNamed, Types
<1>9. StaleIsDue'
  <2> SUFFICES ASSUME NEW f \in Files \ renamed, Cached(f), buf[map[f]] # disk[f]
               PROVE  Due(f)'
    BY <1>1, <1>2, <1>3, <1>5, QueueShrinks, ConstantFacts DEF StaleIsDue, Cached
  <2>1. Due(f) /\ LastKind(f)' = LastKind(f) /\ f # e.file
    BY <1>1, <1>2, <1>3, QueueShrinks DEF StaleIsDue, LastKind
  <2> QED BY <1>1, <1>2, <2>1, QueueShrinks DEF Due
<1> QED BY <1>2, <1>5, <1>7, <1>8, <1>9 DEF Inv, Agreement

\* The directory changes: the event that says so is at the end of the queue.
LEMMA InvChange ==
  ASSUME Inv, NEW newDisk, NEW newEvents, NEW names, Change(newDisk, newEvents, names),
         newDisk \in [Files -> Lengths \union {Absent}], newEvents \in Seq(Events), names \subseteq Files,
         \A i \in DOMAIN newEvents : newEvents[i].kind \in {"from", "to"} => newEvents[i].file \in names,
         \A f \in Files \ names : newDisk[f] # disk[f] =>
           \E i \in DOMAIN newEvents :
              /\ newEvents[i].file = f
              /\ newEvents[i].kind = IF newDisk[f] = Absent THEN "deleted" ELSE "changed"
  PROVE  Inv'
<1>1. /\ disk' = newDisk /\ events' = events \o newEvents /\ renamed' = renamed \union names
      /\ UNCHANGED <<cache, threads, storage>> /\ Runs
      /\ changes < MaxChanges /\ changes' = changes + 1
  BY DEF Change
<1>2. Types /\ MovesNamed /\ StaleIsDue /\ NoSharing /\ NamesMatch /\ EntriesMatch
  BY DEF Inv
<1>3. events \in Seq(Events) /\ events' \in Seq(Events)
  BY <1>1, <1>2 DEF Types
<1>4. /\ DOMAIN events \subseteq DOMAIN events'
      /\ \A i \in DOMAIN events : events'[i] = events[i]
  BY <1>1, <1>3
<1>5. \A i \in DOMAIN newEvents : Len(events) + i \in DOMAIN events' /\ events'[Len(events) + i] = newEvents[i]
  BY <1>1, <1>3
<1>6. \A i \in DOMAIN events' : i \in DOMAIN events \/ (i - Len(events) \in DOMAIN newEvents /\ events'[i] = newEvents[i - Len(events)])
  BY <1>1, <1>3
<1>7. Types'
  BY <1>1, <1>2, <1>3, FileLRUAssumption DEF Types, cache, threads
<1>8. NoSharing' /\ NamesMatch' /\ EntriesMatch'
  BY <1>1, <1>2 DEF NoSharing, NamesMatch, EntriesMatch, Cached, Allocated, cache
<1>9. MovesNamed'
  <2>1. \A i \in DOMAIN events' : events'[i].kind \in {"from", "to"} => events'[i].file \in renamed'
    BY <1>1, <1>2, <1>4, <1>6 DEF MovesNamed
  <2> QED BY <1>1, <1>2, <2>1 DEF MovesNamed
<1>10. StaleIsDue'
  <2> SUFFICES ASSUME NEW f \in Files \ renamed', Cached(f), buf[map[f]] # newDisk[f]
               PROVE  Due(f)'
    BY <1>1 DEF StaleIsDue, Cached, cache
  <2>1. f \in Files \ names /\ f \in Files \ renamed
    BY <1>1
  <2>2. CASE newDisk[f] # disk[f]
    <3>1. PICK i \in DOMAIN newEvents :
             /\ newEvents[i].file = f
             /\ newEvents[i].kind = IF newDisk[f] = Absent THEN "deleted" ELSE "changed"
      BY <2>1, <2>2
    <3>2. Len(events) + i \in DOMAIN events' /\ events'[Len(events) + i] = newEvents[i]
      BY <1>5
    <3>3. newEvents[i].kind = LastKind(f)'
      BY <1>1, <3>1 DEF LastKind
    <3> QED BY <3>1, <3>2, <3>3 DEF Due
  <2>3. CASE newDisk[f] = disk[f]
    <3>1. Due(f) /\ LastKind(f)' = LastKind(f)
      BY <1>1, <1>2, <2>1, <2>3 DEF StaleIsDue, LastKind
    <3>2. /\ UNCHANGED <<at, want>> /\ disk'[f] = disk[f]
          /\ \A i \in DOMAIN events : i \in DOMAIN events' /\ events'[i] = events[i]
      BY <1>1, <1>4, <2>3 DEF threads
    <3> QED BY <3>1, <3>2 DEF Due
  <2> QED BY <2>2, <2>3
<1> QED BY <1>7, <1>8, <1>9, <1>10 DEF Inv

LEMMA EventType ==
  ASSUME Types, changes < MaxChanges, NEW kind \in {"changed", "deleted", "from", "to"}, NEW f \in Files
  PROVE  Event(kind, f) \in Events
BY FileLRUAssumption DEF Types, Event, Events

LEMMA InvDisk ==
  ASSUME Inv, NEW f \in Files, NEW g \in Files, NEW n \in Lengths,
         Write(f, n) \/ MoveIn(f, n) \/ Delete(f) \/ MoveOut(f) \/ Rename(f, g)
  PROVE  Inv'
<1> DEFINE T == [Files -> Lengths \union {Absent}]
<1>1. Types /\ disk \in T /\ changes < MaxChanges /\ Absent \notin Lengths
  BY ConstantFacts DEF Inv, Types, Write, MoveIn, Delete, MoveOut, Rename, Change
<1>2. \A k \in {"changed", "deleted", "from", "to"}, h \in Files : Event(k, h) \in Events
  BY <1>1, EventType
<1>3. CASE Write(f, n)
  <2> DEFINE D == [disk EXCEPT ![f] = n]
             E == <<Event("changed", f)>>
  <2>1. Change(D, E, {})
    BY <1>3 DEF Write
  <2>2. D \in T /\ E \in Seq(Events)
    BY <1>1, <1>2
  <2>3. /\ \A h \in Files \ {f} : D[h] = disk[h]
        /\ E[1].file = f /\ E[1].kind = IF D[f] = Absent THEN "deleted" ELSE "changed"
        /\ 1 \in DOMAIN E /\ \A i \in DOMAIN E : E[i].kind \notin {"from", "to"}
    BY <1>1 DEF Event
  <2> HIDE DEF D, E
  <2> QED BY <1>1, <2>1, <2>2, <2>3, InvChange
<1>4. CASE Delete(f)
  <2> DEFINE D == [disk EXCEPT ![f] = Absent]
             E == <<Event("deleted", f)>>
  <2>1. Change(D, E, {})
    BY <1>4 DEF Delete
  <2>2. D \in T /\ E \in Seq(Events)
    BY <1>1, <1>2
  <2>3. /\ \A h \in Files \ {f} : D[h] = disk[h]
        /\ E[1].file = f /\ E[1].kind = IF D[f] = Absent THEN "deleted" ELSE "changed"
        /\ 1 \in DOMAIN E /\ \A i \in DOMAIN E : E[i].kind \notin {"from", "to"}
    BY <1>1 DEF Event
  <2> HIDE DEF D, E
  <2> QED BY <1>1, <2>1, <2>2, <2>3, InvChange
<1>5. CASE MoveIn(f, n)
  <2> DEFINE D == [disk EXCEPT ![f] = n]
             E == <<Event("to", f)>>
  <2>1. Change(D, E, {f})
    BY <1>5 DEF MoveIn
  <2>2. D \in T /\ E \in Seq(Events)
    BY <1>1, <1>2
  <2>3. /\ \A h \in Files \ {f} : D[h] = disk[h]
        /\ \A i \in DOMAIN E : E[i].file \in {f}
    BY <1>1 DEF Event
  <2> HIDE DEF D, E
  <2> QED BY <1>1, <2>1, <2>2, <2>3, InvChange
<1>6. CASE MoveOut(f)
  <2> DEFINE D == [disk EXCEPT ![f] = Absent]
             E == <<Event("from", f)>>
  <2>1. Change(D, E, {f})
    BY <1>6 DEF MoveOut
  <2>2. D \in T /\ E \in Seq(Events)
    BY <1>1, <1>2
  <2>3. /\ \A h \in Files \ {f} : D[h] = disk[h]
        /\ \A i \in DOMAIN E : E[i].file \in {f}
    BY <1>1 DEF Event
  <2> HIDE DEF D, E
  <2> QED BY <1>1, <2>1, <2>2, <2>3, InvChange
<1>7. CASE Rename(f, g)
  <2> DEFINE D == [disk EXCEPT ![f] = Absent, ![g] = disk[f]]
             E == <<Event("from", f), Event("to", g)>>
  <2>1. Change(D, E, {f, g})
    BY <1>7 DEF Rename
  <2>2. D \in T /\ E \in Seq(Events)
    BY <1>1, <1>2
  <2>3. /\ \A h \in Files \ {f, g} : D[h] = disk[h]
        /\ \A i \in DOMAIN E : E[i].file \in {f, g}
    BY <1>1 DEF Event
  <2> HIDE DEF D, E
  <2> QED BY <1>1, <2>1, <2>2, <2>3, InvChange
<1> QED BY <1>3, <1>4, <1>5, <1>6, <1>7

LEMMA InvNext == Inv /\ [Next]_vars => Inv'
<1> SUFFICES ASSUME Inv, [Next]_vars PROVE Inv'
  OBVIOUS
<1>1. ASSUME NEW r \in Readers, NEW f \in Names, Get(r, f) PROVE Inv'
  BY <1>1, InvGet
<1>2. ASSUME NEW r \in Readers, Move(r) PROVE Inv'
  BY <1>2, InvMove
<1>3. ASSUME NEW t \in Threads, PutChecks(t) \/ PutReads(t) PROVE Inv'
  BY <1>3, InvPutChecks, InvPutReads
<1>4. CASE Changed \/ Deleted \/ Paired \/ Stored
  BY <1>4, InvChanged, InvDeleted, InvMoved
<1>5. ASSUME NEW f \in Files, NEW n \in Lengths, Write(f, n) \/ MoveIn(f, n) PROVE Inv'
  BY <1>5, InvDisk
<1>6. ASSUME NEW f \in Files, Delete(f) \/ MoveOut(f) PROVE Inv'
  <2>1. f \in Files /\ disk[f] \in Lengths \union {Absent} /\ disk[f] # Absent
    BY <1>6 DEF Inv, Types, Delete, MoveOut
  <2>2. disk[f] \in Lengths
    BY <2>1
  <2> QED BY <1>6, <2>2, InvDisk
<1>7. ASSUME NEW f \in Files, NEW g \in Files, Rename(f, g) PROVE Inv'
  <2>1. disk[f] \in Lengths
    BY <1>7 DEF Inv, Types, Rename
  <2> QED BY <1>7, <2>1, InvDisk
<1>8. CASE UNCHANGED vars
  <2>1. UNCHANGED <<map, key, buf, storage, directory, at, want, fate>>
    BY <1>8 DEF vars, cache, threads
  <2>2. Types' /\ MovesNamed' /\ Agreement'
    BY <2>1, AgreementKept DEF Inv, Types, MovesNamed, Agreement, directory
  <2>3. StaleIsDue'
    BY <2>1 DEF Inv, StaleIsDue, Runs, Due, LastKind, Cached, directory
  <2> QED BY <2>2, <2>3 DEF Inv, Agreement
<1> QED BY <1>1, <1>2, <1>3, <1>4, <1>5, <1>6, <1>7, <1>8 DEF Next

THEOREM InvHolds == Spec => []Inv
<1> QED BY InvInit, InvNext, PTL DEF Spec

\* Names and entries agree for what no rename has touched: eviction and deletion
\* take the right name out of the map (FileUtil.cc 173, 207).
THEOREM MapAlwaysMatches == Spec => []MapMatchesEntries
<1>1. Inv => MapMatchesEntries
  BY DEF Inv, NamesMatch, EntriesMatch, MapMatchesEntries
<1> QED BY <1>1, InvHolds, PTL

\* The watch leaves nothing stale behind: whatever requests and changes come
\* between, a cached file is as on the disk once its events are handled.
THEOREM CacheStaysCurrent == Spec => []CachedIsCurrent
<1>1. Inv => CachedIsCurrent
  BY DEF Inv, StaleIsDue, Due, CachedIsCurrent
<1> QED BY <1>1, InvHolds, PTL

-----------------------------------------------------------------------------
(* The list.  Its type, whatever the pointers say: the way from head_ on is  *)
(* a sequence of entries.                                                    *)

Lists == [{"next", "prev"} -> [head .. tail -> Pointers]]

LEMMA Places == /\ MaxNodes \in Nat /\ Nodes \subseteq head .. tail /\ head \notin Nodes /\ tail \notin Nodes
                /\ head .. tail \subseteq Pointers /\ head \in head .. tail /\ tail \in head .. tail /\ null \in Pointers
                /\ null \notin head .. tail /\ head # tail /\ Nodes \subseteq Pointers
BY FileLRUAssumption DEF Nodes, head, tail, null, Pointers

LEMMA UnlinkType ==
  ASSUME NEW l \in Lists, NEW n \in Nodes
  PROVE  /\ Unlink(l, n) \in Lists
         /\ Unlink(l, n).next = [l.next EXCEPT ![l.prev[n]] = l.next[n], ![n] = null]
         /\ Unlink(l, n).prev = [l.prev EXCEPT ![l.next[n]] = l.prev[n], ![n] = null]
<1>1. l.next \in [head .. tail -> Pointers] /\ l.prev \in [head .. tail -> Pointers]
  BY DEF Lists
<1>2. l.next[n] \in Pointers /\ l.prev[n] \in Pointers /\ null \in Pointers
  BY <1>1, Places
<1> DEFINE a == [l.next EXCEPT ![l.prev[n]] = l.next[n], ![n] = null]
           b == [l.prev EXCEPT ![l.next[n]] = l.prev[n], ![n] = null]
<1>3. a \in [head .. tail -> Pointers] /\ b \in [head .. tail -> Pointers]
  BY <1>1, <1>2
<1>4. Unlink(l, n) = [next |-> a, prev |-> b]
  BY DEF Unlink
<1> HIDE DEF a, b
<1>5. [next |-> a, prev |-> b] \in Lists
  BY <1>3 DEF Lists
<1> QED BY <1>4, <1>5 DEF a, b

LEMMA WrittenType ==
  ASSUME NEW l \in Lists, NEW n \in Nodes, NEW i \in 1 .. 8
  PROVE  Written(l, n, i) \in Lists
<1>1. l.next \in [head .. tail -> Pointers] /\ l.prev \in [head .. tail -> Pointers]
  BY DEF Lists
<1>2. l.next[n] \in Pointers /\ l.prev[n] \in Pointers /\ l.prev[tail] \in Pointers /\ null \in Pointers /\ n \in Pointers /\ tail \in Pointers
  BY <1>1, Places
<1>3. Writes(l, n)[i][1] \in {"next", "prev"} /\ Writes(l, n)[i][3] \in Pointers
  BY <1>2 DEF Writes
<1> DEFINE w == Writes(l, n)[i]
<1>4. Written(l, n, i) = [l EXCEPT ![w[1]] = [l[w[1]] EXCEPT ![w[2]] = w[3]]]
  BY DEF Written
<1> HIDE DEF w
<1>5. w[1] \in {"next", "prev"} /\ w[3] \in Pointers
  BY <1>3 DEF w
<1>6. l[w[1]] \in [head .. tail -> Pointers]
  BY <1>5 DEF Lists
<1>7. [l[w[1]] EXCEPT ![w[2]] = w[3]] \in [head .. tail -> Pointers]
  BY <1>5, <1>6
<1> QED BY <1>4, <1>5, <1>7 DEF Lists

LEMMA PushBackType ==
  ASSUME NEW l \in Lists, NEW n \in Nodes
  PROVE  /\ PushBack(l, n) \in Lists
         /\ PushBack(l, n).next = [l.next EXCEPT ![n] = tail, ![l.prev[tail]] = n]
         /\ PushBack(l, n).prev = [l.prev EXCEPT ![n] = l.prev[tail], ![tail] = n]
<1>1. l.next \in [head .. tail -> Pointers] /\ l.prev \in [head .. tail -> Pointers]
  BY DEF Lists
<1>2. l.prev[tail] \in Pointers /\ n \in Pointers /\ tail \in Pointers
  BY <1>1, Places
<1> DEFINE a == [l.next EXCEPT ![n] = tail, ![l.prev[tail]] = n]
           b == [l.prev EXCEPT ![n] = l.prev[tail], ![tail] = n]
<1>3. a \in [head .. tail -> Pointers] /\ b \in [head .. tail -> Pointers]
  BY <1>1, <1>2
<1>4. PushBack(l, n) = [next |-> a, prev |-> b]
  BY DEF PushBack
<1> HIDE DEF a, b
<1>5. [next |-> a, prev |-> b] \in Lists
  BY <1>3 DEF Lists
<1> QED BY <1>4, <1>5 DEF a, b

\* One entry after the other is taken out.
LEMMA UnlinkAllSteps ==
  ASSUME NEW l \in Lists, NEW nodes \in Seq(Nodes)
  PROVE  \E f \in [0 .. Len(nodes) -> Lists] :
            /\ f[0] = l /\ \A i \in 0 .. Len(nodes) - 1 : f[i + 1] = Unlink(f[i], nodes[i + 1])
            /\ UnlinkAll(l, nodes) = f[Len(nodes)]
<1> DEFINE n == Len(nodes)
           turn == [p \in Lists \X Nat |-> IF p[2] + 1 \in 1 .. n THEN Unlink(p[1], nodes[p[2] + 1]) ELSE p[1]]
           Is(h) == h = [i \in 0 .. Len(nodes) |-> IF i = 0 THEN l ELSE Unlink(h[i - 1], nodes[i])]
           left == CHOOSE h : Is(h)
<1>1. n \in Nat /\ \A i \in 1 .. n : nodes[i] \in Nodes
  OBVIOUS
<1>2. turn \in [Lists \X Nat -> Lists]
  <2> SUFFICES ASSUME NEW p \in Lists \X Nat
               PROVE  (IF p[2] + 1 \in 1 .. n THEN Unlink(p[1], nodes[p[2] + 1]) ELSE p[1]) \in Lists
    OBVIOUS
  <2>1. p[1] \in Lists /\ p[2] \in Nat
    OBVIOUS
  <2> QED BY <1>1, <2>1, UnlinkType
<1>3. PICK g \in [0 .. n -> Lists] : g[0] = l /\ \A i \in 0 .. n - 1 : g[i + 1] = turn[<<g[i], i>>]
  <2> HIDE DEF turn, n
  <2>1. \E g \in [0 .. n -> Lists] : Computes(g, l, turn, n)
    BY <1>1, <1>2, FiniteRecursion
  <2> QED BY <2>1 DEF Computes
<1>4. ASSUME NEW i \in 1 .. n PROVE g[i] = Unlink(g[i - 1], nodes[i])
  <2>1. i - 1 \in 0 .. n - 1 /\ (i - 1) + 1 = i /\ i - 1 \in 0 .. n /\ i - 1 \in Nat
    BY <1>1
  <2>2. g[i] = turn[<<g[i - 1], i - 1>>] /\ g[i - 1] \in Lists
    <3> DEFINE k == i - 1
    <3>1. k \in 0 .. n - 1 /\ k \in 0 .. n /\ k + 1 = i
      BY <2>1
    <3> HIDE DEF k, turn
    <3>2. g[k + 1] = turn[<<g[k], k>>] /\ g[k] \in Lists
      BY <1>3, <3>1
    <3> QED BY <3>1, <3>2 DEF k
  <2>3. turn[<<g[i - 1], i - 1>>] = Unlink(g[i - 1], nodes[i])
    BY <2>1, <2>2
  <2> QED BY <2>2, <2>3
<1>5. Is(g)
  BY <1>1, <1>3, <1>4
<1>6. Is(left)
  <2> HIDE DEF Is
  <2> QED BY <1>5
<1>7. UnlinkAll(l, nodes) = left[n]
  BY DEF UnlinkAll
<1> HIDE DEF left, turn
<1>8. ASSUME NEW i \in 0 .. n PROVE left[i] = g[i]
  <2> DEFINE P == {k \in Nat : k <= n => left[k] = g[k]}
  <2>1. 0 \in P
    BY <1>1, <1>3, <1>6
  <2>2. ASSUME NEW k \in P PROVE k + 1 \in P
    <3>1. CASE k + 1 <= n
      <4>1. k + 1 \in 1 .. n /\ k + 1 \in 0 .. n /\ k + 1 # 0 /\ (k + 1) - 1 = k /\ k <= n
        BY <1>1, <3>1
      <4>2. left[k + 1] = Unlink(left[k], nodes[k + 1])
        BY <1>6, <4>1
      <4>3. g[k + 1] = Unlink(g[k], nodes[k + 1])
        BY <1>4, <4>1
      <4>4. left[k] = g[k]
        BY <4>1
      <4> QED BY <4>2, <4>3, <4>4
    <3> QED BY <3>1
  <2>3. P = Nat
    <3>1. P \in SUBSET Nat
      OBVIOUS
    <3> HIDE DEF P
    <3> QED BY <2>1, <2>2, <3>1, SetInduction
  <2> QED BY <2>3
<1>9. g[n] = left[n] /\ \A i \in 0 .. n - 1 : g[i + 1] = Unlink(g[i], nodes[i + 1])
  <2>1. n \in 0 .. n /\ \A i \in 0 .. n - 1 : i + 1 \in 1 .. n /\ (i + 1) - 1 = i
    BY <1>1
  <2> QED BY <1>4, <1>8, <2>1
<1> QED BY <1>3, <1>7, <1>9

\* The steps from head_ on.
LEMMA ChainSteps ==
  ASSUME NEW l \in Lists
  PROVE  \E f \in [Nat -> Pointers] :
            /\ f[0] = l.next[head]
            /\ \A i \in Nat : f[i + 1] = IF f[i] \in Nodes THEN l.next[f[i]] ELSE f[i]
            /\ Chain(l) = [i \in {k \in Nodes : f[k - 1] \in Nodes} |-> f[i - 1]]
<1> DEFINE after == [p \in Pointers |-> IF p \in Nodes THEN l.next[p] ELSE p]
           turn == [p \in Pointers \X Nat |-> after[p[1]]]
           Is(h) == h = [i \in Nat |-> IF i = 0 THEN l.next[head] ELSE after[h[i - 1]]]
           hop == CHOOSE h : Is(h)
<1>1. l.next \in [head .. tail -> Pointers] /\ l.next[head] \in Pointers
  BY Places DEF Lists
<1>2. after \in [Pointers -> Pointers]
  BY <1>1, Places
<1>3. PICK g \in [Nat -> Pointers] : g[0] = l.next[head] /\ \A i \in Nat : g[i + 1] = after[g[i]]
  <2> HIDE DEF after
  <2>1. turn \in [Pointers \X Nat -> Pointers]
    BY <1>2
  <2> DEFINE base == l.next[head]
  <2>2. base \in Pointers
    BY <1>1
  <2> HIDE DEF turn, base
  <2>3. \E g \in [Nat -> Pointers] : ComputesAll(g, base, turn)
    BY <2>1, <2>2, Recursion
  <2>4. PICK g \in [Nat -> Pointers] : g[0] = base /\ \A i \in Nat : g[i + 1] = turn[<<g[i], i>>]
    BY <2>3 DEF ComputesAll
  <2>5. \A i \in Nat : g[i + 1] = after[g[i]]
    BY <2>4 DEF turn
  <2> QED BY <2>4, <2>5 DEF base
<1>4. Is(g)
  <2> HIDE DEF after
  <2>1. ASSUME NEW i \in Nat, i # 0 PROVE g[i] = after[g[i - 1]]
    <3>1. i - 1 \in Nat /\ (i - 1) + 1 = i
      BY <2>1
    <3> QED BY <1>3, <3>1
  <2> QED BY <1>3, <2>1
<1>5. Is(hop)
  <2> HIDE DEF Is
  <2> QED BY <1>4
<1>6. Chain(l) = [i \in {k \in Nodes : hop[k - 1] \in Nodes} |-> hop[i - 1]]
  BY DEF Chain
<1> HIDE DEF hop
<1>7. hop[0] = l.next[head] /\ \A i \in Nat : hop[i + 1] = after[hop[i]]
  <2> HIDE DEF after
  <2> QED BY <1>5
<1>8. hop \in [Nat -> Pointers]
  <2> DEFINE P == {i \in Nat : hop[i] \in Pointers}
  <2>1. 0 \in P
    BY <1>1, <1>7
  <2>2. ASSUME NEW i \in P PROVE i + 1 \in P
    <3> HIDE DEF after
    <3> QED BY <1>2, <1>7
  <2>3. P = Nat
    <3>1. P \in SUBSET Nat
      OBVIOUS
    <3> HIDE DEF P
    <3> QED BY <2>1, <2>2, <3>1, SetInduction
  <2> HIDE DEF after
  <2> QED BY <1>5, <2>3
<1>9. \A i \in Nat : hop[i + 1] = IF hop[i] \in Nodes THEN l.next[hop[i]] ELSE hop[i]
  BY <1>7, <1>8
<1> QED BY <1>6, <1>7, <1>8, <1>9

\* It ends where it leaves the entries.
LEMMA ChainType == ASSUME NEW l \in Lists PROVE Chain(l) \in Seq(Nodes)
<1>1. PICK f \in [Nat -> Pointers] :
         /\ \A i \in Nat : f[i + 1] = IF f[i] \in Nodes THEN l.next[f[i]] ELSE f[i]
         /\ Chain(l) = [i \in {k \in Nodes : f[k - 1] \in Nodes} |-> f[i - 1]]
  BY ChainSteps
<1> DEFINE D == {k \in Nodes : f[k - 1] \in Nodes}
           P == {m \in Nat : m <= MaxNodes => \E n \in 0 .. m : D \intersect 1 .. m = 1 .. n /\ (n < m => f[m - 1] \notin Nodes)}
<1>2. 0 \in P
  BY Places
<1>3. ASSUME NEW m \in P PROVE m + 1 \in P
  <2> SUFFICES ASSUME m + 1 <= MaxNodes
               PROVE  \E n \in 0 .. m + 1 : D \intersect 1 .. m + 1 = 1 .. n /\ (n < m + 1 => f[m] \notin Nodes)
    OBVIOUS
  <2>1. m \in Nat /\ m <= MaxNodes /\ m + 1 \in Nodes /\ (m + 1) - 1 = m
    BY Places DEF Nodes
  <2>2. PICK n \in 0 .. m : D \intersect 1 .. m = 1 .. n /\ (n < m => f[m - 1] \notin Nodes)
    BY <2>1
  <2>3. m + 1 \in D <=> f[m] \in Nodes
    BY <2>1
  <2>4. 1 .. m + 1 = (1 .. m) \union {m + 1}
    BY <2>1
  <2>5. CASE n < m
    <3>1. m - 1 \in Nat /\ (m - 1) + 1 = m
      BY <2>1, <2>5
    <3>2. f[m] = f[m - 1] /\ f[m] \notin Nodes
      BY <1>1, <2>2, <2>5, <3>1
    <3>3. D \intersect 1 .. m + 1 = 1 .. n
      BY <2>2, <2>3, <2>4, <3>2
    <3> QED BY <2>1, <3>2, <3>3
  <2>6. CASE n = m /\ f[m] \notin Nodes
    <3>1. D \intersect 1 .. m + 1 = 1 .. n
      BY <2>2, <2>3, <2>4, <2>6
    <3> QED BY <2>1, <2>6, <3>1
  <2>7. CASE n = m /\ f[m] \in Nodes
    <3>1. D \intersect 1 .. m + 1 = 1 .. m + 1
      BY <2>2, <2>3, <2>4, <2>7
    <3> QED BY <2>1, <3>1
  <2> QED BY <2>1, <2>5, <2>6, <2>7
<1>4. P = Nat
  <2>1. P \in SUBSET Nat
    OBVIOUS
  <2> HIDE DEF P
  <2> QED BY <1>2, <1>3, <2>1, SetInduction
<1>5. MaxNodes \in P
  <2> HIDE DEF P
  <2> QED BY <1>4, Places
<1>6. PICK n \in 0 .. MaxNodes : D \intersect 1 .. MaxNodes = 1 .. n
  BY <1>5
<1>7. D = 1 .. n
  BY <1>6 DEF Nodes
<1>8. \A i \in 1 .. n : f[i - 1] \in Nodes
  BY <1>7
<1>9. Chain(l) = [i \in 1 .. n |-> f[i - 1]]
  BY <1>1, <1>7
<1>10. n \in Nat
  BY <1>6, Places
<1> QED BY <1>8, <1>9, <1>10, IsASeq

-----------------------------------------------------------------------------
(* The size.  What some entries hold is counted in units: a pair of the entry *)
(* and a number up to the length of its buffer.                              *)

UnitsOf(b, nodes) == UNION {{n} \X (1 .. b[n]) : n \in nodes}
Held(b, nodes) == Cardinality(UnitsOf(b, nodes))
Buffers == [Nodes -> Nat]

LEMMA Count == ASSUME NEW n \in Nat PROVE IsFiniteSet(1 .. n) /\ Cardinality(1 .. n) = n
BY FS_Interval

LEMMA NodesFinite == ASSUME NEW A \in SUBSET Nodes PROVE IsFiniteSet(A)
<1>1. IsFiniteSet(Nodes)
  BY Places, Count DEF Nodes
<1> QED BY <1>1, FS_Subset

LEMMA HeldType ==
  ASSUME NEW b \in Buffers, NEW A \in SUBSET Nodes
  PROVE  IsFiniteSet(UnitsOf(b, A)) /\ Held(b, A) \in Nat
<1> DEFINE part(n) == {n} \X (1 .. b[n])
           parts == {part(n) : n \in A}
           f == [n \in A |-> part(n)]
<1>1. IsFiniteSet(A)
  BY NodesFinite
<1>2. f \in Surjection(A, parts)
  BY DEF Surjection
<1>3. IsFiniteSet(parts)
  <2> HIDE DEF parts, f
  <2> QED BY <1>1, <1>2, FS_Surjection
<1>4. ASSUME NEW n \in A PROVE IsFiniteSet(part(n))
  <2>1. IsFiniteSet({n}) /\ IsFiniteSet(1 .. b[n])
    <3>1. b[n] \in Nat
      BY DEF Buffers
    <3> QED BY <3>1, Count, FS_Singleton
  <2> QED BY <2>1, FS_Product
<1>5. \A T \in parts : IsFiniteSet(T)
  BY <1>4
<1>6. IsFiniteSet(UNION parts)
  <2> HIDE DEF parts
  <2> QED BY <1>3, <1>5, FS_UNION
<1>7. UnitsOf(b, A) = UNION parts
  BY DEF UnitsOf
<1> QED BY <1>6, <1>7, FS_CardinalityType DEF Held

LEMMA HeldJoined ==
  ASSUME NEW b \in Buffers, NEW A \in SUBSET Nodes, NEW B \in SUBSET Nodes, A \intersect B = {}
  PROVE  Held(b, A \union B) = Held(b, A) + Held(b, B)
<1>1. IsFiniteSet(UnitsOf(b, A)) /\ IsFiniteSet(UnitsOf(b, B)) /\ Held(b, A) \in Nat /\ Held(b, B) \in Nat
  BY HeldType
<1>2. UnitsOf(b, A \union B) = UnitsOf(b, A) \union UnitsOf(b, B)
  BY DEF UnitsOf
<1>3. UnitsOf(b, A) \intersect UnitsOf(b, B) = {}
  BY DEF UnitsOf
<1>4. /\ Cardinality(UnitsOf(b, A) \union UnitsOf(b, B)) =
            Cardinality(UnitsOf(b, A)) + Cardinality(UnitsOf(b, B))
              - Cardinality(UnitsOf(b, A) \intersect UnitsOf(b, B))
      /\ Cardinality(UnitsOf(b, A) \intersect UnitsOf(b, B)) = 0
  BY <1>1, <1>3, FS_Union, FS_EmptySet
<1>5. /\ Held(b, A \union B) = Cardinality(UnitsOf(b, A) \union UnitsOf(b, B))
      /\ Held(b, A) = Cardinality(UnitsOf(b, A)) /\ Held(b, B) = Cardinality(UnitsOf(b, B))
  BY <1>2 DEF Held
<1> QED BY <1>1, <1>4, <1>5

LEMMA HeldOne ==
  ASSUME NEW b \in Buffers, NEW n \in Nodes
  PROVE  Held(b, {n}) = b[n]
<1> DEFINE D == {n} \X (1 .. b[n])
           f == [i \in 1 .. b[n] |-> <<n, i>>]
<1>1. UnitsOf(b, {n}) = D /\ b[n] \in Nat
  BY DEF UnitsOf, Buffers
<1>2. f \in Bijection(1 .. b[n], D)
  BY DEF Bijection, Injection, Surjection, IsInjective
<1>3. IsFiniteSet(1 .. b[n]) /\ Cardinality(1 .. b[n]) = b[n]
  BY <1>1, Count
<1>4. Cardinality(D) = b[n]
  <2> HIDE DEF D, f
  <2> QED BY <1>2, <1>3, FS_Bijection DEF ExistsBijection
<1> QED BY <1>1, <1>4 DEF Held

LEMMA HeldSame ==
  ASSUME NEW b, NEW c, NEW A, \A n \in A : b[n] = c[n]
  PROVE  Held(b, A) = Held(c, A)
<1>1. UnitsOf(b, A) = UnitsOf(c, A)
  BY DEF UnitsOf
<1> QED BY <1>1 DEF Held

LEMMA HeldBlank ==
  ASSUME NEW b, NEW A, \A n \in A : b[n] = 0
  PROVE  Held(b, A) = 0
<1>1. UnitsOf(b, A) = {}
  BY DEF UnitsOf
<1> QED BY <1>1, FS_EmptySet DEF Held

LEMMA HeldRest ==
  ASSUME NEW b \in Buffers, NEW A \in SUBSET Nodes, NEW B \in SUBSET Nodes, B \subseteq A
  PROVE  Held(b, A) = Held(b, B) + Held(b, A \ B)
<1>1. A = B \union (A \ B) /\ B \intersect (A \ B) = {} /\ A \ B \in SUBSET Nodes
  OBVIOUS
<1> QED BY <1>1, HeldJoined

LEMMA MinIsSmallest ==
  ASSUME NEW S \in SUBSET Nat, S # {}
  PROVE  Min(S) \in S /\ \A y \in S : Min(S) <= y
<1>1. \E x \in S : \A y \in S : x <= y
  BY Smallest
<1> QED BY <1>1 DEF Min

LEMMA SumIsHeld ==
  /\ \A A : Sum(A) = Held(buf, A)
  /\ Sum(Allocated)' = Held(buf', Allocated')
BY DEF Sum, Held, UnitsOf

LEMMA BuffersType == ASSUME Types PROVE buf \in Buffers /\ Allocated \in SUBSET Nodes
BY DEF Types, Buffers, Lengths, Absent, Allocated

Counted == /\ list \in Lists
           /\ \A n \in Nodes : key[n] = None => buf[n] = Absent
           /\ SizeIsSum

LEMMA CountedRenew ==
  ASSUME Types, Types', Counted, NEW f \in Names, map[f] \in Allocated, NEW length \in Lengths, Renew(f, length)
  PROVE  Counted'
<1> DEFINE n == map[f]
           A == Allocated
           rest == A \ {n}
<1>1. /\ n \in Nodes /\ n \in A /\ size' = size - buf[n] + length
      /\ buf' = [buf EXCEPT ![n] = length] /\ list' = PushBack(Unlink(list, n), n) /\ UNCHANGED <<map, key>>
  BY DEF Renew, Allocated
<1>2. list' \in Lists
  BY <1>1, UnlinkType, PushBackType DEF Counted
<1>3. A' = A /\ buf \in Buffers /\ buf' \in Buffers /\ A \in SUBSET Nodes
  BY <1>1, BuffersType DEF Allocated, Types, Buffers, Lengths, Absent
<1>4. buf'[n] = length /\ \A m \in Nodes \ {n} : buf'[m] = buf[m]
  BY <1>1 DEF Types
<1>5. \A m \in Nodes : key'[m] = None => buf'[m] = Absent
  BY <1>1, <1>4 DEF Counted, Allocated
<1>6. size = Held(buf, A)
  BY SumIsHeld DEF Counted, SizeIsSum
<1> HIDE DEF n, A
<1>7. Held(buf, A) = Held(buf, {n}) + Held(buf, rest) /\ Held(buf', A) = Held(buf', {n}) + Held(buf', rest)
  <2>1. {n} \in SUBSET Nodes /\ {n} \subseteq A
    BY <1>1
  <2> QED BY <1>3, <2>1, HeldRest
<1>8. Held(buf, {n}) = buf[n] /\ Held(buf', {n}) = length
  BY <1>1, <1>3, <1>4, HeldOne
<1>9. Held(buf, rest) = Held(buf', rest)
  BY <1>3, <1>4, HeldSame
<1>10. Held(buf, rest) \in Nat /\ buf[n] \in Nat /\ length \in Nat
  <2>1. rest \in SUBSET Nodes
    BY <1>3
  <2> QED BY <1>1, <1>3, <2>1, HeldType DEF Lengths, Buffers
<1>11. size' = Held(buf', A')
  BY <1>1, <1>3, <1>6, <1>7, <1>8, <1>9, <1>10
<1>12. SizeIsSum'
  BY <1>11, SumIsHeld DEF SizeIsSum, A
<1> QED BY <1>2, <1>5, <1>12 DEF Counted

LEMMA GoneType ==
  ASSUME list \in Lists, NEW length, Evictions(length) # {}
  PROVE  LET k == Min(Evictions(length))
             gone == SubSeq(Chain(list), 1, k)
         IN /\ k \in Evictions(length) /\ k \in 0 .. Len(Chain(list)) /\ \A i \in Evictions(length) : k <= i
            /\ gone \in Seq(Nodes) /\ ToSet(gone) \in SUBSET Nodes
<1> DEFINE k == Min(Evictions(length))
           chain == Chain(list)
<1>1. chain \in Seq(Nodes)
  BY ChainType
<1>2. Evictions(length) \in SUBSET (0 .. Len(chain)) /\ Evictions(length) \in SUBSET Nat
  BY <1>1 DEF Evictions
<1>3. k \in Evictions(length) /\ k \in 0 .. Len(chain) /\ \A i \in Evictions(length) : k <= i
  BY <1>2, MinIsSmallest
<1> HIDE DEF k, chain
<1>4. SubSeq(chain, 1, k) \in Seq(Nodes)
  BY <1>1, <1>3
<1>5. ToSet(SubSeq(chain, 1, k)) \in SUBSET Nodes
  <2> DEFINE s == SubSeq(chain, 1, k)
  <2>1. s \in Seq(Nodes)
    BY <1>4
  <2> HIDE DEF s
  <2>2. ToSet(s) \in SUBSET Nodes
    BY <2>1 DEF ToSet
  <2> QED BY <2>2 DEF s
<1> QED BY <1>3, <1>4, <1>5 DEF k, chain

LEMMA CountedInsert ==
  ASSUME Types, Types', Counted, NEW f \in Names, NEW length \in Lengths, Evictions(length) # {}, Insert(f, length)
  PROVE  Counted'
<1> DEFINE gone == SubSeq(Chain(list), 1, Min(Evictions(length)))
           G == ToSet(gone)
           new == NewNode
           A == Allocated
<1>1. /\ new \in Free /\ size' = size + length - Sum(G)
      /\ key' = [n \in Nodes |-> IF n = new THEN f ELSE IF n \in G THEN None ELSE key[n]]
      /\ buf' = [n \in Nodes |-> IF n = new THEN length ELSE IF n \in G THEN Absent ELSE buf[n]]
      /\ list' = PushBack(UnlinkAll(list, gone), new)
  BY DEF Insert, NewNode
<1>2. new \in Nodes /\ new \notin A
  BY <1>1 DEF Free
<1>3. gone \in Seq(Nodes) /\ G \in SUBSET Nodes /\ list \in Lists
  BY GoneType DEF Counted
<1>4. buf \in Buffers /\ buf' \in Buffers /\ A \in SUBSET Nodes
  BY BuffersType DEF Types, Buffers, Lengths, Absent
<1>5. size = Held(buf, A) /\ Sum(G) = Held(buf, G)
  BY SumIsHeld DEF Counted, SizeIsSum
<1> HIDE DEF gone, G, new
<1>6. list' \in Lists
  <2>1. PICK h \in [0 .. Len(gone) -> Lists] : UnlinkAll(list, gone) = h[Len(gone)]
    BY <1>3, UnlinkAllSteps
  <2>2. UnlinkAll(list, gone) \in Lists
    <3>1. Len(gone) \in 0 .. Len(gone)
      BY <1>3
    <3> QED BY <2>1, <3>1
  <2> QED BY <1>1, <1>2, <2>2, PushBackType
<1>7. A' = (A \ G) \union {new}
  <2>1. \A n \in Nodes : key'[n] # None <=> n = new \/ (n \notin G /\ key[n] # None)
    BY <1>1, ConstantFacts
  <2> QED BY <1>2, <2>1 DEF Allocated
<1>8. \A m \in Nodes : key'[m] = None => buf'[m] = Absent
  BY <1>1, ConstantFacts DEF Counted
<1>9. /\ buf'[new] = length /\ \A m \in A \ G : buf'[m] = buf[m]
      /\ \A m \in G \ A : buf[m] = 0
  BY <1>1, <1>2, <1>3 DEF Counted, Allocated, Absent
<1>10. A \in SUBSET Nodes /\ A \ G \in SUBSET Nodes /\ G \ A \in SUBSET Nodes /\ A \intersect G \in SUBSET Nodes
  BY <1>3, <1>4
<1> HIDE DEF A
<1>11. Held(buf, A) = Held(buf, A \intersect G) + Held(buf, A \ G)
  <2>1. A = (A \intersect G) \union (A \ G) /\ (A \intersect G) \intersect (A \ G) = {}
    OBVIOUS
  <2> QED BY <1>4, <1>10, <2>1, HeldJoined
<1>12. Held(buf, G) = Held(buf, A \intersect G) + Held(buf, G \ A)
  <2>1. G = (A \intersect G) \union (G \ A) /\ (A \intersect G) \intersect (G \ A) = {}
    OBVIOUS
  <2> QED BY <1>4, <1>10, <2>1, HeldJoined
<1>13. Held(buf, G \ A) = 0 /\ Held(buf, A \ G) = Held(buf', A \ G)
  BY <1>9, HeldBlank, HeldSame
<1>14. Held(buf', (A \ G) \union {new}) = Held(buf', A \ G) + length
  <2>1. {new} \in SUBSET Nodes /\ (A \ G) \intersect {new} = {}
    BY <1>2
  <2>2. Held(buf', (A \ G) \union {new}) = Held(buf', A \ G) + Held(buf', {new})
    BY <1>4, <1>10, <2>1, HeldJoined
  <2>3. Held(buf', {new}) = length
    BY <1>2, <1>4, <1>9, HeldOne
  <2> QED BY <2>2, <2>3
<1>15. Held(buf, A \intersect G) \in Nat /\ Held(buf, A \ G) \in Nat /\ length \in Nat
  BY <1>4, <1>10, HeldType DEF Lengths
<1>16. size' = Held(buf', A')
  BY <1>1, <1>5, <1>7, <1>11, <1>12, <1>13, <1>14, <1>15
<1>17. SizeIsSum'
  BY <1>16, SumIsHeld DEF SizeIsSum, A
<1> QED BY <1>6, <1>8, <1>17 DEF Counted

LEMMA CountedDelFile ==
  ASSUME Types, Types', Counted, NEW f \in Files, DelFile(f)
  PROVE  Counted'
<1>1. CASE UNCHANGED cache
  BY <1>1 DEF Counted, SizeIsSum, Sum, Allocated, cache
<1>2. CASE ~UNCHANGED cache
  <2> DEFINE n == map[f]
             A == Allocated
             rest == A \ {n}
  <2>1. /\ n \in A /\ size' = size - buf[n] /\ list' = Unlink(list, n)
        /\ key' = [key EXCEPT ![n] = None] /\ buf' = [buf EXCEPT ![n] = Absent]
    BY <1>2 DEF DelFile, Dangling, Ends
  <2>2. n \in Nodes /\ list' \in Lists
    BY <2>1, UnlinkType DEF Allocated, Counted
  <2>3. A' = rest /\ A \in SUBSET Nodes /\ buf \in Buffers /\ buf' \in Buffers
    BY <2>1, <2>2, BuffersType DEF Allocated, Types, Buffers, Lengths, Absent
  <2>4. \A m \in Nodes \ {n} : buf'[m] = buf[m] /\ key'[m] = key[m]
    BY <2>1 DEF Types
  <2>5. \A m \in Nodes : key'[m] = None => buf'[m] = Absent
    BY <2>1, <2>4 DEF Counted, Types
  <2>6. size = Held(buf, A)
    BY SumIsHeld DEF Counted, SizeIsSum
  <2> HIDE DEF n, A
  <2>7. Held(buf, A) = Held(buf, {n}) + Held(buf, rest)
    <3>1. {n} \in SUBSET Nodes /\ {n} \subseteq A
      BY <2>1, <2>2
    <3> QED BY <2>3, <3>1, HeldRest
  <2>8. Held(buf, {n}) = buf[n] /\ Held(buf, rest) = Held(buf', rest)
    BY <2>2, <2>3, <2>4, HeldOne, HeldSame
  <2>9. Held(buf, rest) \in Nat /\ buf[n] \in Nat
    <3>1. rest \in SUBSET Nodes
      BY <2>3
    <3> QED BY <2>2, <2>3, <3>1, HeldType DEF Buffers
  <2>10. size' = Held(buf', A')
    BY <2>1, <2>3, <2>6, <2>7, <2>8, <2>9
  <2>11. SizeIsSum'
    BY <2>10, SumIsHeld DEF SizeIsSum, A
  <2> QED BY <2>2, <2>5, <2>11 DEF Counted
<1> QED BY <1>1, <1>2

-----------------------------------------------------------------------------
(* Who holds the lock.  A reader that moves shares it; a thread that reads   *)
(* a file has it alone; and an entry that is being moved exists.             *)

Locked == /\ step \in [Threads -> 0 .. 8]
          /\ at[Watch] # "move"
          /\ \A t \in Threads : at[t] = "read" => \A u \in Threads \ {t} : at[u] \notin {"move", "read"}
          /\ \A t \in Threads : IF at[t] = "move" THEN step[t] # 0 /\ map[want[t]] \in Allocated ELSE step[t] = 0

Fate == fate \in {"runs", "null", "dangling", "torn", "terminate"}
Sound == Inv /\ Locked /\ Counted /\ Fate

\* Nothing of the cache changes but pointers.
LEMMA CountedKept ==
  ASSUME Counted, UNCHANGED <<key, buf, size>>, list' \in Lists
  PROVE  Counted'
BY DEF Counted, SizeIsSum, Sum, Allocated

LEMMA LockedKept ==
  ASSUME Locked, UNCHANGED <<map, key, at, want, step>>
  PROVE  Locked'
BY DEF Locked, Allocated

\* While nobody moves, the map and the entries may change.
LEMMA LockedFree ==
  ASSUME Types, Types', Locked, NEW t \in Threads, at[t] = "read" \/ (t = Watch /\ LockFree),
         UNCHANGED step, UNCHANGED <<at, want>> \/ PutDone(t)
  PROVE  Locked'
<1>1. \A u \in Threads : at[u] # "move"
  BY DEF Locked, LockFree
<1>2. \A u \in Threads : step[u] = 0
  BY <1>1 DEF Locked
<1>3. \A u \in Threads : at'[u] = at[u] \/ (u = t /\ at'[u] = "idle")
  BY DEF PutDone, Goes, Types
<1>4. \A u \in Threads : at'[u] # "move"
  BY <1>1, <1>3
<1>5. \A u \in Threads : at'[u] = "read" => at[u] = "read"
  BY <1>3
<1> QED BY <1>2, <1>3, <1>4, <1>5, ConstantFacts DEF Locked

LEMMA SoundInit == Init => Locked /\ Counted /\ Fate
<1> SUFFICES ASSUME Init PROVE Locked /\ Counted /\ Fate
  OBVIOUS
<1>1. list \in Lists
  <2> DEFINE a == [p \in head .. tail |-> IF p = head THEN tail ELSE null]
             b == [p \in head .. tail |-> IF p = tail THEN head ELSE null]
  <2>1. a \in [head .. tail -> Pointers] /\ b \in [head .. tail -> Pointers]
    BY Places
  <2>2. list = [next |-> a, prev |-> b]
    BY DEF Init
  <2> HIDE DEF a, b
  <2> QED BY <2>1, <2>2 DEF Lists
<1>2. Allocated = {} /\ size = 0
  BY DEF Init, Allocated
<1>3. Sum({}) = 0
  BY SumIsHeld, HeldBlank
<1> QED BY <1>1, <1>2, <1>3, ConstantFacts DEF Init, Locked, Counted, SizeIsSum, Fate

\* The process ends, or a thread gives up: the cache stays.
LEMMA SoundEnds ==
  ASSUME Sound, NEW how \in {"null", "dangling", "torn", "terminate"}, Ends(how)
  PROVE  Locked' /\ Counted' /\ Fate'
BY LockedKept, CountedKept DEF Sound, Ends, Fate, Counted, cache, threads

LEMMA SoundGet ==
  ASSUME Sound, Types', NEW r \in Readers, NEW f \in Names, Get(r, f)
  PROVE  Locked' /\ Counted' /\ Fate'
<1>1. CASE Dangling(f)
  BY <1>1, SoundEnds DEF Get
<1>2. CASE ~Dangling(f)
  <2>1. /\ at' = [at EXCEPT ![r] = IF Cached(f) THEN "move" ELSE "put"]
        /\ want' = [want EXCEPT ![r] = f] /\ step' = [step EXCEPT ![r] = IF Cached(f) THEN 1 ELSE 0]
        /\ SharedFree /\ UNCHANGED <<cache, fate>>
    BY <1>2 DEF Get, Goes
  <2>2. Counted' /\ Fate'
    BY <2>1, CountedKept DEF Sound, Counted, Fate, cache
  <2>3. r \in Threads /\ r # Watch
    BY ConstantFacts
  <2>4. Cached(f) => map[f] \in Allocated
    BY <1>2 DEF Dangling
  <2>5. \A u \in Threads : at'[u] # "read"
    BY <2>1, <2>3 DEF Sound, Inv, Types, SharedFree
  <2>6. step' \in [Threads -> 0 .. 8]
    <3>1. (IF Cached(f) THEN 1 ELSE 0) \in 0 .. 8
      OBVIOUS
    <3> QED BY <2>1, <3>1 DEF Sound, Locked
  <2>7. ASSUME NEW u \in Threads
        PROVE  IF at'[u] = "move" THEN step'[u] # 0 /\ map'[want'[u]] \in Allocated' ELSE step'[u] = 0
    <3>1. CASE u = r
      BY <2>1, <2>3, <2>4, <3>1 DEF Sound, Locked, Inv, Types, Allocated, cache
    <3>2. CASE u # r
      <4>1. at'[u] = at[u] /\ want'[u] = want[u] /\ step'[u] = step[u]
        BY <2>1, <3>2 DEF Sound, Locked, Inv, Types
      <4> QED BY <2>1, <4>1 DEF Sound, Locked, Allocated, cache
    <3> QED BY <3>1, <3>2
  <2>8. at'[Watch] # "move"
    BY <2>1, <2>3, ConstantFacts DEF Sound, Locked, Inv, Types
  <2> QED BY <2>2, <2>5, <2>6, <2>7, <2>8 DEF Locked
<1> QED BY <1>1, <1>2

LEMMA SoundMove ==
  ASSUME Sound, Types', NEW r \in Readers, Move(r)
  PROVE  Locked' /\ Counted' /\ Fate'
<1> DEFINE n == map[want[r]]
           i == step[r]
           ends == Writes(list, n)[i][2] = null
<1>1. CASE ends
  BY <1>1, SoundEnds DEF Move
<1>2. CASE ~ends
  <2>1. /\ at[r] = "move" /\ list' = Written(list, n, i) /\ UNCHANGED <<map, key, buf, size, fate>>
        /\ \/ i < 8 /\ step' = [step EXCEPT ![r] = i + 1] /\ UNCHANGED <<at, want>>
           \/ /\ at' = [at EXCEPT ![r] = "idle"] /\ want' = [want EXCEPT ![r] = None]
              /\ step' = [step EXCEPT ![r] = 0]
    BY <1>2 DEF Move, Goes
  <2>2. r \in Threads /\ n \in Nodes /\ i \in 1 .. 8
    BY <2>1, ConstantFacts DEF Sound, Locked, Allocated
  <2>3. list' \in Lists
    BY <2>1, <2>2, WrittenType DEF Sound, Counted
  <2>4. Counted' /\ Fate'
    BY <2>1, <2>3, CountedKept DEF Sound, Fate
  <2>5. step' \in [Threads -> 0 .. 8]
    BY <2>1, <2>2 DEF Sound, Locked
  <2>6. \A u \in Threads : at'[u] = at[u] \/ (u = r /\ at'[u] = "idle")
    BY <2>1 DEF Sound, Inv, Types
  <2>7. ASSUME NEW u \in Threads
        PROVE  IF at'[u] = "move" THEN step'[u] # 0 /\ map'[want'[u]] \in Allocated' ELSE step'[u] = 0
    <3>1. CASE u = r
      BY <2>1, <2>2, <3>1 DEF Sound, Locked, Inv, Types, Allocated
    <3>2. CASE u # r
      <4>1. at'[u] = at[u] /\ want'[u] = want[u] /\ step'[u] = step[u]
        BY <2>1, <3>2 DEF Sound, Locked, Inv, Types
      <4> QED BY <2>1, <4>1 DEF Sound, Locked, Allocated
    <3> QED BY <3>1, <3>2
  <2>8. at'[Watch] # "move"
    BY <2>6, ConstantFacts DEF Sound, Locked
  <2>9. \A t \in Threads : at'[t] = "read" => \A u \in Threads \ {t} : at'[u] \notin {"move", "read"}
    BY <2>6 DEF Sound, Locked
  <2> QED BY <2>4, <2>5, <2>7, <2>8, <2>9 DEF Locked
<1> QED BY <1>1, <1>2

LEMMA SoundPutChecks ==
  ASSUME Sound, Types', NEW t \in Threads, PutChecks(t)
  PROVE  Locked' /\ Counted' /\ Fate'
<1>1. CASE Ends("terminate")
  BY <1>1, SoundEnds
<1>2. CASE ~Ends("terminate")
  <2>1. /\ at[t] = "put" /\ LockFree /\ UNCHANGED <<step, cache, fate>>
        /\ \/ at' = [at EXCEPT ![t] = "read"] /\ UNCHANGED want
           \/ at' = [at EXCEPT ![t] = "idle"] /\ want' = [want EXCEPT ![t] = None]
    BY <1>2 DEF PutChecks, PutDone, Goes
  <2>2. Counted' /\ Fate'
    BY <2>1, CountedKept DEF Sound, Counted, Fate, cache
  <2>3. \A u \in Threads : at'[u] = at[u] \/ (u = t /\ at'[u] \in {"read", "idle"})
    BY <2>1 DEF Sound, Inv, Types
  <2>4. \A u \in Threads : at[u] \notin {"move", "read"} /\ step[u] = 0
    BY <2>1 DEF LockFree, Sound, Locked
  <2>5. \A u \in Threads : at'[u] # "move" /\ (at'[u] = "read" => u = t)
    BY <2>3, <2>4
  <2>6. Locked'
    BY <2>1, <2>4, <2>5, ConstantFacts DEF Sound, Locked
  <2> QED BY <2>2, <2>6
<1> QED BY <1>1, <1>2

LEMMA SoundPutReads ==
  ASSUME Sound, Types', NEW t \in Threads, PutReads(t)
  PROVE  Locked' /\ Counted' /\ Fate'
<1> DEFINE f == want[t]
           length == OnDisk(t)
           gone == length = Absent
           breaks == Dangling(f) \/ ~InOnePiece \/ (~Cached(f) /\ Evictions(length) = {})
<1>1. at[t] = "read" /\ f \in Names /\ length \in Lengths \union {Absent} /\ Types
  BY ConstantFacts DEF PutReads, Sound, Inv, Types, OnDisk
<1>2. CASE ~gone /\ breaks
  <2>1. Ends("dangling") \/ Ends("torn") \/ Ends("null")
    BY <1>2 DEF PutReads
  <2> QED BY <2>1, SoundEnds
<1>3. CASE gone
  <2>1. PutDone(t) /\ UNCHANGED <<cache, step, fate>>
    BY <1>3 DEF PutReads, PutDone
  <2>2. Locked'
    BY <1>1, <2>1, LockedFree DEF Sound
  <2> QED BY <2>1, <2>2, CountedKept DEF Sound, Counted, Fate, cache
<1>4. CASE ~gone /\ ~breaks
  <2>1. PutDone(t) /\ UNCHANGED <<step, fate>> /\ IF Cached(f) THEN Renew(f, length) ELSE Insert(f, length)
    BY <1>4 DEF PutReads, PutDone
  <2>2. Locked'
    BY <1>1, <2>1, LockedFree DEF Sound
  <2>3. Counted'
    <3>1. CASE Cached(f)
      BY <1>1, <1>4, <2>1, <3>1, CountedRenew DEF Sound, Dangling
    <3>2. CASE ~Cached(f)
      BY <1>1, <1>4, <2>1, <3>2, CountedInsert DEF Sound
    <3> QED BY <3>1, <3>2
  <2> QED BY <2>1, <2>2, <2>3 DEF Sound, Fate
<1> QED BY <1>2, <1>3, <1>4

LEMMA SoundWatch ==
  ASSUME Sound, Types', Changed \/ Deleted \/ Paired \/ Stored
  PROVE  Locked' /\ Counted' /\ Fate'
<1>1. Types /\ Head(events).file \in Files /\ Watch \in Threads /\ at[Watch] = "idle"
  <2>1. Types /\ NextEvent
    BY DEF Sound, Inv, Changed, Deleted, Paired, Stored
  <2>2. Head(events) \in Events
    BY <2>1 DEF Types, NextEvent
  <2> QED BY <2>1, <2>2, ConstantFacts DEF NextEvent, Events
<1>2. CASE Changed
  <2>1. /\ at' = [at EXCEPT ![Watch] = "put"] /\ want' = [want EXCEPT ![Watch] = Head(events).file]
        /\ UNCHANGED <<step, cache, fate>>
    BY <1>2 DEF Changed, Goes
  <2>2. \A u \in Threads : \/ u = Watch /\ at'[u] = "put" /\ at[u] = "idle"
                           \/ u # Watch /\ at'[u] = at[u] /\ want'[u] = want[u]
    BY <1>1, <2>1 DEF Types
  <2>3. Locked'
    BY <1>1, <2>1, <2>2 DEF Sound, Locked, Allocated, cache
  <2> QED BY <2>1, <2>3, CountedKept DEF Sound, Counted, Fate, cache
<1>3. CASE Stored
  BY <1>3, LockedKept, CountedKept DEF Stored, Sound, Counted, Fate, cache, threads
<1>4. CASE Paired
  <2>1. UNCHANGED <<key, buf, list, size, at, want, step, fate>> /\ LockFree
    BY <1>4 DEF Paired, MoveFile, threads
  <2> QED BY <1>1, <2>1, LockedFree, CountedKept DEF Sound, Counted, Fate
<1>5. CASE Deleted
  <2> DEFINE f == Head(events).file
  <2>1. DelFile(f) /\ LockFree /\ f \in Files
    BY <1>1, <1>5 DEF Deleted
  <2>2. Counted'
    BY <1>1, <2>1, CountedDelFile DEF Sound
  <2>3. UNCHANGED <<at, want, step>> /\ Fate'
    BY <2>1 DEF DelFile, Ends, threads, Sound, Fate
  <2>4. Locked'
    BY <1>1, <2>1, <2>3, LockedFree DEF Sound
  <2> QED BY <2>2, <2>3, <2>4
<1> QED BY <1>2, <1>3, <1>4, <1>5

LEMMA SoundNext == Sound /\ [Next]_vars => Sound'
<1> SUFFICES ASSUME Sound, [Next]_vars PROVE Sound'
  OBVIOUS
<1>1. Inv' /\ Types'
  BY InvNext DEF Sound, Inv
<1>2. Locked' /\ Counted' /\ Fate'
  <2>1. ASSUME NEW r \in Readers, NEW f \in Names, Get(r, f) PROVE Locked' /\ Counted' /\ Fate'
    BY <1>1, <2>1, SoundGet
  <2>2. ASSUME NEW r \in Readers, Move(r) PROVE Locked' /\ Counted' /\ Fate'
    BY <1>1, <2>2, SoundMove
  <2>3. ASSUME NEW t \in Threads, PutChecks(t) \/ PutReads(t) PROVE Locked' /\ Counted' /\ Fate'
    BY <1>1, <2>3, SoundPutChecks, SoundPutReads
  <2>4. CASE Changed \/ Deleted \/ Paired \/ Stored
    BY <1>1, <2>4, SoundWatch
  <2>5. ASSUME UNCHANGED <<cache, threads, fate>> PROVE Locked' /\ Counted' /\ Fate'
    BY <2>5, LockedKept, CountedKept DEF Sound, Counted, Fate, cache, threads
  <2>6. ASSUME NEW f \in Files, NEW n \in Lengths, Write(f, n) \/ MoveIn(f, n) PROVE Locked' /\ Counted' /\ Fate'
    BY <2>5, <2>6 DEF Write, MoveIn, Change
  <2>7. ASSUME NEW f \in Files, Delete(f) \/ MoveOut(f) PROVE Locked' /\ Counted' /\ Fate'
    BY <2>5, <2>7 DEF Delete, MoveOut, Change
  <2>8. ASSUME NEW f \in Files, NEW g \in Files, Rename(f, g) PROVE Locked' /\ Counted' /\ Fate'
    BY <2>5, <2>8 DEF Rename, Change
  <2>9. CASE UNCHANGED vars
    BY <2>5, <2>9 DEF vars
  <2> QED BY <2>1, <2>2, <2>3, <2>4, <2>6, <2>7, <2>8, <2>9 DEF Next
<1> QED BY <1>1, <1>2 DEF Sound

LEMMA SoundHolds == Spec => []Sound
<1>1. Init => Sound
  BY InvInit, SoundInit DEF Sound
<1> QED BY <1>1, SoundNext, PTL DEF Spec

\* size_ is what the entries hold, whatever requests race and however they leave
\* the list: the count depends on keys and buffers only.
THEOREM SizeAlwaysSum == Spec => []SizeIsSum
<1>1. Sound => SizeIsSum
  BY DEF Sound, Counted
<1> QED BY <1>1, SoundHolds, PTL

\* Whether moves have overlapped is set by a request that finds another's move
\* under way, and stays.
LEMMA FlagKept ==
  ASSUME [Next]_vars
  PROVE  /\ overlapped \in BOOLEAN => overlapped' \in BOOLEAN
         /\ overlapped => overlapped'
<1>1. ASSUME NEW r \in Readers, NEW f \in Names, Get(r, f)
      PROVE  overlapped' \in BOOLEAN /\ (overlapped => overlapped')
  BY <1>1 DEF Get
<1>2. CASE UNCHANGED overlapped
  BY <1>2
<1>3. CASE UNCHANGED vars
  BY <1>2, <1>3 DEF vars
<1>4. ASSUME NEW r \in Readers, Move(r) PROVE UNCHANGED overlapped
  BY <1>4 DEF Move
<1>5. ASSUME NEW t \in Threads, PutChecks(t) \/ PutReads(t) PROVE UNCHANGED overlapped
  BY <1>5 DEF PutChecks, PutReads
<1>6. CASE Changed \/ Deleted \/ Paired \/ Stored
  BY <1>2, <1>6 DEF Changed, Deleted, Paired, Stored, NextEvent
<1>7. ASSUME NEW f \in Files, NEW n \in Lengths, Write(f, n) \/ MoveIn(f, n) PROVE UNCHANGED overlapped
  BY <1>7 DEF Write, MoveIn, Change
<1>8. ASSUME NEW f \in Files, Delete(f) \/ MoveOut(f) PROVE UNCHANGED overlapped
  BY <1>8 DEF Delete, MoveOut, Change
<1>9. ASSUME NEW f \in Files, NEW g \in Files, Rename(f, g) PROVE UNCHANGED overlapped
  BY <1>9 DEF Rename, Change
<1> QED BY <1>1, <1>2, <1>3, <1>4, <1>5, <1>6, <1>7, <1>8, <1>9 DEF Next

LEMMA FlagHolds == Spec => [](overlapped \in BOOLEAN)
<1>1. Init => overlapped \in BOOLEAN
  BY DEF Init
<1>2. overlapped \in BOOLEAN /\ [Next]_vars => (overlapped \in BOOLEAN)'
  BY FlagKept
<1> QED BY <1>1, <1>2, PTL DEF Spec

\* Every variable keeps its type, for any number of readers, races included.
THEOREM FileLRUTyped == Spec => []TypeOK
<1>1. Sound /\ overlapped \in BOOLEAN => TypeOK
  <2> SUFFICES ASSUME Sound, overlapped \in BOOLEAN PROVE TypeOK
    OBVIOUS
  <2>1. size \in Nat
    <3>1. Types /\ size = Held(buf, Allocated)
      BY SumIsHeld DEF Sound, Inv, Counted, SizeIsSum
    <3>2. buf \in Buffers /\ Allocated \in SUBSET Nodes
      BY <3>1, BuffersType
    <3> QED BY <3>1, <3>2, HeldType
  <2> QED BY <2>1 DEF Sound, Inv, Types, Locked, Counted, Fate, Lists, TypeOK
<1> QED BY <1>1, SoundHolds, FlagHolds, PTL

-----------------------------------------------------------------------------
(* The order of a list: next__ leads from head_ through the entries of a     *)
(* sequence to tail_, prev__ leads back.                                     *)

Way(s) == [i \in 0 .. Len(s) + 1 |-> IF i = 0 THEN head ELSE IF i = Len(s) + 1 THEN tail ELSE s[i]]
LeadsOn(next, s) == \A i \in 0 .. Len(s) : next[Way(s)[i]] = Way(s)[i + 1]
LeadsBack(prev, s) == \A i \in 0 .. Len(s) : prev[Way(s)[i + 1]] = Way(s)[i]
Orders(l, s) == LeadsOn(l.next, s) /\ LeadsBack(l.prev, s)
Once(s) == s \in Seq(Nodes) /\ \A i, j \in 1 .. Len(s) : s[i] = s[j] => i = j
Links == [head .. tail -> Pointers]

LEMMA WayFacts ==
  ASSUME NEW s \in Seq(Nodes)
  PROVE  /\ Len(s) \in Nat /\ Way(s)[0] = head /\ Way(s)[Len(s) + 1] = tail
         /\ \A i \in 1 .. Len(s) : Way(s)[i] = s[i] /\ s[i] \in Nodes
         /\ \A i \in 0 .. Len(s) + 1 : Way(s)[i] \in head .. tail
BY Places, SMTT(30) DEF Way

LEMMA WayOnce ==
  ASSUME NEW s, Once(s), NEW i \in 0 .. Len(s) + 1, NEW j \in 0 .. Len(s) + 1, Way(s)[i] = Way(s)[j]
  PROVE  i = j
BY Places DEF Way, Once

\* An entry in the order is on the way, one that is not is not.
LEMMA NotOnWay ==
  ASSUME NEW s \in Seq(Nodes), NEW n \in Nodes \ ToSet(s), NEW i \in 0 .. Len(s) + 1
  PROVE  Way(s)[i] # n
BY Places DEF Way, ToSet

LEMMA Without ==
  ASSUME NEW s, Once(s), NEW k \in 1 .. Len(s)
  PROVE  LET t == RemoveAt(s, k)
         IN /\ Once(t) /\ Len(t) = Len(s) - 1 /\ ToSet(t) = ToSet(s) \ {s[k]} /\ s[k] \in Nodes
            /\ \A i \in 0 .. Len(t) + 1 : Way(t)[i] = IF i < k THEN Way(s)[i] ELSE Way(s)[i + 1]
<1> DEFINE t == RemoveAt(s, k)
           m == Len(s)
<1>1. s \in Seq(Nodes) /\ m \in Nat /\ s[k] \in Nodes
  BY DEF Once
<1>2. t \in Seq(Nodes) /\ Len(t) = m - 1 /\ \A i \in 1 .. m - 1 : t[i] = IF i < k THEN s[i] ELSE s[i + 1]
  BY <1>1, RemovedAt
<1> HIDE DEF t
<1>3. \A i, j \in 1 .. m : s[i] = s[j] => i = j
  BY DEF Once
<1>4. ASSUME NEW i \in 1 .. m - 1, NEW j \in 1 .. m - 1, t[i] = t[j] PROVE i = j
  <2> DEFINE a == IF i < k THEN i ELSE i + 1
             b == IF j < k THEN j ELSE j + 1
  <2>1. a \in 1 .. m /\ b \in 1 .. m /\ t[i] = s[a] /\ t[j] = s[b]
    BY <1>1, <1>2
  <2>2. a = b
    BY <1>3, <1>4, <2>1
  <2> QED BY <1>1, <2>2
<1>5. ToSet(t) = ToSet(s) \ {s[k]}
  <2>1. ASSUME NEW x \in ToSet(t) PROVE x \in ToSet(s) \ {s[k]}
    <3>1. PICK i \in 1 .. m - 1 : x = t[i]
      BY <1>2, <2>1 DEF ToSet
    <3> DEFINE a == IF i < k THEN i ELSE i + 1
    <3>2. a \in 1 .. m /\ x = s[a] /\ a # k
      BY <1>1, <1>2, <3>1
    <3> HIDE DEF a
    <3> QED BY <1>1, <1>3, <3>2 DEF ToSet
  <2>2. ASSUME NEW x \in ToSet(s) \ {s[k]} PROVE x \in ToSet(t)
    <3>1. PICK a \in 1 .. m : x = s[a]
      BY <1>1 DEF ToSet
    <3> DEFINE i == IF a < k THEN a ELSE a - 1
    <3>2. a # k
      BY <2>2, <3>1
    <3>3. i \in 1 .. m - 1 /\ t[i] = x
      BY <1>1, <1>2, <3>1, <3>2
    <3> HIDE DEF i
    <3> QED BY <1>1, <1>2, <3>3 DEF ToSet
  <2> QED BY <2>1, <2>2
<1>6. ASSUME NEW i \in 0 .. m PROVE Way(t)[i] = IF i < k THEN Way(s)[i] ELSE Way(s)[i + 1]
  <2>1. Way(t)[i] = IF i = 0 THEN head ELSE IF i = m THEN tail ELSE t[i]
    BY <1>1, <1>2 DEF Way
  <2>2. \A j \in 0 .. m + 1 : Way(s)[j] = IF j = 0 THEN head ELSE IF j = m + 1 THEN tail ELSE s[j]
    BY DEF Way
  <2> QED BY <1>1, <1>2, <2>1, <2>2
<1> QED BY <1>1, <1>2, <1>4, <1>5, <1>6 DEF t, Once

LEMMA With ==
  ASSUME NEW t, Once(t), NEW n \in Nodes \ ToSet(t)
  PROVE  LET u == Append(t, n)
         IN /\ Once(u) /\ Len(u) = Len(t) + 1 /\ ToSet(u) = ToSet(t) \union {n} /\ u[Len(u)] = n
            /\ \A i \in 0 .. Len(t) : Way(u)[i] = Way(t)[i]
            /\ Way(u)[Len(t) + 1] = n /\ Way(u)[Len(t) + 2] = tail
<1> DEFINE u == Append(t, n)
           m == Len(t)
<1>1. t \in Seq(Nodes) /\ m \in Nat
  BY DEF Once
<1>2. u \in Seq(Nodes) /\ Len(u) = m + 1 /\ u[m + 1] = n /\ \A i \in 1 .. m : u[i] = t[i]
  BY <1>1, Appended
<1> HIDE DEF u
<1>3. \A i \in 1 .. m : t[i] # n
  BY <1>1 DEF ToSet
<1>4. \A i, j \in 1 .. m + 1 : u[i] = u[j] => i = j
  BY <1>1, <1>2, <1>3 DEF Once
<1>5. ToSet(u) = ToSet(t) \union {n}
  <2>1. ToSet(u) = {u[i] : i \in 1 .. m + 1} /\ ToSet(t) = {t[i] : i \in 1 .. m}
    BY <1>1, <1>2 DEF ToSet
  <2>2. 1 .. m + 1 = (1 .. m) \union {m + 1}
    BY <1>1
  <2> QED BY <1>2, <2>1, <2>2
<1>6. /\ \A i \in 0 .. m : Way(u)[i] = Way(t)[i]
      /\ Way(u)[m + 1] = n /\ Way(u)[m + 2] = tail
  BY <1>1, <1>2 DEF Way
<1> QED BY <1>2, <1>4, <1>5, <1>6 DEF u, Once

\* An entry is skipped on the way on, or back.
LEMMA SkipOn ==
  ASSUME NEW s, Once(s), NEW k \in 1 .. Len(s), NEW old \in Links, LeadsOn(old, s), NEW new,
         new[Way(s)[k - 1]] = Way(s)[k + 1],
         \A p \in (head .. tail) \ {s[k], Way(s)[k - 1]} : new[p] = old[p]
  PROVE  LeadsOn(new, RemoveAt(s, k))
<1> DEFINE t == RemoveAt(s, k)
           m == Len(s)
<1>1. /\ Once(t) /\ Len(t) = m - 1 /\ m \in Nat
      /\ \A i \in 0 .. m : Way(t)[i] = IF i < k THEN Way(s)[i] ELSE Way(s)[i + 1]
  BY Without DEF Once
<1> HIDE DEF t
<1>2. \A j \in 0 .. m + 1 : Way(s)[j] \in head .. tail
  BY WayFacts DEF Once
<1>3. \A i, j \in 0 .. m + 1 : Way(s)[i] = Way(s)[j] => i = j
  BY WayOnce
<1>4. Way(s)[k] = s[k]
  BY WayFacts DEF Once
<1>5. ASSUME NEW i \in 0 .. m - 1 PROVE new[Way(t)[i]] = Way(t)[i + 1]
  <2>1. CASE i = k - 1
    BY <1>1, <2>1
  <2>2. CASE i # k - 1
    <3> DEFINE j == IF i < k THEN i ELSE i + 1
    <3>1. j \in 0 .. m /\ j # k /\ j # k - 1 /\ Way(t)[i] = Way(s)[j] /\ Way(t)[i + 1] = Way(s)[j + 1]
      BY <1>1, <2>2
    <3> HIDE DEF j
    <3>2. Way(s)[j] \in (head .. tail) \ {s[k], Way(s)[k - 1]}
      <4>1. j \in 0 .. m + 1 /\ k \in 0 .. m + 1 /\ k - 1 \in 0 .. m + 1
        BY <1>1, <3>1
      <4> QED BY <1>2, <1>3, <1>4, <3>1, <4>1
    <3>3. old[Way(s)[j]] = Way(s)[j + 1]
      BY <3>1 DEF LeadsOn
    <3> QED BY <3>1, <3>2, <3>3
  <2> QED BY <2>1, <2>2
<1> QED BY <1>1, <1>5 DEF LeadsOn, t

LEMMA SkipBack ==
  ASSUME NEW s, Once(s), NEW k \in 1 .. Len(s), NEW old \in Links, LeadsBack(old, s), NEW new,
         new[Way(s)[k + 1]] = Way(s)[k - 1],
         \A p \in (head .. tail) \ {s[k], Way(s)[k + 1]} : new[p] = old[p]
  PROVE  LeadsBack(new, RemoveAt(s, k))
<1> DEFINE t == RemoveAt(s, k)
           m == Len(s)
<1>1. /\ Once(t) /\ Len(t) = m - 1 /\ m \in Nat
      /\ \A i \in 0 .. m : Way(t)[i] = IF i < k THEN Way(s)[i] ELSE Way(s)[i + 1]
  BY Without DEF Once
<1> HIDE DEF t
<1>2. \A j \in 0 .. m + 1 : Way(s)[j] \in head .. tail
  BY WayFacts DEF Once
<1>3. \A i, j \in 0 .. m + 1 : Way(s)[i] = Way(s)[j] => i = j
  BY WayOnce
<1>4. Way(s)[k] = s[k]
  BY WayFacts DEF Once
<1>5. ASSUME NEW i \in 0 .. m - 1 PROVE new[Way(t)[i + 1]] = Way(t)[i]
  <2>1. CASE i = k - 1
    BY <1>1, <2>1
  <2>2. CASE i # k - 1
    <3> DEFINE j == IF i < k THEN i ELSE i + 1
    <3>1. j \in 0 .. m /\ j + 1 # k /\ j # k /\ Way(t)[i] = Way(s)[j] /\ Way(t)[i + 1] = Way(s)[j + 1]
      BY <1>1, <2>2
    <3> HIDE DEF j
    <3>2. Way(s)[j + 1] \in (head .. tail) \ {s[k], Way(s)[k + 1]}
      <4>1. j + 1 \in 0 .. m + 1 /\ k \in 0 .. m + 1 /\ k + 1 \in 0 .. m + 1 /\ j + 1 # k + 1
        BY <1>1, <3>1
      <4> QED BY <1>2, <1>3, <1>4, <3>1, <4>1
    <3>3. old[Way(s)[j + 1]] = Way(s)[j]
      BY <3>1 DEF LeadsBack
    <3> QED BY <3>1, <3>2, <3>3
  <2> QED BY <2>1, <2>2
<1> QED BY <1>1, <1>5 DEF LeadsBack, t

\* An entry follows the last one.
LEMMA FollowOn ==
  ASSUME NEW t, Once(t), NEW n \in Nodes \ ToSet(t), NEW old \in Links, LeadsOn(old, t), NEW new,
         new[Way(t)[Len(t)]] = n, new[n] = tail,
         \A p \in (head .. tail) \ {n, Way(t)[Len(t)]} : new[p] = old[p]
  PROVE  LeadsOn(new, Append(t, n))
<1> DEFINE u == Append(t, n)
           m == Len(t)
<1>1. /\ Len(u) = m + 1 /\ m \in Nat /\ t \in Seq(Nodes)
      /\ \A i \in 0 .. m : Way(u)[i] = Way(t)[i]
      /\ Way(u)[m + 1] = n /\ Way(u)[m + 2] = tail
  BY With DEF Once
<1> HIDE DEF u
<1>2. ASSUME NEW i \in 0 .. m + 1 PROVE new[Way(u)[i]] = Way(u)[i + 1]
  <2>1. CASE i = m + 1
    BY <1>1, <2>1
  <2>2. CASE i = m
    BY <1>1, <2>2
  <2>3. CASE i # m /\ i # m + 1
    <3>1. i \in 0 .. m /\ i + 1 \in 0 .. m /\ i \in 0 .. m + 1 /\ m \in 0 .. m + 1
      BY <1>1, <2>3
    <3>2. Way(t)[i] # n /\ Way(t)[i] # Way(t)[m] /\ Way(t)[i] \in head .. tail
      BY <1>1, <2>3, <3>1, NotOnWay, WayOnce, WayFacts
    <3>3. old[Way(t)[i]] = Way(t)[i + 1]
      BY <3>1 DEF LeadsOn
    <3> QED BY <1>1, <3>1, <3>2, <3>3
  <2> QED BY <2>1, <2>2, <2>3
<1> QED BY <1>1, <1>2 DEF LeadsOn, u

LEMMA FollowBack ==
  ASSUME NEW t, Once(t), NEW n \in Nodes \ ToSet(t), NEW old \in Links, LeadsBack(old, t), NEW new,
         new[n] = Way(t)[Len(t)], new[tail] = n,
         \A p \in (head .. tail) \ {n, tail} : new[p] = old[p]
  PROVE  LeadsBack(new, Append(t, n))
<1> DEFINE u == Append(t, n)
           m == Len(t)
<1>1. /\ Len(u) = m + 1 /\ m \in Nat /\ t \in Seq(Nodes)
      /\ \A i \in 0 .. m : Way(u)[i] = Way(t)[i]
      /\ Way(u)[m + 1] = n /\ Way(u)[m + 2] = tail
  BY With DEF Once
<1> HIDE DEF u
<1>2. ASSUME NEW i \in 0 .. m + 1 PROVE new[Way(u)[i + 1]] = Way(u)[i]
  <2>1. CASE i = m + 1
    BY <1>1, <2>1
  <2>2. CASE i = m
    BY <1>1, <2>2
  <2>3. CASE i # m /\ i # m + 1
    <3>1. i \in 0 .. m /\ i + 1 \in 0 .. m /\ i + 1 \in 0 .. m + 1 /\ m + 1 \in 0 .. m + 1 /\ i + 1 # m + 1
      BY <1>1, <2>3
    <3>2. Way(t)[i + 1] # n /\ Way(t)[i + 1] # Way(t)[m + 1] /\ Way(t)[i + 1] \in head .. tail /\ Way(t)[m + 1] = tail
      BY <1>1, <3>1, NotOnWay, WayOnce, WayFacts
    <3>3. old[Way(t)[i + 1]] = Way(t)[i]
      BY <3>1 DEF LeadsBack
    <3> QED BY <1>1, <3>1, <3>2, <3>3
  <2> QED BY <2>1, <2>2, <2>3
<1> QED BY <1>1, <1>2 DEF LeadsBack, u

\* A pointer of an entry that is not in the order does not matter.
LEMMA OutsideOn ==
  ASSUME NEW t \in Seq(Nodes), NEW n \in Nodes \ ToSet(t), NEW old, LeadsOn(old, t), NEW new,
         \A p \in (head .. tail) \ {n} : new[p] = old[p]
  PROVE  LeadsOn(new, t)
<1> SUFFICES ASSUME NEW i \in 0 .. Len(t) PROVE new[Way(t)[i]] = Way(t)[i + 1]
  BY DEF LeadsOn
<1>1. i \in 0 .. Len(t) + 1
  OBVIOUS
<1>2. Way(t)[i] \in (head .. tail) \ {n}
  BY <1>1, NotOnWay, WayFacts
<1> QED BY <1>2 DEF LeadsOn

LEMMA OutsideBack ==
  ASSUME NEW t \in Seq(Nodes), NEW n \in Nodes \ ToSet(t), NEW old, LeadsBack(old, t), NEW new,
         \A p \in (head .. tail) \ {n} : new[p] = old[p]
  PROVE  LeadsBack(new, t)
<1> SUFFICES ASSUME NEW i \in 0 .. Len(t) PROVE new[Way(t)[i + 1]] = Way(t)[i]
  BY DEF LeadsBack
<1>1. i + 1 \in 0 .. Len(t) + 1
  OBVIOUS
<1>2. Way(t)[i + 1] \in (head .. tail) \ {n}
  BY <1>1, NotOnWay, WayFacts
<1> QED BY <1>2 DEF LeadsBack

LEMMA OnceShort == ASSUME NEW s, Once(s) PROVE Len(s) \in Nat /\ Len(s) <= MaxNodes
<1>1. s \in Seq(Nodes) /\ Len(s) \in Nat /\ s \in [1 .. Len(s) -> Nodes]
  BY DEF Once
<1>2. s \in Injection(1 .. Len(s), Nodes)
  BY <1>1 DEF Once, Injection, IsInjective
<1>3. IsFiniteSet(Nodes) /\ Cardinality(Nodes) = MaxNodes /\ Cardinality(1 .. Len(s)) = Len(s)
  BY <1>1, Places, Count DEF Nodes
<1>4. Cardinality(1 .. Len(s)) <= Cardinality(Nodes)
  BY <1>2, <1>3, FS_Injection
<1> QED BY <1>1, <1>3, <1>4

\* Who follows next__ from head_ finds the entries in their order.
LEMMA ChainIs ==
  ASSUME NEW l \in Lists, NEW s, Once(s), LeadsOn(l.next, s)
  PROVE  Chain(l) = s
<1> DEFINE m == Len(s)
<1>1. PICK f \in [Nat -> Pointers] :
         /\ f[0] = l.next[head]
         /\ \A i \in Nat : f[i + 1] = IF f[i] \in Nodes THEN l.next[f[i]] ELSE f[i]
         /\ Chain(l) = [i \in {k \in Nodes : f[k - 1] \in Nodes} |-> f[i - 1]]
  BY ChainSteps
<1>2. /\ s \in Seq(Nodes) /\ m \in Nat /\ m <= MaxNodes /\ Way(s)[0] = head /\ Way(s)[m + 1] = tail
      /\ \A i \in 1 .. m : Way(s)[i] = s[i] /\ s[i] \in Nodes
  BY OnceShort, WayFacts DEF Once
<1>3. \A i \in 0 .. m : l.next[Way(s)[i]] = Way(s)[i + 1]
  BY DEF LeadsOn
<1> HIDE DEF m
<1> DEFINE P == {i \in Nat : IF i <= m THEN f[i] = Way(s)[i + 1] ELSE f[i] = tail}
<1>4. 0 \in P
  <2>1. 0 \in 0 .. m /\ 0 <= m
    BY <1>2
  <2>2. f[0] = Way(s)[0 + 1]
    BY <1>1, <1>2, <1>3, <2>1
  <2> QED BY <2>1, <2>2
<1>5. ASSUME NEW i \in P PROVE i + 1 \in P
  <2>1. i \in Nat /\ i + 1 \in Nat /\ f[i + 1] = IF f[i] \in Nodes THEN l.next[f[i]] ELSE f[i]
    BY <1>1
  <2>2. CASE i + 1 <= m
    <3>1. i <= m /\ i + 1 \in 1 .. m /\ i + 1 \in 0 .. m
      BY <1>2, <2>1, <2>2
    <3>2. f[i] = Way(s)[i + 1] /\ f[i] \in Nodes
      BY <1>2, <3>1
    <3>3. l.next[Way(s)[i + 1]] = Way(s)[(i + 1) + 1]
      BY <1>3, <3>1
    <3> QED BY <2>1, <2>2, <3>2, <3>3
  <2>3. CASE ~(i + 1 <= m)
    <3>1. f[i] = tail
      BY <1>2, <2>1, <2>3
    <3>2. f[i + 1] = tail
      BY <2>1, <3>1, Places
    <3> QED BY <2>1, <2>3, <3>2
  <2> QED BY <2>2, <2>3
<1>6. P = Nat
  <2>1. P \in SUBSET Nat
    OBVIOUS
  <2> HIDE DEF P
  <2> QED BY <1>4, <1>5, <2>1, SetInduction
<1>7. \A i \in Nat : IF i <= m THEN f[i] = Way(s)[i + 1] ELSE f[i] = tail
  BY <1>6
<1> HIDE DEF P
<1>8. \A k \in 1 .. m : f[k - 1] = s[k]
  <2> SUFFICES ASSUME NEW k \in 1 .. m PROVE f[k - 1] = s[k]
    OBVIOUS
  <2>1. k - 1 \in Nat /\ k - 1 <= m /\ (k - 1) + 1 = k
    BY <1>2
  <2> QED BY <1>2, <1>7, <2>1
<1>9. {k \in Nodes : f[k - 1] \in Nodes} = 1 .. m
  <2>1. ASSUME NEW k \in Nodes, f[k - 1] \in Nodes PROVE k \in 1 .. m
    <3>1. k \in Nat /\ k >= 1
      BY Places DEF Nodes
    <3>2. CASE k <= m
      BY <3>1, <3>2
    <3>3. CASE ~(k <= m)
      <4>1. k - 1 \in Nat /\ (k - 1 <= m => k - 1 = m)
        BY <1>2, <3>1, <3>3
      <4>2. f[k - 1] = tail
        BY <1>2, <1>7, <4>1
      <4> QED BY <2>1, <4>2, Places
    <3> QED BY <3>2, <3>3
  <2>2. ASSUME NEW k \in 1 .. m PROVE k \in Nodes /\ f[k - 1] \in Nodes
    <3>1. k \in Nodes
      BY <1>2, Places DEF Nodes
    <3> QED BY <1>2, <1>8, <3>1
  <2> QED BY <2>1, <2>2
<1>10. Chain(l) = [i \in 1 .. m |-> s[i]]
  BY <1>1, <1>8, <1>9
<1> QED BY <1>2, <1>10 DEF m

-----------------------------------------------------------------------------
(* One pointer at a time.  While an entry n = s[k] is moved the list is       *)
(* neither in the old order nor in the new: the two directions change one     *)
(* after the other, and n is in neither of them for a while.                  *)

LastOf(t) == Way(t)[Len(t)]
Half(l, s, k, j) ==
  LET n == s[k]
      t == RemoveAt(s, k)
  IN /\ j = 1 => LeadsOn(l.next, s)
     /\ j \in 2 .. 7 => LeadsOn(l.next, t)
     /\ j = 8 => LeadsOn(l.next, Append(t, n))
     /\ j \in 1 .. 2 => LeadsBack(l.prev, s)
     /\ j \in 3 .. 8 => LeadsBack(l.prev, t)
     /\ j = 2 => l.next[n] = Way(s)[k + 1]
     /\ j \in 6 .. 8 => l.prev[n] = LastOf(t)
     /\ j = 7 => l.next[n] = tail

\* Where the entry stands, and where it goes.
LEMMA Neighbours ==
  ASSUME NEW s, Once(s), NEW k \in 1 .. Len(s)
  PROVE  LET n == s[k]
             t == RemoveAt(s, k)
         IN /\ n \in Nodes \ ToSet(t) /\ Once(t) /\ t \in Seq(Nodes)
            /\ Way(s)[k] = n /\ Way(s)[k - 1] \in (head .. tail) \ {n} /\ Way(s)[k + 1] \in (head .. tail) \ {n}
            /\ LastOf(t) \in (head .. tail) \ {n, tail} /\ Way(t)[Len(t) + 1] = tail
            /\ k - 1 \in 0 .. Len(s) /\ k \in 0 .. Len(s) /\ (k - 1) + 1 = k /\ Len(t) \in 0 .. Len(t)
<1> DEFINE n == s[k]
           t == RemoveAt(s, k)
<1>1. Once(t) /\ ToSet(t) = ToSet(s) \ {n} /\ n \in Nodes
  BY Without
<1>2. n \in Nodes \ ToSet(t)
  BY <1>1
<1>3. k - 1 \in 0 .. Len(s) /\ k \in 0 .. Len(s) /\ (k - 1) + 1 = k
  BY DEF Once
<1>4. Way(s)[k] = n /\ Way(s)[k - 1] \in (head .. tail) \ {n} /\ Way(s)[k + 1] \in (head .. tail) \ {n}
  <2>1. k - 1 \in 0 .. Len(s) + 1 /\ k \in 0 .. Len(s) + 1 /\ k + 1 \in 0 .. Len(s) + 1 /\ k - 1 # k /\ k + 1 # k
    BY DEF Once
  <2>2. Way(s)[k - 1] \in head .. tail /\ Way(s)[k + 1] \in head .. tail /\ Way(s)[k] = n
    BY <2>1, WayFacts DEF Once
  <2>3. Way(s)[k - 1] # Way(s)[k] /\ Way(s)[k + 1] # Way(s)[k]
    BY <2>1, WayOnce
  <2> QED BY <2>2, <2>3
<1> HIDE DEF n, t
<1>5. LastOf(t) \in (head .. tail) \ {n, tail} /\ Way(t)[Len(t) + 1] = tail /\ Len(t) \in 0 .. Len(t)
  <2>1. /\ t \in Seq(Nodes) /\ Len(t) \in 0 .. Len(t) + 1 /\ Len(t) + 1 \in 0 .. Len(t) + 1
        /\ Len(t) # Len(t) + 1 /\ Len(t) \in 0 .. Len(t)
    BY <1>1 DEF Once
  <2>2. Way(t)[Len(t)] \in head .. tail /\ Way(t)[Len(t) + 1] = tail
    BY <2>1, WayFacts
  <2>3. Way(t)[Len(t)] # Way(t)[Len(t) + 1]
    BY <1>1, <2>1, WayOnce
  <2>4. Way(t)[Len(t)] # n
    BY <1>2, <2>1, NotOnWay
  <2> QED BY <2>1, <2>2, <2>3, <2>4 DEF LastOf
<1> QED BY <1>1, <1>2, <1>3, <1>4, <1>5 DEF n, t, Once

\* Each pointer is written through an entry that is there, and takes the list
\* halfway to the next; after the last the new order holds.
LEMMA HalfStep ==
  ASSUME NEW l \in Lists, NEW s, Once(s), NEW k \in 1 .. Len(s), NEW j \in 1 .. 8, Half(l, s, k, j),
         NEW n, n = s[k], NEW t, t = RemoveAt(s, k), NEW m, m = Written(l, n, j), NEW w, w = Writes(l, n)[j]
  PROVE  /\ w[2] # null
         /\ j < 8 => Half(m, s, k, j + 1)
         /\ j = 8 => Orders(m, Append(t, n))
<1>1. /\ n \in Nodes \ ToSet(t) /\ Once(t) /\ t \in Seq(Nodes)
      /\ Way(s)[k] = n /\ Way(s)[k - 1] \in (head .. tail) \ {n} /\ Way(s)[k + 1] \in (head .. tail) \ {n}
      /\ LastOf(t) \in (head .. tail) \ {n, tail} /\ Way(t)[Len(t) + 1] = tail
      /\ k - 1 \in 0 .. Len(s) /\ k \in 0 .. Len(s) /\ (k - 1) + 1 = k /\ Len(t) \in 0 .. Len(t)
  BY Neighbours
<1>2. /\ n \in (head .. tail) \ {tail, null} /\ tail \in head .. tail /\ null \notin head .. tail
      /\ l.next \in Links /\ l.prev \in Links /\ head .. tail \subseteq Pointers
  BY <1>1, Places DEF Lists, Links
<1>3. /\ w[1] = "next" => m.next = [l.next EXCEPT ![w[2]] = w[3]] /\ m.prev = l.prev
      /\ w[1] = "prev" => m.prev = [l.prev EXCEPT ![w[2]] = w[3]] /\ m.next = l.next
  <2>1. m = [l EXCEPT ![w[1]] = [l[w[1]] EXCEPT ![w[2]] = w[3]]]
    BY DEF Written
  <2> QED BY <2>1 DEF Lists
<1>4. w = << <<"next", l.prev[n], l.next[n]>>,
             <<"prev", l.next[n], l.prev[n]>>,
             <<"prev", n, null>>,
             <<"next", n, null>>,
             <<"prev", n, l.prev[tail]>>,
             <<"next", n, tail>>,
             <<"next", l.prev[tail], n>>,
             <<"prev", tail, n>> >>[j]
  BY DEF Writes
<1>5. /\ j = 1 => LeadsOn(l.next, s)
      /\ j \in 2 .. 7 => LeadsOn(l.next, t)
      /\ j = 8 => LeadsOn(l.next, Append(t, n))
      /\ j \in 1 .. 2 => LeadsBack(l.prev, s)
      /\ j \in 3 .. 8 => LeadsBack(l.prev, t)
      /\ j = 2 => l.next[n] = Way(s)[k + 1]
      /\ j \in 6 .. 8 => l.prev[n] = LastOf(t)
      /\ j = 7 => l.next[n] = tail
  BY DEF Half
<1>6. LeadsOn(l.next, s) => l.next[n] = Way(s)[k + 1]
  BY <1>1 DEF LeadsOn
<1>7. LeadsBack(l.prev, s) => l.prev[n] = Way(s)[k - 1]
  BY <1>1 DEF LeadsBack
<1>8. LeadsBack(l.prev, t) => l.prev[tail] = LastOf(t)
  BY <1>1 DEF LeadsBack, LastOf
<1>10. ASSUME NEW q \in Links, LeadsOn(q, t), NEW v \in Pointers PROVE LeadsOn([q EXCEPT ![n] = v], t)
  <2>1. PICK r \in Links : r = [q EXCEPT ![n] = v]
    BY <1>10 DEF Links
  <2>2. \A p \in (head .. tail) \ {n} : r[p] = q[p]
    BY <2>1 DEF Links
  <2>3. LeadsOn(r, t)
    BY <1>1, <1>10, <2>2, OutsideOn
  <2> QED BY <2>1, <2>3
<1>11. ASSUME NEW q \in Links, LeadsBack(q, t), NEW v \in Pointers PROVE LeadsBack([q EXCEPT ![n] = v], t)
  <2>1. PICK r \in Links : r = [q EXCEPT ![n] = v]
    BY <1>11 DEF Links
  <2>2. \A p \in (head .. tail) \ {n} : r[p] = q[p]
    BY <2>1 DEF Links
  <2>3. LeadsBack(r, t)
    BY <1>1, <1>11, <2>2, OutsideBack
  <2> QED BY <2>1, <2>3
<1>12. CASE j = 1
  <2>1. w = <<"next", Way(s)[k - 1], Way(s)[k + 1]>>
    BY <1>4, <1>5, <1>6, <1>7, <1>12
  <2>2. m.next = [l.next EXCEPT ![Way(s)[k - 1]] = Way(s)[k + 1]] /\ m.prev = l.prev
    BY <1>3, <2>1
  <2>3. /\ m.next[Way(s)[k - 1]] = Way(s)[k + 1] /\ m.next[n] = Way(s)[k + 1]
        /\ \A p \in (head .. tail) \ {n, Way(s)[k - 1]} : m.next[p] = l.next[p]
    BY <1>1, <1>2, <1>5, <1>6, <1>12, <2>2, ZenonT(30) DEF Links
  <2>4. LeadsOn(m.next, t)
    BY <1>2, <1>5, <1>12, <2>3, SkipOn
  <2>5. Half(m, s, k, 2)
    BY <1>5, <1>12, <2>2, <2>3, <2>4 DEF Half
  <2> QED BY <1>1, <1>2, <1>12, <2>1, <2>5, SMTT(30)
<1>13. CASE j = 2
  <2>1. w = <<"prev", Way(s)[k + 1], Way(s)[k - 1]>>
    BY <1>4, <1>5, <1>7, <1>13
  <2>2. m.prev = [l.prev EXCEPT ![Way(s)[k + 1]] = Way(s)[k - 1]] /\ m.next = l.next
    BY <1>3, <2>1
  <2>3. /\ m.prev[Way(s)[k + 1]] = Way(s)[k - 1]
        /\ \A p \in (head .. tail) \ {n, Way(s)[k + 1]} : m.prev[p] = l.prev[p]
    BY <1>1, <1>2, <2>2 DEF Links
  <2>4. LeadsBack(m.prev, t)
    BY <1>2, <1>5, <1>13, <2>3, SkipBack
  <2>5. Half(m, s, k, 3)
    BY <1>5, <1>13, <2>2, <2>4 DEF Half
  <2> QED BY <1>1, <1>2, <1>13, <2>1, <2>5, SMTT(30)
<1>14. CASE j = 3
  <2>1. w = <<"prev", n, null>>
    BY <1>4, <1>14
  <2>2. m.prev = [l.prev EXCEPT ![n] = null] /\ m.next = l.next
    BY <1>3, <2>1
  <2>3. LeadsBack(m.prev, t)
    BY <1>2, <1>5, <1>11, <1>14, <2>2, Places
  <2>5. Half(m, s, k, 4)
    BY <1>5, <1>14, <2>2, <2>3 DEF Half
  <2> QED BY <1>2, <1>14, <2>1, <2>5
<1>15. CASE j = 4
  <2>1. w = <<"next", n, null>>
    BY <1>4, <1>15
  <2>2. m.next = [l.next EXCEPT ![n] = null] /\ m.prev = l.prev
    BY <1>3, <2>1
  <2>3. LeadsOn(m.next, t)
    BY <1>2, <1>5, <1>10, <1>15, <2>2, Places
  <2>5. Half(m, s, k, 5)
    BY <1>5, <1>15, <2>2, <2>3 DEF Half
  <2> QED BY <1>2, <1>15, <2>1, <2>5
<1>16. CASE j = 5
  <2>1. w = <<"prev", n, LastOf(t)>>
    BY <1>4, <1>5, <1>8, <1>16
  <2>2. m.prev = [l.prev EXCEPT ![n] = LastOf(t)] /\ m.next = l.next
    BY <1>3, <2>1
  <2>3. LeadsBack(m.prev, t)
    <3>1. LastOf(t) \in Pointers /\ LeadsBack(l.prev, t)
      BY <1>1, <1>2, <1>5, <1>16
    <3> QED BY <1>2, <1>11, <2>2, <3>1
  <2>4. m.prev[n] = LastOf(t)
    BY <1>2, <2>2 DEF Links
  <2>5. Half(m, s, k, 6)
    BY <1>5, <1>16, <2>2, <2>3, <2>4 DEF Half
  <2> QED BY <1>2, <1>16, <2>1, <2>5
<1>17. CASE j = 6
  <2>1. w = <<"next", n, tail>>
    BY <1>4, <1>17
  <2>2. m.next = [l.next EXCEPT ![n] = tail] /\ m.prev = l.prev
    BY <1>3, <2>1
  <2>3. LeadsOn(m.next, t) /\ m.next[n] = tail
    BY <1>2, <1>5, <1>10, <1>17, <2>2, Places DEF Links
  <2>5. Half(m, s, k, 7)
    BY <1>5, <1>17, <2>2, <2>3 DEF Half
  <2> QED BY <1>2, <1>17, <2>1, <2>5
<1>18. CASE j = 7
  <2>1. w = <<"next", LastOf(t), n>>
    BY <1>4, <1>5, <1>8, <1>18
  <2>2. m.next = [l.next EXCEPT ![LastOf(t)] = n] /\ m.prev = l.prev
    BY <1>3, <2>1
  <2>3. /\ m.next[LastOf(t)] = n /\ m.next[n] = tail
        /\ \A p \in (head .. tail) \ {n, LastOf(t)} : m.next[p] = l.next[p]
    BY <1>1, <1>2, <1>5, <1>18, <2>2, ZenonT(30) DEF Links
  <2>4. LeadsOn(m.next, Append(t, n))
    <3>1. LeadsOn(l.next, t) /\ LastOf(t) = Way(t)[Len(t)]
      BY <1>5, <1>18 DEF LastOf
    <3>2. PICK q \in Links : q = l.next
      BY <1>2
    <3>3. PICK r \in Links : r = m.next
      BY <1>2, <2>2 DEF Links
    <3>4. LeadsOn(q, t) /\ r[Way(t)[Len(t)]] = n /\ r[n] = tail /\ \A p \in (head .. tail) \ {n, Way(t)[Len(t)]} : r[p] = q[p]
      BY <2>3, <3>1, <3>2, <3>3
    <3>5. LeadsOn(r, Append(t, n))
      BY <1>1, <3>4, FollowOn
    <3> QED BY <3>3, <3>5
  <2>5. Half(m, s, k, 8)
    BY <1>5, <1>18, <2>2, <2>4 DEF Half
  <2> QED BY <1>1, <1>2, <1>18, <2>1, <2>5
<1>19. CASE j = 8
  <2>1. w = <<"prev", tail, n>>
    BY <1>4, <1>19
  <2>2. m.prev = [l.prev EXCEPT ![tail] = n] /\ m.next = l.next
    BY <1>3, <2>1
  <2>3. m.prev[tail] = n /\ m.prev[n] = LastOf(t) /\ \A p \in (head .. tail) \ {n, tail} : m.prev[p] = l.prev[p]
    <3>1. l.prev[n] = LastOf(t)
      BY <1>5, <1>19
    <3> QED BY <1>2, <2>2, <3>1 DEF Links
  <2>4. LeadsBack(m.prev, Append(t, n))
    <3>1. LeadsBack(l.prev, t) /\ LastOf(t) = Way(t)[Len(t)]
      BY <1>5, <1>19 DEF LastOf
    <3>2. PICK q \in Links : q = l.prev
      BY <1>2
    <3>3. PICK r \in Links : r = m.prev
      BY <1>1, <1>2, <2>2 DEF Links
    <3>4. LeadsBack(q, t) /\ r[n] = Way(t)[Len(t)] /\ r[tail] = n /\ \A p \in (head .. tail) \ {n, tail} : r[p] = q[p]
      BY <2>3, <3>1, <3>2, <3>3
    <3>5. LeadsBack(r, Append(t, n))
      BY <1>1, <3>4, FollowBack
    <3> QED BY <3>3, <3>5
  <2> QED BY <1>2, <1>5, <1>19, <2>1, <2>2, <2>4 DEF Orders
<1>20. j = 1 \/ j = 2 \/ j = 3 \/ j = 4 \/ j = 5 \/ j = 6 \/ j = 7 \/ j = 8
  OBVIOUS
<1> QED BY <1>12, <1>13, <1>14, <1>15, <1>16, <1>17, <1>18, <1>19, <1>20

LEMMA HalfOn ==
  ASSUME NEW l \in Lists, NEW s, Once(s), NEW k \in 1 .. Len(s), NEW j \in 1 .. 8, Half(l, s, k, j)
  PROVE  /\ Writes(l, s[k])[j][2] # null
         /\ j < 8 => Half(Written(l, s[k], j), s, k, j + 1)
         /\ j = 8 => Orders(Written(l, s[k], j), Append(RemoveAt(s, k), s[k]))
BY HalfStep, Zenon

-----------------------------------------------------------------------------
(* All at once, under the unique lock.                                       *)

LEMMA UnlinkOrders ==
  ASSUME NEW l \in Lists, NEW s, Once(s), NEW k \in 1 .. Len(s), Orders(l, s)
  PROVE  Orders(Unlink(l, s[k]), RemoveAt(s, k))
<1>1. PICK n \in Nodes : n = s[k]
  BY DEF Once
<1>2. PICK q \in Links, r \in Links : q = l.next /\ r = l.prev
  BY DEF Lists, Links
<1>3. /\ Way(s)[k] = n /\ Way(s)[k - 1] \in (head .. tail) \ {n} /\ Way(s)[k + 1] \in (head .. tail) \ {n}
      /\ k - 1 \in 0 .. Len(s) /\ k \in 0 .. Len(s) /\ (k - 1) + 1 = k
  BY <1>1, Neighbours
<1>4. q[n] = Way(s)[k + 1] /\ r[n] = Way(s)[k - 1] /\ LeadsOn(q, s) /\ LeadsBack(r, s)
  BY <1>2, <1>3 DEF Orders, LeadsOn, LeadsBack
<1>5. PICK a, b : a = Unlink(l, n).next /\ b = Unlink(l, n).prev
  OBVIOUS
<1>6. /\ a = [q EXCEPT ![Way(s)[k - 1]] = Way(s)[k + 1], ![n] = null]
      /\ b = [r EXCEPT ![Way(s)[k + 1]] = Way(s)[k - 1], ![n] = null]
  BY <1>2, <1>4, <1>5, UnlinkType
<1>7. a[Way(s)[k - 1]] = Way(s)[k + 1] /\ \A p \in (head .. tail) \ {s[k], Way(s)[k - 1]} : a[p] = q[p]
  BY <1>1, <1>3, <1>6 DEF Links
<1>8. b[Way(s)[k + 1]] = Way(s)[k - 1] /\ \A p \in (head .. tail) \ {s[k], Way(s)[k + 1]} : b[p] = r[p]
  BY <1>1, <1>3, <1>6 DEF Links
<1>9. LeadsOn(a, RemoveAt(s, k))
  BY <1>4, <1>7, SkipOn
<1>10. LeadsBack(b, RemoveAt(s, k))
  BY <1>4, <1>8, SkipBack
<1> QED BY <1>1, <1>5, <1>9, <1>10 DEF Orders

LEMMA PushBackOrders ==
  ASSUME NEW l \in Lists, NEW t, Once(t), NEW n \in Nodes \ ToSet(t), Orders(l, t)
  PROVE  Orders(PushBack(l, n), Append(t, n))
<1>1. PICK q \in Links, r \in Links : q = l.next /\ r = l.prev
  BY DEF Lists, Links
<1>2. t \in Seq(Nodes) /\ Len(t) \in 0 .. Len(t) /\ Len(t) \in 0 .. Len(t) + 1 /\ Len(t) + 1 \in 0 .. Len(t) + 1
      /\ Len(t) # Len(t) + 1
  BY DEF Once
<1>3. Way(t)[Len(t) + 1] = tail /\ Way(t)[Len(t)] \in head .. tail
  BY <1>2, WayFacts
<1>4. Way(t)[Len(t)] # tail /\ Way(t)[Len(t)] # n
  BY <1>2, <1>3, WayOnce, NotOnWay
<1>5. r[tail] = Way(t)[Len(t)] /\ LeadsOn(q, t) /\ LeadsBack(r, t)
  BY <1>1, <1>2, <1>3 DEF Orders, LeadsBack
<1>6. PICK a, b : a = PushBack(l, n).next /\ b = PushBack(l, n).prev
  OBVIOUS
<1>7. /\ a = [q EXCEPT ![n] = tail, ![Way(t)[Len(t)]] = n]
      /\ b = [r EXCEPT ![n] = Way(t)[Len(t)], ![tail] = n]
  BY <1>1, <1>5, <1>6, PushBackType
<1>8. n \in head .. tail /\ n # tail /\ tail \in head .. tail
  BY Places
<1>9. /\ a[Way(t)[Len(t)]] = n /\ a[n] = tail
      /\ \A p \in (head .. tail) \ {n, Way(t)[Len(t)]} : a[p] = q[p]
  BY <1>3, <1>4, <1>7, <1>8 DEF Links
<1>10. /\ b[n] = Way(t)[Len(t)] /\ b[tail] = n
       /\ \A p \in (head .. tail) \ {n, tail} : b[p] = r[p]
  BY <1>3, <1>4, <1>7, <1>8 DEF Links
<1>11. LeadsOn(a, Append(t, n))
  BY <1>5, <1>9, FollowOn
<1>12. LeadsBack(b, Append(t, n))
  BY <1>5, <1>10, FollowBack
<1> QED BY <1>6, <1>11, <1>12 DEF Orders

\* What is left of an order after its first entries.
LEMMA RestOnce ==
  ASSUME NEW s, Once(s), NEW k \in 0 .. Len(s)
  PROVE  LET u == SubSeq(s, k + 1, Len(s))
         IN /\ Once(u) /\ Len(u) = Len(s) - k
            /\ ToSet(u) = ToSet(s) \ ToSet(SubSeq(s, 1, k))
            /\ ToSet(SubSeq(s, 1, k)) \subseteq ToSet(s)
<1>1. PICK u, v : u = SubSeq(s, k + 1, Len(s)) /\ v = SubSeq(s, 1, k)
  OBVIOUS
<1>2. PICK m \in Nat : m = Len(s)
  BY DEF Once
<1>3. /\ u \in Seq(Nodes) /\ Len(u) = m - k /\ \A i \in 1 .. m - k : u[i] = s[k + i]
      /\ v \in Seq(Nodes) /\ Len(v) = k /\ \A i \in 1 .. k : v[i] = s[i]
  <2> DEFINE c == SubSeq(s, k + 1, Len(s))
             d == SubSeq(s, 1, k)
  <2>1. s \in Seq(Nodes)
    BY DEF Once
  <2>2. /\ c \in Seq(Nodes) /\ Len(c) = Len(s) - k /\ \A i \in 1 .. Len(s) - k : c[i] = s[k + i]
        /\ d \in Seq(Nodes) /\ Len(d) = k /\ \A i \in 1 .. k : d[i] = s[i]
    BY <2>1, Rest
  <2>3. u = c /\ v = d
    BY <1>1
  <2> HIDE DEF c, d
  <2> QED BY <1>2, <2>2, <2>3
<1>4. \A i, j \in 1 .. m : s[i] = s[j] => i = j
  BY <1>2 DEF Once
<1>5. \A i, j \in 1 .. m - k : u[i] = u[j] => i = j
  <2> SUFFICES ASSUME NEW i \in 1 .. m - k, NEW j \in 1 .. m - k, u[i] = u[j] PROVE i = j
    OBVIOUS
  <2>1. k + i \in 1 .. m /\ k + j \in 1 .. m /\ s[k + i] = s[k + j]
    BY <1>2, <1>3
  <2>2. k + i = k + j
    BY <1>4, <2>1
  <2> QED BY <1>2, <2>2
<1>6. /\ ToSet(s) = {s[i] : i \in 1 .. m} /\ ToSet(u) = {u[i] : i \in 1 .. m - k}
      /\ ToSet(v) = {v[i] : i \in 1 .. k}
  <2>1. DOMAIN s = 1 .. m /\ DOMAIN u = 1 .. m - k /\ DOMAIN v = 1 .. k
    BY <1>2, <1>3 DEF Once
  <2> QED BY <2>1 DEF ToSet
<1>7. \A x \in ToSet(u) : x \in ToSet(s) \ ToSet(v)
  <2> SUFFICES ASSUME NEW i \in 1 .. m - k PROVE u[i] \in ToSet(s) \ ToSet(v)
    BY <1>6
  <2>1. k + i \in 1 .. m /\ u[i] = s[k + i] /\ \A j \in 1 .. k : j \in 1 .. m /\ j # k + i
    BY <1>2, <1>3
  <2>2. \A j \in 1 .. k : v[j] # s[k + i]
    BY <1>3, <1>4, <2>1
  <2> QED BY <1>6, <2>1, <2>2
<1>8. \A x \in ToSet(s) \ ToSet(v) : x \in ToSet(u)
  <2> SUFFICES ASSUME NEW i \in 1 .. m, s[i] \notin ToSet(v) PROVE s[i] \in ToSet(u)
    BY <1>6
  <2>1. ~(i <= k)
    BY <1>3, <1>6
  <2>2. PICK j \in 1 .. m - k : k + j = i
    <3>1. i - k \in 1 .. m - k /\ k + (i - k) = i
      BY <1>2, <2>1
    <3> QED BY <3>1
  <2> QED BY <1>3, <1>6, <2>2
<1>9. ToSet(v) \subseteq ToSet(s)
  <2> SUFFICES ASSUME NEW i \in 1 .. k PROVE v[i] \in ToSet(s)
    BY <1>6
  <2>1. i \in 1 .. m
    BY <1>2
  <2> QED BY <1>3, <1>6, <2>1
<1>10. Once(u)
  BY <1>3, <1>5 DEF Once
<1> QED BY <1>1, <1>2, <1>3, <1>7, <1>8, <1>9, <1>10

LEMMA UnlinkAllOrders ==
  ASSUME NEW l \in Lists, NEW s, Once(s), Orders(l, s), NEW k \in 0 .. Len(s)
  PROVE  UnlinkAll(l, SubSeq(s, 1, k)) \in Lists /\ Orders(UnlinkAll(l, SubSeq(s, 1, k)), SubSeq(s, k + 1, Len(s)))
<1> DEFINE v == SubSeq(s, 1, k)
           rest(i) == SubSeq(s, i + 1, Len(s))
<1>1. s \in Seq(Nodes) /\ Len(s) \in Nat /\ k \in Nat /\ k <= Len(s) /\ rest(0) = s
  BY DEF Once
<1>2. v \in Seq(Nodes) /\ Len(v) = k /\ \A i \in 1 .. k : v[i] = s[i]
  BY <1>1, Rest
<1> HIDE DEF v
<1>3. PICK f \in [0 .. k -> Lists] :
         /\ f[0] = l /\ \A i \in 0 .. k - 1 : f[i + 1] = Unlink(f[i], v[i + 1])
         /\ UnlinkAll(l, v) = f[k]
  BY <1>2, UnlinkAllSteps
<1> DEFINE P == {i \in Nat : i <= k => Orders(f[i], rest(i))}
<1>4. 0 \in P
  BY <1>1, <1>3
<1>5. ASSUME NEW i \in P PROVE i + 1 \in P
  <2>1. i \in Nat
    OBVIOUS
  <2>2. CASE i + 1 <= k
    <3>1. i \in 0 .. k - 1 /\ i \in 0 .. k /\ i <= k /\ i + 1 \in 1 .. k /\ i + 1 \in 1 .. Len(s) /\ i \in 0 .. Len(s)
      BY <1>1, <2>1, <2>2
    <3>2. Orders(f[i], rest(i)) /\ f[i] \in Lists /\ f[i + 1] = Unlink(f[i], s[i + 1])
      BY <1>2, <1>3, <3>1
    <3>3. Once(rest(i)) /\ Len(rest(i)) = Len(s) - i
      BY <3>1, RestOnce
    <3>4. 1 \in 1 .. Len(rest(i)) /\ rest(i)[1] = s[i + 1]
      BY <1>1, <3>1, <3>3
    <3>5. RemoveAt(rest(i), 1) = rest(i + 1)
      BY <1>1, <3>1 DEF RemoveAt
    <3> HIDE DEF rest
    <3>6. Orders(Unlink(f[i], rest(i)[1]), RemoveAt(rest(i), 1))
      BY <3>2, <3>3, <3>4, UnlinkOrders
    <3>7. Orders(f[i + 1], rest(i + 1))
      BY <3>2, <3>4, <3>5, <3>6, Zenon
    <3> QED BY <2>1, <3>7
  <2> QED BY <2>1, <2>2
<1>6. P = Nat
  <2>1. P \in SUBSET Nat
    OBVIOUS
  <2> HIDE DEF P
  <2> QED BY <1>4, <1>5, <2>1, SetInduction
<1>7. Orders(f[k], rest(k))
  <2>1. k \in P
    <3> HIDE DEF P
    <3> QED BY <1>1, <1>6
  <2> HIDE DEF rest
  <2> QED BY <1>1, <2>1
<1>8. f[k] \in Lists
  BY <1>1, <1>3
<1> QED BY <1>3, <1>7, <1>8 DEF v

-----------------------------------------------------------------------------
(* What the list looks like to Order, halfway through a move too.            *)

LEMMA LessWithout ==
  ASSUME NEW s, Once(s), NEW k \in 1 .. Len(s)
  PROVE  Less(s, s[k]) = RemoveAt(s, k)
<1> DEFINE i == CHOOSE i \in DOMAIN s : s[i] = s[k]
<1>1. DOMAIN s = 1 .. Len(s)
  BY DEF Once
<1>2. s[k] \in ToSet(s)
  BY <1>1 DEF ToSet
<1>3. i \in 1 .. Len(s) /\ s[i] = s[k]
  BY <1>1
<1>4. i = k
  BY <1>3 DEF Once
<1> QED BY <1>2, <1>4 DEF Less

LEMMA LessSame ==
  ASSUME NEW s, NEW n, n \notin ToSet(s)
  PROVE  Less(s, n) = s
BY DEF Less

LEMMA LessLast ==
  ASSUME NEW t, Once(t), NEW n \in Nodes \ ToSet(t)
  PROVE  Less(Append(t, n), n) = t
<1>1. PICK u : u = Append(t, n)
  OBVIOUS
<1>2. Once(u) /\ Len(u) = Len(t) + 1 /\ u[Len(u)] = n /\ Len(t) \in Nat
  BY <1>1, With DEF Once
<1>3. Less(u, n) = RemoveAt(u, Len(u))
  <2>1. Len(u) \in 1 .. Len(u)
    BY <1>2
  <2>2. Less(u, u[Len(u)]) = RemoveAt(u, Len(u))
    BY <1>2, <2>1, LessWithout
  <2> QED BY <1>2, <2>2
<1>4. u \in Seq(Nodes) /\ t \in Seq(Nodes) /\ \A i \in 1 .. Len(t) : u[i] = t[i]
  BY <1>1, <1>2, Appended DEF Once
<1>5. RemoveAt(u, Len(u)) = t
  <2>1. PICK v : v = RemoveAt(u, Len(u))
    OBVIOUS
  <2>2. /\ v \in Seq(Nodes) /\ Len(v) = Len(t)
        /\ \A i \in 1 .. Len(t) : v[i] = u[i]
    <3>1. Len(u) \in 1 .. Len(u)
      BY <1>2
    <3>2. /\ RemoveAt(u, Len(u)) \in Seq(Nodes) /\ Len(RemoveAt(u, Len(u))) = Len(u) - 1
          /\ \A i \in 1 .. Len(u) - 1 : RemoveAt(u, Len(u))[i] = IF i < Len(u) THEN u[i] ELSE u[i + 1]
      BY <1>4, <3>1, RemovedAt
    <3> QED BY <1>2, <2>1, <3>2
  <2>3. v = t
    BY <1>4, <2>2, SameElements
  <2> QED BY <2>1, <2>3
<1> QED BY <1>1, <1>3, <1>5

LEMMA HalfLess ==
  ASSUME NEW l \in Lists, NEW s, Once(s), NEW k \in 1 .. Len(s), NEW j \in 1 .. 8, Half(l, s, k, j)
  PROVE  Less(Chain(l), s[k]) = RemoveAt(s, k)
<1>1. PICK n, t : n = s[k] /\ t = RemoveAt(s, k)
  OBVIOUS
<1>2. n \in Nodes \ ToSet(t) /\ Once(t)
  BY <1>1, Neighbours
<1>3. CASE j = 1
  <2>1. Chain(l) = s
    BY <1>3, ChainIs DEF Half
  <2> QED BY <2>1, LessWithout
<1>4. CASE j \in 2 .. 7
  <2>1. LeadsOn(l.next, t)
    BY <1>1, <1>4 DEF Half
  <2>2. Chain(l) = t
    BY <1>2, <2>1, ChainIs
  <2> QED BY <1>1, <1>2, <2>2, LessSame
<1>5. CASE j = 8
  <2>1. PICK u : u = Append(t, n)
    OBVIOUS
  <2>2. LeadsOn(l.next, u) /\ Once(u)
    BY <1>1, <1>2, <1>5, <2>1, With DEF Half
  <2>3. Chain(l) = u
    BY <2>2, ChainIs
  <2> QED BY <1>1, <1>2, <2>1, <2>3, LessLast
<1> QED BY <1>3, <1>4, <1>5

-----------------------------------------------------------------------------
(* One reader.  The entries that exist have an order at all times: next__    *)
(* and prev__ follow it between two moves, and during a move they are        *)
(* halfway from the order before it.                                         *)

\* One move at a time, which is so until two overlap.
Alone == \A r, q \in Moving : r = q

Halfway(u, r) == \E s \in Seq(Nodes), k \in Nodes :
                    /\ Once(s) /\ k \in 1 .. Len(s) /\ s[k] = map[want[r]]
                    /\ u = Append(RemoveAt(s, k), s[k])
                    /\ Half(list, s, k, step[r])

Ordered(u) == /\ Once(u) /\ ToSet(u) = Allocated
              /\ \A n \in Allocated : buf[n] \in Lengths
              /\ IF Moving = {} THEN Orders(list, u) ELSE \A r \in Moving : Halfway(u, r)

\* What a step does to the order: what Recency says.
From(u, i) == SubSeq(u, i + 1, Len(u))
Stays(u, v) == v = u /\ \A n \in ToSet(u) : buf'[n] = buf[n]
Used(u, v) == \E k \in 1 .. Len(u) :
                 /\ v = Append(RemoveAt(u, k), u[k])
                 /\ \A n \in Nodes \ {u[k]} : buf'[n] = buf[n]
Entered(u, v) == \E i \in 0 .. Len(u), n \in Nodes \ Allocated :
                    /\ v = Append(From(u, i), n)
                    /\ Held(buf, ToSet(From(u, i))) + buf'[n] <= Capacity
                    /\ i > 0 => Held(buf, ToSet(From(u, i - 1))) + buf'[n] > Capacity
                    /\ \A m \in ToSet(From(u, i)) : buf'[m] = buf[m]
LeftOut(u, v) == \E k \in 1 .. Len(u) : v = RemoveAt(u, k) /\ \A n \in Nodes \ {u[k]} : buf'[n] = buf[n]
Turn(u, v) == Stays(u, v) \/ Used(u, v) \/ Entered(u, v) \/ LeftOut(u, v)

LEMMA OrderIs ==
  ASSUME Sound, NEW u, Ordered(u)
  PROVE  Order = u
<1>1. list \in Lists /\ Once(u)
  BY DEF Sound, Counted, Ordered
<1>2. CASE Moving = {}
  <2>1. Chain(list) = u
    BY <1>1, <1>2, ChainIs DEF Ordered, Orders
  <2> QED BY <1>2, <2>1 DEF Order
<1>3. CASE Moving # {}
  <2>1. PICK r \in Moving : r = CHOOSE q \in Moving : TRUE
    BY <1>3
  <2>2. Halfway(u, r)
    BY <1>3, <2>1 DEF Ordered
  <2>3. step[r] \in 1 .. 8
    BY <2>1, ConstantFacts DEF Moving, Sound, Locked
  <2>4. PICK s \in Seq(Nodes), k \in Nodes :
           /\ Once(s) /\ k \in 1 .. Len(s) /\ s[k] = map[want[r]]
           /\ u = Append(RemoveAt(s, k), s[k])
           /\ Half(list, s, k, step[r])
    BY <2>2 DEF Halfway
  <2>5. Less(Chain(list), s[k]) = RemoveAt(s, k)
    BY <1>1, <2>3, <2>4, HalfLess
  <2>6. Order = Append(Less(Chain(list), map[want[r]]), map[want[r]])
    BY <1>3, <2>1 DEF Order
  <2> QED BY <2>4, <2>5, <2>6
<1> QED BY <1>2, <1>3

LEMMA OrderedInit == Init => Ordered(<<>>)
<1> SUFFICES ASSUME Init PROVE Ordered(<<>>)
  OBVIOUS
<1>1. PICK u \in Seq(Nodes) : u = <<>>
  <2>1. <<>> \in Seq(Nodes)
    OBVIOUS
  <2> QED BY <2>1
<1>2. Once(u) /\ ToSet(u) = {} /\ Len(u) = 0 /\ Way(u)[0] = head /\ Way(u)[1] = tail
  BY <1>1 DEF Once, ToSet, Way
<1>3. Allocated = {} /\ Moving = {}
  BY ConstantFacts DEF Init, Allocated, Moving
<1>4. list.next[head] = tail /\ list.prev[tail] = head
  BY Places DEF Init
<1>5. Orders(list, u)
  BY <1>2, <1>4 DEF Orders, LeadsOn, LeadsBack
<1> QED BY <1>1, <1>2, <1>3, <1>5 DEF Ordered

\* Nothing of the list changes while nobody moves, or no reader does anything.
LEMMA OrderedStill ==
  ASSUME NEW u, Ordered(u), UNCHANGED <<key, buf, list>>, Moving = {}, Moving' = {}
  PROVE  Ordered(u)' /\ Turn(u, u)
BY DEF Ordered, Allocated, Turn, Stays

\* Nothing of the list changes, nor of a move that is under way.
LEMMA OrderedAside ==
  ASSUME NEW u, Ordered(u), UNCHANGED <<map, key, buf, list>>, Moving' = Moving,
         \A r \in Moving : want'[r] = want[r] /\ step'[r] = step[r]
  PROVE  Ordered(u)' /\ Turn(u, u)
<1>1. \A r \in Moving : Halfway(u, r) => Halfway(u, r)'
  BY DEF Halfway
<1> QED BY <1>1 DEF Ordered, Allocated, Turn, Stays

LEMMA OrderedSame ==
  ASSUME NEW u, Ordered(u), UNCHANGED <<map, key, buf, list>>,
         \A r \in Readers : at'[r] = at[r] /\ want'[r] = want[r] /\ step'[r] = step[r]
  PROVE  Ordered(u)' /\ Turn(u, u)
<1>1. Moving' = Moving /\ \A r \in Moving : want'[r] = want[r] /\ step'[r] = step[r]
  BY DEF Moving
<1> QED BY <1>1, OrderedAside

\* Who has the unique lock is alone.
LEMMA NobodyMoves ==
  ASSUME Sound, NEW t \in Threads, at[t] = "read" \/ LockFree,
         \/ at' = at \/ at' = [at EXCEPT ![t] = "idle"] \/ at' = [at EXCEPT ![t] = "read"]
  PROVE  Moving = {} /\ Moving' = {}
<1>1. \A r \in Readers : at[r] # "move"
  BY ConstantFacts DEF LockFree, Sound, Locked
<1>2. \A r \in Readers : at'[r] # "move"
  BY <1>1, ConstantFacts DEF Sound, Inv, Types
<1> QED BY <1>1, <1>2 DEF Moving

\* Where an entry stands in the order.
LEMMA PlaceOf ==
  ASSUME NEW u, Ordered(u), NEW n \in Allocated
  PROVE  \E k \in 1 .. Len(u) : u[k] = n
<1>1. DOMAIN u = 1 .. Len(u) /\ ToSet(u) = Allocated
  BY DEF Ordered, Once
<1> QED BY <1>1 DEF ToSet

\* An entry of an order at its end.
LEMMA ToEnd ==
  ASSUME NEW u, Once(u), NEW k \in 1 .. Len(u)
  PROVE  LET v == Append(RemoveAt(u, k), u[k])
         IN Once(v) /\ ToSet(v) = ToSet(u)
<1>1. PICK n, t : n = u[k] /\ t = RemoveAt(u, k)
  OBVIOUS
<1>2. n \in Nodes \ ToSet(t) /\ Once(t) /\ ToSet(t) = ToSet(u) \ {n} /\ n \in ToSet(u)
  <2>1. n \in ToSet(u)
    BY <1>1 DEF ToSet, Once
  <2>2. u[k] \in Nodes \ ToSet(RemoveAt(u, k)) /\ Once(RemoveAt(u, k))
    BY Neighbours
  <2>3. ToSet(RemoveAt(u, k)) = ToSet(u) \ {u[k]}
    BY Without
  <2> QED BY <1>1, <2>1, <2>2, <2>3, Zenon
<1>3. PICK v : v = Append(t, n)
  OBVIOUS
<1>4. Once(v) /\ ToSet(v) = ToSet(t) \union {n}
  BY <1>2, <1>3, With
<1>5. ToSet(v) = ToSet(u)
  BY <1>2, <1>4
<1> QED BY <1>1, <1>3, <1>4, <1>5

LEMMA OrderedGet ==
  ASSUME ~overlapped', Sound, NEW u \in Seq(Nodes), Ordered(u), NEW r \in Readers, NEW f \in Names, Get(r, f)
  PROVE  \E v \in Seq(Nodes) : Ordered(v)' /\ Turn(u, v)
<1>1. CASE Dangling(f) \/ ~Cached(f)
  <2>1. UNCHANGED <<map, key, buf, list>>
    BY <1>1 DEF Get, Ends, cache
  <2>2. CASE Dangling(f)
    <3>1. UNCHANGED <<at, want, step>>
      BY <2>2 DEF Get, Ends, threads
    <3> QED BY <2>1, <3>1, OrderedSame
  <2>3. CASE ~Dangling(f)
    <3>1. /\ at[r] = "idle" /\ at' = [at EXCEPT ![r] = "put"]
          /\ want' = [want EXCEPT ![r] = f] /\ step' = [step EXCEPT ![r] = 0]
      BY <1>1, <2>3 DEF Get, Goes
    <3>2. Moving' = Moving /\ \A q \in Moving : want'[q] = want[q] /\ step'[q] = step[q]
      BY <3>1, ConstantFacts DEF Moving, Sound, Locked, Inv, Types
    <3> QED BY <2>1, <3>2, OrderedAside
  <2> QED BY <2>2, <2>3
<1>2. CASE ~Dangling(f) /\ Cached(f)
  <2>1. /\ at[r] = "idle" /\ at' = [at EXCEPT ![r] = "move"] /\ want' = [want EXCEPT ![r] = f]
        /\ step' = [step EXCEPT ![r] = 1] /\ UNCHANGED <<map, key, buf, list>>
    BY <1>2 DEF Get, Goes, cache
  <2>2. r \in Threads /\ Moving = {} /\ Moving' = {r}
    <3>1. Moving = {}
      BY <1>2 DEF Get
    <3> QED BY <2>1, <3>1 DEF Moving, Sound, Inv, Types, Threads
  <2>3. want'[r] = f /\ step'[r] = 1 /\ map[f] \in Allocated
    BY <1>2, <2>1, <2>2 DEF Dangling, Sound, Inv, Types, Locked
  <2>4. PICK k \in 1 .. Len(u) : u[k] = map[f]
    BY <2>3, PlaceOf
  <2>5. PICK v : v = Append(RemoveAt(u, k), u[k])
    OBVIOUS
  <2>6. Once(u) /\ Orders(list, u) /\ ToSet(u) = Allocated /\ \A n \in Allocated : buf[n] \in Lengths
    BY <2>2 DEF Ordered
  <2>7. Once(v) /\ ToSet(v) = Allocated /\ v \in Seq(Nodes)
    BY <2>5, <2>6, ToEnd DEF Once
  <2>8. Half(list, u, k, 1)
    BY <2>6 DEF Half, Orders
  <2>9. k \in Nodes
    BY <2>6, OnceShort, Places DEF Nodes
  <2>10. Halfway(v, r)'
    BY <2>1, <2>3, <2>4, <2>5, <2>6, <2>8, <2>9 DEF Halfway
  <2>11. Ordered(v)'
    BY <2>1, <2>2, <2>6, <2>7, <2>10 DEF Ordered, Allocated
  <2>12. Turn(u, v)
    BY <2>1, <2>5 DEF Turn, Used
  <2> QED BY <2>7, <2>11, <2>12
<1> QED BY <1>1, <1>2

LEMMA OrderedMove ==
  ASSUME Alone, Sound, NEW u \in Seq(Nodes), Ordered(u), NEW r \in Readers, Move(r)
  PROVE  Ordered(u)' /\ Turn(u, u) /\ fate' = fate
<1>1. at[r] = "move" /\ r \in Threads /\ Moving = {r} /\ step[r] \in 1 .. 8 /\ list \in Lists
  BY DEF Move, Alone, Moving, Sound, Locked, Threads, Counted
<1>2. PICK s \in Seq(Nodes), k \in Nodes :
         /\ Once(s) /\ k \in 1 .. Len(s) /\ s[k] = map[want[r]]
         /\ u = Append(RemoveAt(s, k), s[k])
         /\ Half(list, s, k, step[r])
  BY <1>1 DEF Ordered, Halfway
<1>3. PICK n, j : n = s[k] /\ j = step[r]
  OBVIOUS
<1>4. /\ Writes(list, n)[j][2] # null
      /\ j < 8 => Half(Written(list, n, j), s, k, j + 1)
      /\ j = 8 => Orders(Written(list, n, j), u)
  <2>1. /\ Writes(list, s[k])[step[r]][2] # null
        /\ step[r] < 8 => Half(Written(list, s[k], step[r]), s, k, step[r] + 1)
        /\ step[r] = 8 => Orders(Written(list, s[k], step[r]), Append(RemoveAt(s, k), s[k]))
    BY <1>1, <1>2, HalfOn
  <2> QED BY <1>2, <1>3, <2>1, Zenon
<1>5. /\ list' = Written(list, n, j) /\ UNCHANGED <<map, key, buf, fate>>
      /\ IF j < 8 THEN step' = [step EXCEPT ![r] = j + 1] /\ UNCHANGED <<at, want>>
                  ELSE at' = [at EXCEPT ![r] = "idle"]
  BY <1>2, <1>3, <1>4 DEF Move, Goes
<1>6. CASE j < 8
  <2>1. Moving' = {r} /\ want'[r] = want[r] /\ step'[r] = j + 1
    BY <1>1, <1>5, <1>6 DEF Moving, Sound, Locked
  <2>2. Halfway(u, r)'
    BY <1>2, <1>4, <1>5, <1>6, <2>1 DEF Halfway
  <2> QED BY <1>5, <2>1, <2>2 DEF Ordered, Allocated, Turn, Stays
<1>7. CASE ~(j < 8)
  <2>1. j = 8
    BY <1>1, <1>3, <1>7
  <2>2. Moving' = {}
    BY <1>1, <1>5, <2>1 DEF Moving, Sound, Inv, Types, Threads
  <2> QED BY <1>4, <1>5, <2>1, <2>2 DEF Ordered, Allocated, Turn, Stays
<1> QED BY <1>6, <1>7

LEMMA OrderedRenew ==
  ASSUME Sound, NEW u \in Seq(Nodes), Ordered(u), Moving = {}, Moving' = {},
         NEW f \in Names, map[f] \in Allocated, NEW length \in Lengths, Renew(f, length)
  PROVE  \E v \in Seq(Nodes) : Ordered(v)' /\ Turn(u, v)
<1>1. PICK n \in Nodes : n = map[f] /\ n \in Allocated
  BY DEF Allocated
<1>2. /\ buf' = [buf EXCEPT ![n] = length] /\ list' = PushBack(Unlink(list, n), n) /\ UNCHANGED <<map, key>>
      /\ buf \in [Nodes -> Lengths \union {Absent}]
  BY <1>1 DEF Renew, Sound, Inv, Types
<1>3. Once(u) /\ Orders(list, u) /\ ToSet(u) = Allocated /\ list \in Lists /\ \A m \in Allocated : buf[m] \in Lengths
  BY DEF Ordered, Sound, Counted
<1>4. PICK k \in 1 .. Len(u) : u[k] = n
  BY <1>1, PlaceOf
<1>5. PICK t, l, v : t = RemoveAt(u, k) /\ l = Unlink(list, n) /\ v = Append(t, n)
  OBVIOUS
<1>6. Orders(l, t) /\ l \in Lists
  <2>1. Orders(Unlink(list, u[k]), RemoveAt(u, k))
    BY <1>3, UnlinkOrders
  <2>2. Unlink(list, n) \in Lists
    BY <1>3, UnlinkType
  <2> QED BY <1>4, <1>5, <2>1, <2>2
<1>7. n \in Nodes \ ToSet(t) /\ Once(t)
  <2>1. u[k] \in Nodes \ ToSet(RemoveAt(u, k)) /\ Once(RemoveAt(u, k))
    BY <1>3, Neighbours
  <2> QED BY <1>4, <1>5, <2>1
<1>8. Orders(PushBack(l, n), v)
  BY <1>5, <1>6, <1>7, PushBackOrders
<1>9. Once(v) /\ ToSet(v) = Allocated /\ v \in Seq(Nodes)
  <2>1. Once(Append(RemoveAt(u, k), u[k])) /\ ToSet(Append(RemoveAt(u, k), u[k])) = ToSet(u)
    BY <1>3, ToEnd
  <2> QED BY <1>3, <1>4, <1>5, <2>1 DEF Once
<1>10. \A m \in Allocated : buf'[m] \in Lengths
  BY <1>2, <1>3 DEF Allocated
<1>11. Allocated' = Allocated /\ Orders(list', v)
  BY <1>2, <1>5, <1>8 DEF Allocated
<1>12. Ordered(v)'
  BY <1>9, <1>10, <1>11 DEF Ordered
<1>13. Turn(u, v)
  BY <1>2, <1>4, <1>5 DEF Turn, Used
<1> QED BY <1>9, <1>12, <1>13

LEMMA OrderedDelFile ==
  ASSUME Sound, NEW u \in Seq(Nodes), Ordered(u), Moving = {}, Moving' = {},
         NEW f \in Files, map[f] \in Allocated, Cached(f), InOnePiece, DelFile(f)
  PROVE  \E v \in Seq(Nodes) : Ordered(v)' /\ Turn(u, v)
<1>1. PICK n \in Nodes : n = map[f] /\ n \in Allocated
  BY DEF Allocated
<1>2. /\ buf' = [buf EXCEPT ![n] = Absent] /\ list' = Unlink(list, n) /\ key' = [key EXCEPT ![n] = None]
      /\ buf \in [Nodes -> Lengths \union {Absent}] /\ key \in [Nodes -> Names \union {None}]
  BY <1>1 DEF DelFile, Dangling, Sound, Inv, Types
<1>3. Once(u) /\ Orders(list, u) /\ ToSet(u) = Allocated /\ list \in Lists /\ \A m \in Allocated : buf[m] \in Lengths
  BY DEF Ordered, Sound, Counted
<1>4. PICK k \in 1 .. Len(u) : u[k] = n
  BY <1>1, PlaceOf
<1>5. PICK v : v = RemoveAt(u, k)
  OBVIOUS
<1>6. Orders(list', v)
  <2>1. Orders(Unlink(list, u[k]), RemoveAt(u, k))
    BY <1>3, UnlinkOrders
  <2> QED BY <1>2, <1>4, <1>5, <2>1
<1>7. Once(v) /\ ToSet(v) = Allocated \ {n} /\ v \in Seq(Nodes)
  <2>1. Once(RemoveAt(u, k)) /\ ToSet(RemoveAt(u, k)) = ToSet(u) \ {u[k]}
    BY <1>3, Without
  <2> QED BY <1>3, <1>4, <1>5, <2>1 DEF Once
<1>8. Allocated' = Allocated \ {n} /\ \A m \in Allocated \ {n} : buf'[m] = buf[m]
  BY <1>2 DEF Allocated
<1>9. Ordered(v)'
  BY <1>3, <1>6, <1>7, <1>8 DEF Ordered
<1>10. Turn(u, v)
  BY <1>2, <1>4, <1>5 DEF Turn, LeftOut
<1> QED BY <1>7, <1>9, <1>10

\* The loop that makes room leaves the most recent entries that fit.
LEMMA EvictionsAre ==
  ASSUME Sound, NEW u, Ordered(u), Moving = {}, NEW length \in Nat, NEW j \in 0 .. Len(u)
  PROVE  j \in Evictions(length) <=> Held(buf, ToSet(From(u, j))) + length <= Capacity
<1>1. Once(u) /\ ToSet(u) = Allocated /\ Chain(list) = u
  BY ChainIs DEF Ordered, Orders, Sound, Counted
<1>2. PICK G, A : G = ToSet(SubSeq(u, 1, j)) /\ A = Allocated
  OBVIOUS
<1>3. ToSet(From(u, j)) = A \ G /\ G \subseteq A
  BY <1>1, <1>2, RestOnce DEF From
<1>4. buf \in Buffers /\ A \in SUBSET Nodes /\ size = Held(buf, A)
  BY <1>2, BuffersType, SumIsHeld DEF Sound, Inv, Counted, SizeIsSum
<1>5. Held(buf, A) = Held(buf, G) + Held(buf, A \ G)
  BY <1>3, <1>4, HeldRest
<1>6. Held(buf, G) \in Nat /\ Held(buf, A \ G) \in Nat
  <2>1. G \in SUBSET Nodes /\ A \ G \in SUBSET Nodes
    BY <1>3, <1>4
  <2> QED BY <1>4, <2>1, HeldType
<1>7. j \in Evictions(length) <=> size + length - Sum(G) <= Capacity
  BY <1>1, <1>2 DEF Evictions
<1>8. Sum(G) = Held(buf, G)
  BY SumIsHeld
<1>9. size + length - Sum(G) = Held(buf, A \ G) + length
  BY <1>4, <1>5, <1>6, <1>8
<1> QED BY <1>3, <1>7, <1>9

LEMMA OrderedInsert ==
  ASSUME Sound, NEW u \in Seq(Nodes), Ordered(u), Moving = {}, Moving' = {},
         NEW f \in Names, NEW length \in Lengths, Evictions(length) # {}, Insert(f, length)
  PROVE  \E v \in Seq(Nodes) : Ordered(v)' /\ Turn(u, v)
<1>1. PICK n, i : n = NewNode /\ i = Min(Evictions(length))
  OBVIOUS
<1>2. Once(u) /\ Orders(list, u) /\ ToSet(u) = Allocated /\ list \in Lists /\ \A m \in Allocated : buf[m] \in Lengths
  BY DEF Ordered, Sound, Counted
<1>3. Chain(list) = u
  BY <1>2, ChainIs DEF Orders
<1>4. i \in Evictions(length) /\ i \in 0 .. Len(u) /\ \A j \in Evictions(length) : i <= j
  BY <1>1, <1>2, <1>3, GoneType
<1>5. PICK gone, rest, l, v : gone = SubSeq(u, 1, i) /\ rest = SubSeq(u, i + 1, Len(u)) /\ l = UnlinkAll(list, gone) /\ v = Append(rest, n)
  OBVIOUS
<1>6. /\ key' = [m \in Nodes |-> IF m = n THEN f ELSE IF m \in ToSet(gone) THEN None ELSE key[m]]
      /\ buf' = [m \in Nodes |-> IF m = n THEN length ELSE IF m \in ToSet(gone) THEN Absent ELSE buf[m]]
      /\ list' = PushBack(l, n) /\ n \in Free
  BY <1>1, <1>3, <1>5 DEF Insert, NewNode
<1>7. n \in Nodes \ Allocated
  BY <1>6 DEF Free
<1>8. Once(rest) /\ ToSet(rest) = Allocated \ ToSet(gone)
  <2>1. /\ Once(SubSeq(u, i + 1, Len(u)))
        /\ ToSet(SubSeq(u, i + 1, Len(u))) = ToSet(u) \ ToSet(SubSeq(u, 1, i))
    BY <1>2, <1>4, RestOnce
  <2> QED BY <1>2, <1>5, <2>1
<1>9. l \in Lists /\ Orders(l, rest)
  <2>1. UnlinkAll(list, SubSeq(u, 1, i)) \in Lists /\ Orders(UnlinkAll(list, SubSeq(u, 1, i)), SubSeq(u, i + 1, Len(u)))
    BY <1>2, <1>4, UnlinkAllOrders
  <2> QED BY <1>5, <2>1
<1>10. n \in Nodes \ ToSet(rest)
  BY <1>7, <1>8
<1>11. Orders(list', v)
  BY <1>5, <1>6, <1>8, <1>9, <1>10, PushBackOrders
<1>12. Once(v) /\ ToSet(v) = ToSet(rest) \union {n} /\ v \in Seq(Nodes) /\ v[Len(v)] = n
  <2>1. Once(v) /\ ToSet(v) = ToSet(rest) \union {n} /\ v[Len(v)] = n
    BY <1>5, <1>8, <1>10, With
  <2> QED BY <2>1 DEF Once
<1>13. Allocated' = ToSet(rest) \union {n}
  <2>1. \A m \in Nodes : key'[m] # None <=> m = n \/ (m \notin ToSet(gone) /\ key[m] # None)
    BY <1>6, ConstantFacts
  <2> QED BY <1>7, <1>8, <2>1 DEF Allocated
<1>14. buf'[n] = length /\ \A m \in ToSet(rest) : buf'[m] = buf[m]
  BY <1>6, <1>7, <1>8 DEF Allocated
<1>15. Ordered(v)'
  BY <1>2, <1>8, <1>11, <1>12, <1>13, <1>14 DEF Ordered
<1>16. rest = From(u, i) /\ length \in Nat
  BY <1>5 DEF From, Lengths
<1>17. Held(buf, ToSet(rest)) + buf'[n] <= Capacity
  BY <1>4, <1>14, <1>16, EvictionsAre
<1>18. ASSUME i > 0 PROVE Held(buf, ToSet(From(u, i - 1))) + buf'[n] > Capacity
  <2>1. PICK j \in 0 .. Len(u) : j = i - 1 /\ ~(i <= j)
    BY <1>2, <1>4, <1>18 DEF Once
  <2>2. j \notin Evictions(length)
    BY <1>4, <2>1
  <2>3. ~(Held(buf, ToSet(From(u, j))) + length <= Capacity)
    BY <1>16, <2>2, EvictionsAre
  <2>4. Held(buf, ToSet(From(u, j))) \in Nat
    <3>1. ToSet(From(u, j)) \in SUBSET Nodes /\ buf \in Buffers
      <4>1. ToSet(From(u, j)) \subseteq ToSet(u)
        BY <1>2, RestOnce DEF From
      <4>2. buf \in Buffers /\ Allocated \in SUBSET Nodes
        BY BuffersType DEF Sound, Inv
      <4> QED BY <1>2, <4>1, <4>2
    <3> QED BY <3>1, HeldType
  <2> QED BY <1>14, <1>16, <2>1, <2>3, <2>4, FileLRUAssumption
<1>19. Entered(u, v)
  <2>1. /\ v = Append(From(u, i), n) /\ Held(buf, ToSet(From(u, i))) + buf'[n] <= Capacity
        /\ i > 0 => Held(buf, ToSet(From(u, i - 1))) + buf'[n] > Capacity
        /\ \A m \in ToSet(From(u, i)) : buf'[m] = buf[m]
    BY <1>5, <1>14, <1>16, <1>17, <1>18
  <2> QED BY <1>4, <1>7, <2>1 DEF Entered
<1> QED BY <1>12, <1>15, <1>19 DEF Turn

LEMMA OrderedPutReads ==
  ASSUME Sound, NEW u \in Seq(Nodes), Ordered(u), NEW t \in Threads, PutReads(t)
  PROVE  \E v \in Seq(Nodes) : Ordered(v)' /\ Turn(u, v)
<1> DEFINE f == want[t]
           length == OnDisk(t)
           gone == length = Absent
           breaks == Dangling(f) \/ ~InOnePiece \/ (~Cached(f) /\ Evictions(length) = {})
<1>1. at[t] = "read" /\ f \in Names /\ length \in Lengths \union {Absent}
  BY ConstantFacts DEF PutReads, Sound, Inv, Types, OnDisk
<1>2. CASE ~gone /\ breaks
  <2>1. UNCHANGED <<map, key, buf, list, at, want, step>>
    BY <1>2 DEF PutReads, Ends, cache, threads
  <2> QED BY <2>1, OrderedSame
<1>3. CASE gone \/ ~breaks
  <2>1. PutDone(t)
    BY <1>3 DEF PutReads
  <2>2. Moving = {} /\ Moving' = {}
    BY <1>1, <2>1, NobodyMoves DEF PutDone, Goes
  <2>3. CASE gone
    <3>1. UNCHANGED <<key, buf, list>>
      BY <2>3 DEF PutReads, cache
    <3> QED BY <2>2, <3>1, OrderedStill
  <2>4. CASE ~gone /\ ~breaks
    <3>1. length \in Lengths /\ IF Cached(f) THEN Renew(f, length) ELSE Insert(f, length)
      BY <1>1, <2>4 DEF PutReads
    <3>2. CASE Cached(f)
      <4>1. map[f] \in Allocated
        BY <2>4, <3>2 DEF Dangling
      <4>2. PICK g \in Names, m \in Lengths : g = f /\ m = length
        BY <1>1, <3>1
      <4>3. map[g] \in Allocated /\ Renew(g, m)
        BY <3>1, <3>2, <4>1, <4>2
      <4> QED BY <2>2, <4>3, OrderedRenew
    <3>3. CASE ~Cached(f)
      <4>1. PICK g \in Names, m \in Lengths : g = f /\ m = length
        BY <1>1, <3>1
      <4>2. Evictions(m) # {} /\ Insert(g, m)
        BY <2>4, <3>1, <3>3, <4>1
      <4> QED BY <2>2, <4>2, OrderedInsert
    <3> QED BY <3>2, <3>3
  <2> QED BY <1>3, <2>3, <2>4
<1> QED BY <1>2, <1>3

LEMMA OrderedWatch ==
  ASSUME Sound, NEW u \in Seq(Nodes), Ordered(u), Changed \/ Deleted \/ Paired \/ Stored
  PROVE  \E v \in Seq(Nodes) : Ordered(v)' /\ Turn(u, v)
<1>1. CASE Changed
  <2>1. UNCHANGED <<map, key, buf, list, step>> /\ \A r \in Readers : at'[r] = at[r] /\ want'[r] = want[r]
    BY <1>1, ConstantFacts DEF Changed, Goes, cache, Sound, Inv, Types
  <2> QED BY <2>1, OrderedSame
<1>2. CASE Stored
  <2>1. UNCHANGED <<map, key, buf, list, at, want, step>>
    BY <1>2 DEF Stored, cache, threads
  <2> QED BY <2>1, OrderedSame
<1>3. CASE Paired
  <2>1. LockFree /\ UNCHANGED <<key, buf, list, at>>
    BY <1>3 DEF Paired, MoveFile, threads
  <2>2. Moving = {} /\ Moving' = {}
    BY <2>1, NobodyMoves, ConstantFacts
  <2> QED BY <2>1, <2>2, OrderedStill
<1>4. CASE Deleted
  <2>1. PICK f : f = Head(events).file
    OBVIOUS
  <2>2. DelFile(f) /\ LockFree
    BY <1>4, <2>1 DEF Deleted
  <2>3. f \in Files
    <3>1. Head(events) \in Events
      BY <1>4 DEF Deleted, NextEvent, Sound, Inv, Types
    <3> QED BY <2>1, <3>1 DEF Events
  <2>4. CASE Dangling(f) \/ ~Cached(f) \/ ~InOnePiece
    <3>1. UNCHANGED <<map, key, buf, list, at, want, step>>
      BY <2>2, <2>4 DEF DelFile, Ends, cache, threads
    <3> QED BY <3>1, OrderedSame
  <2>5. CASE ~Dangling(f) /\ Cached(f) /\ InOnePiece
    <3>1. UNCHANGED at /\ map[f] \in Allocated
      BY <2>2, <2>5 DEF DelFile, threads, Dangling
    <3>2. Moving = {} /\ Moving' = {}
      BY <2>2, <3>1, NobodyMoves, ConstantFacts
    <3> QED BY <2>2, <2>3, <2>5, <3>1, <3>2, OrderedDelFile
  <2> QED BY <2>4, <2>5
<1> QED BY <1>1, <1>2, <1>3, <1>4

LEMMA OrderedPutChecks ==
  ASSUME Sound, NEW u \in Seq(Nodes), Ordered(u), NEW t \in Threads, PutChecks(t)
  PROVE  \E v \in Seq(Nodes) : Ordered(v)' /\ Turn(u, v)
<1>1. UNCHANGED <<key, buf, list>> /\ LockFree
  BY DEF PutChecks, Ends, PutDone, cache
<1>2. at' = at \/ at' = [at EXCEPT ![t] = "idle"] \/ at' = [at EXCEPT ![t] = "read"]
  BY DEF PutChecks, Ends, PutDone, Goes, threads
<1>3. Moving = {} /\ Moving' = {}
  BY <1>1, <1>2, NobodyMoves
<1> QED BY <1>1, <1>3, OrderedStill

LEMMA OrderedNext ==
  ASSUME Alone, ~overlapped', Sound, NEW u \in Seq(Nodes), Ordered(u), [Next]_vars
  PROVE  \E v \in Seq(Nodes) : Ordered(v)' /\ Turn(u, v)
<1> DEFINE Goal == \E v \in Seq(Nodes) : Ordered(v)' /\ Turn(u, v)
<1>1. ASSUME NEW r \in Readers, NEW f \in Names, Get(r, f) PROVE Goal
  BY <1>1, OrderedGet
<1>2. ASSUME NEW r \in Readers, Move(r) PROVE Goal
  BY <1>2, OrderedMove
<1>3. ASSUME NEW t \in Threads, PutChecks(t) \/ PutReads(t) PROVE Goal
  BY <1>3, OrderedPutChecks, OrderedPutReads
<1>4. ASSUME Changed \/ Deleted \/ Paired \/ Stored PROVE Goal
  BY <1>4, OrderedWatch
<1>5. ASSUME UNCHANGED <<cache, threads>> PROVE Goal
  BY <1>5, OrderedSame DEF cache, threads
<1>6. ASSUME NEW f \in Files, NEW n \in Lengths, Write(f, n) \/ MoveIn(f, n) PROVE Goal
  BY <1>5, <1>6 DEF Write, MoveIn, Change
<1>7. ASSUME NEW f \in Files, Delete(f) \/ MoveOut(f) PROVE Goal
  BY <1>5, <1>7 DEF Delete, MoveOut, Change
<1>8. ASSUME NEW f \in Files, NEW g \in Files, Rename(f, g) PROVE Goal
  BY <1>5, <1>8 DEF Rename, Change
<1>9. ASSUME UNCHANGED vars PROVE Goal
  BY <1>5, <1>9 DEF vars
<1> HIDE DEF Goal
<1>10. ASSUME Next PROVE Goal
  BY <1>1, <1>2, <1>3, <1>4, <1>6, <1>7, <1>8, <1>10 DEF Next
<1>11. Goal
  BY <1>9, <1>10
<1> QED BY <1>11 DEF Goal

\* A request begins a move while none is under way, or sets the flag.
LEMMA AloneNext ==
  ASSUME Alone, ~overlapped', Types, [Next]_vars
  PROVE  Alone'
<1>1. ASSUME Moving' \subseteq Moving PROVE Alone'
  BY <1>1 DEF Alone
<1>2. ASSUME \A q \in Readers : at'[q] = at[q] \/ at'[q] # "move" PROVE Alone'
  BY <1>1, <1>2 DEF Moving
<1>3. ASSUME NEW r \in Readers, NEW f \in Names, Get(r, f) PROVE Alone'
  <2>1. CASE Cached(f) /\ ~Dangling(f)
    <3>1. Moving = {} /\ at' = [at EXCEPT ![r] = "move"]
      BY <1>3, <2>1 DEF Get, Goes
    <3>2. Moving' \subseteq {r}
      BY <3>1 DEF Moving, Types, Threads
    <3> QED BY <3>2 DEF Alone
  <2>2. CASE ~Cached(f) \/ Dangling(f)
    <3>1. at' = at \/ at' = [at EXCEPT ![r] = "put"]
      BY <1>3, <2>2 DEF Get, Goes, Ends, threads
    <3>2. \A q \in Readers : at'[q] = at[q] \/ at'[q] # "move"
      BY <3>1 DEF Types, Threads
    <3> QED BY <1>2, <3>2
  <2> QED BY <2>1, <2>2
<1>4. ASSUME NEW q \in Threads, at' = at \/ at' = [at EXCEPT ![q] = "idle"] \/ at' = [at EXCEPT ![q] = "read"] \/ at' = [at EXCEPT ![q] = "put"]
      PROVE  Alone'
  <2>1. \A r \in Readers : at'[r] = at[r] \/ at'[r] # "move"
    BY <1>4 DEF Types, Threads
  <2> QED BY <1>2, <2>1
<1>5. ASSUME NEW r \in Readers, Move(r) PROVE Alone'
  <2>1. at' = at \/ at' = [at EXCEPT ![r] = "idle"]
    BY <1>5 DEF Move, Goes, Ends, threads
  <2> QED BY <1>4, <2>1, ConstantFacts
<1>6. ASSUME NEW q \in Threads, PutChecks(q) \/ PutReads(q) PROVE Alone'
  <2>1. at' = at \/ at' = [at EXCEPT ![q] = "idle"] \/ at' = [at EXCEPT ![q] = "read"]
    BY <1>6 DEF PutChecks, PutReads, PutDone, Goes, Ends, threads
  <2> QED BY <1>4, <2>1
<1>7. CASE Changed \/ Deleted \/ Paired \/ Stored
  <2>1. at' = at \/ at' = [at EXCEPT ![Watch] = "put"]
    BY <1>7 DEF Changed, Deleted, Paired, Stored, DelFile, MoveFile, Goes, Ends, threads
  <2> QED BY <1>4, <2>1, ConstantFacts
<1>8. ASSUME UNCHANGED threads PROVE Alone'
  BY <1>4, <1>8, ConstantFacts DEF threads
<1>9. ASSUME NEW f \in Files, NEW n \in Lengths, Write(f, n) \/ MoveIn(f, n) PROVE Alone'
  BY <1>8, <1>9 DEF Write, MoveIn, Change
<1>10. ASSUME NEW f \in Files, Delete(f) \/ MoveOut(f) PROVE Alone'
  BY <1>8, <1>10 DEF Delete, MoveOut, Change
<1>11. ASSUME NEW f \in Files, NEW g \in Files, Rename(f, g) PROVE Alone'
  BY <1>8, <1>11 DEF Rename, Change
<1>12. CASE UNCHANGED vars
  BY <1>8, <1>12 DEF vars
<1> QED BY <1>3, <1>5, <1>6, <1>7, <1>9, <1>10, <1>11, <1>12 DEF Next

Whole == ~overlapped => Alone /\ \E u \in Seq(Nodes) : Ordered(u)

LEMMA WholeInit == Init => Sound /\ Whole
<1> SUFFICES ASSUME Init PROVE Sound /\ Whole
  OBVIOUS
<1>1. Sound /\ Ordered(<<>>)
  BY InvInit, SoundInit, OrderedInit DEF Sound
<1>2. <<>> \in Seq(Nodes)
  OBVIOUS
<1>3. Alone
  BY ConstantFacts DEF Init, Alone, Moving
<1> QED BY <1>1, <1>2, <1>3 DEF Whole

LEMMA WholeNext == Sound /\ Whole /\ [Next]_vars => (Sound /\ Whole)'
<1> SUFFICES ASSUME Sound, Whole, [Next]_vars, ~overlapped'
             PROVE  Alone' /\ \E v \in Seq(Nodes) : Ordered(v)'
  BY SoundNext DEF Whole
<1>1. ~overlapped
  BY FlagKept
<1>2. PICK u \in Seq(Nodes) : Ordered(u)
  BY <1>1 DEF Whole
<1>3. Alone'
  BY <1>1, AloneNext DEF Whole, Sound, Inv
<1>4. PICK v \in Seq(Nodes) : Ordered(v)'
  BY <1>1, <1>2, OrderedNext DEF Whole
<1> QED BY <1>3, <1>4

LEMMA WholeHolds == Spec => [](Sound /\ Whole)
<1> QED BY WholeInit, WholeNext, PTL DEF Spec

\* An order leads from head_ to tail_ over each entry once.
LEMMA OrderedWay ==
  ASSUME NEW l, NEW u, Once(u), Orders(l, u)
  PROVE  LET way == <<head>> \o u \o <<tail>>
         IN /\ IsInjective(way)
            /\ \A i \in 1 .. Len(way) - 1 : l.next[way[i]] = way[i + 1] /\ l.prev[way[i + 1]] = way[i]
<1>1. PICK way, m : way = <<head>> \o u \o <<tail>> /\ m = Len(u)
  OBVIOUS
<1>2. m \in Nat /\ u \in Seq(Nodes) /\ \A i \in 1 .. m : u[i] \in Pointers
  <2>1. u \in Seq(Nodes) /\ m \in Nat /\ \A i \in 1 .. m : u[i] \in Nodes
    BY <1>1 DEF Once
  <2>2. Nodes \subseteq Pointers
    BY Places
  <2> QED BY <2>1, <2>2
<1>3. /\ way \in Seq(Pointers) /\ Len(way) = m + 2 /\ way[1] = head /\ way[m + 2] = tail
      /\ \A i \in 1 .. m : way[i + 1] = u[i]
  <2>1. u \in Seq(Pointers)
    <3>1. [i \in 1 .. m |-> u[i]] \in Seq(Pointers)
      BY <1>2, IsASeq
    <3>2. u = [i \in 1 .. m |-> u[i]]
      BY <1>1, <1>2
    <3> QED BY <3>1, <3>2, Zenon
  <2>2. head \in Pointers /\ tail \in Pointers
    BY Places
  <2>3. PICK a : a = <<head>> \o u
    OBVIOUS
  <2>4. a \in Seq(Pointers) /\ Len(a) = m + 1 /\ a[1] = head /\ \A i \in 1 .. m : a[i + 1] = u[i]
    BY <1>1, <1>2, <2>1, <2>2, <2>3
  <2>5. way = a \o <<tail>>
    BY <1>1, <2>3
  <2>6. way = Append(a, tail)
    BY <2>2, <2>4, <2>5
  <2>7. /\ way \in Seq(Pointers) /\ Len(way) = Len(a) + 1 /\ way[Len(a) + 1] = tail
        /\ \A i \in 1 .. Len(a) : way[i] = a[i]
    BY <2>2, <2>4, <2>6, Appended
  <2>8. \A i \in 1 .. m : i + 1 \in 1 .. m + 1
    BY <1>2
  <2> QED BY <1>2, <2>4, <2>7, <2>8
<1>4. \A i \in 1 .. m + 2 : way[i] = Way(u)[i - 1] /\ i - 1 \in 0 .. m + 1
  <2> SUFFICES ASSUME NEW i \in 1 .. m + 2 PROVE way[i] = Way(u)[i - 1] /\ i - 1 \in 0 .. m + 1
    OBVIOUS
  <2>1. PICK j \in 0 .. m + 1 : j = i - 1 /\ i = j + 1
    BY <1>2
  <2>2. Way(u)[j] = IF j = 0 THEN head ELSE IF j = m + 1 THEN tail ELSE u[j]
    BY <1>1 DEF Way
  <2>3. way[j + 1] = IF j = 0 THEN head ELSE IF j = m + 1 THEN tail ELSE u[j]
    BY <1>2, <1>3
  <2> QED BY <2>1, <2>2, <2>3
<1>5. IsInjective(way)
  <2> SUFFICES ASSUME NEW a \in 1 .. m + 2, NEW b \in 1 .. m + 2, way[a] = way[b] PROVE a = b
    BY <1>3 DEF IsInjective
  <2>1. a - 1 \in 0 .. Len(u) + 1 /\ b - 1 \in 0 .. Len(u) + 1 /\ Way(u)[a - 1] = Way(u)[b - 1]
    BY <1>1, <1>4
  <2>2. a - 1 = b - 1
    BY <2>1, WayOnce
  <2> QED BY <1>2, <2>2
<1>6. ASSUME NEW i \in 1 .. m + 1 PROVE l.next[way[i]] = way[i + 1] /\ l.prev[way[i + 1]] = way[i]
  <2>1. PICK j \in 0 .. m : j = i - 1 /\ j + 1 = i
    BY <1>2
  <2>2. way[i] = Way(u)[j] /\ way[i + 1] = Way(u)[j + 1]
    <3>1. i \in 1 .. m + 2 /\ i + 1 \in 1 .. m + 2 /\ (i + 1) - 1 = j + 1
      BY <1>2, <2>1
    <3>2. way[i + 1] = Way(u)[(i + 1) - 1]
      BY <1>4, <3>1
    <3> QED BY <1>4, <2>1, <3>1, <3>2
  <2> QED BY <1>1, <2>1, <2>2 DEF Orders, LeadsOn, LeadsBack
<1>7. Len(way) - 1 = m + 1
  BY <1>2, <1>3
<1> QED BY <1>1, <1>5, <1>6, <1>7

\* For any number of readers, until two of them move entries at once, the list is
\* whole between any two moves, however requests, evictions and the watch follow
\* one another: remove and push_back lose no entry and leave no pointer of a freed
\* one in the list (FileUtil.cc 157-182, 257-275).
THEOREM ListAlwaysWhole == Spec => []ListWhole
<1>1. Sound /\ Whole => ListWhole
  <2> SUFFICES ASSUME Sound, Whole, Moving = {}, ~overlapped PROVE ListWhole
    BY DEF ListWhole
  <2>1. PICK u \in Seq(Nodes) : Ordered(u)
    BY DEF Whole
  <2>2. Once(u) /\ ToSet(u) = Allocated /\ Orders(list, u)
    BY <2>1 DEF Ordered
  <2>3. Chain(list) = u
    BY <2>2, ChainIs DEF Sound, Counted, Orders
  <2>4. LET way == <<head>> \o u \o <<tail>>
        IN /\ IsInjective(way)
           /\ \A i \in 1 .. Len(way) - 1 : list.next[way[i]] = way[i + 1] /\ list.prev[way[i + 1]] = way[i]
    BY <2>2, OrderedWay
  <2>5. InOnePiece
    BY <2>2, <2>3, <2>4 DEF InOnePiece
  <2> QED BY <2>5 DEF ListWhole
<1> QED BY <1>1, WholeHolds, PTL

-----------------------------------------------------------------------------
(* What fits is made room for.                                               *)

LEMMA RoomIsMade ==
  ASSUME Sound, NEW u, Ordered(u), Moving = {}, NEW length \in Nat, length <= Capacity
  PROVE  Evictions(length) # {}
<1>1. Once(u) /\ ToSet(u) = Allocated /\ Chain(list) = u
  BY ChainIs DEF Ordered, Orders, Sound, Counted
<1>2. Len(u) \in 0 .. Len(u) /\ SubSeq(u, 1, Len(u)) = u
  BY <1>1 DEF Once
<1>3. size = Sum(ToSet(u)) /\ size \in Nat
  <2>1. size = Held(buf, Allocated)
    BY SumIsHeld DEF Sound, Counted, SizeIsSum
  <2>2. buf \in Buffers /\ Allocated \in SUBSET Nodes
    BY BuffersType DEF Sound, Inv
  <2> QED BY <1>1, <2>1, <2>2, SumIsHeld, HeldType
<1>4. size + length - Sum(ToSet(SubSeq(u, 1, Len(u)))) <= Capacity
  <2>1. Sum(ToSet(SubSeq(u, 1, Len(u)))) = size
    BY <1>2, <1>3, Zenon
  <2>2. size + length - size <= Capacity
    BY <1>3, FileLRUAssumption
  <2> QED BY <2>1, <2>2, Zenon
<1> QED BY <1>1, <1>2, <1>4 DEF Evictions

\* For any number of readers and files of any length: until two readers move
\* entries at once, neither a move nor the loop that makes room goes past the end
\* of the list, but for a file that outgrows the whole cache between put's check
\* and its read (FileUtil.cc 140-177).
THEOREM NeverThroughNull == Spec => []NullOnlyWhenGrown
<1> DEFINE I == Sound /\ Whole /\ NullOnlyWhenGrown
<1>1. Init => I
  BY WholeInit DEF Init, NullOnlyWhenGrown
<1>2. I /\ [Next]_vars => I'
  <2> SUFFICES ASSUME Sound, Whole, NullOnlyWhenGrown, [Next]_vars, fate' = "null", ~overlapped'
               PROVE  GrownTooBig'
    BY WholeNext DEF NullOnlyWhenGrown
  <2>1. ~overlapped
    BY FlagKept
  <2>2. Alone /\ \E u \in Seq(Nodes) : Ordered(u)
    BY <2>1 DEF Whole
  <2>3. PICK u \in Seq(Nodes) : Ordered(u)
    BY <2>2
  <2>4. CASE UNCHANGED vars
    <3>1. UNCHANGED <<at, want, disk, fate>>
      BY <2>4 DEF vars, threads, directory
    <3>2. GrownTooBig
      BY <2>1, <3>1 DEF NullOnlyWhenGrown
    <3> QED BY <3>1, <3>2 DEF GrownTooBig, OnDisk
  <2>5. ASSUME fate = "runs", UNCHANGED fate PROVE FALSE
    BY <2>5
  <2>6. ASSUME NEW r \in Readers, NEW f \in Names, Get(r, f) PROVE FALSE
    BY <2>5, <2>6 DEF Get, Runs, Ends
  <2>7. ASSUME NEW r \in Readers, Move(r) PROVE FALSE
    <3>1. fate = "runs"
      BY <2>7 DEF Move, Runs
    <3> QED BY <2>2, <2>3, <2>5, <2>7, <3>1, OrderedMove
  <2>8. ASSUME NEW t \in Threads, PutChecks(t) PROVE FALSE
    BY <2>5, <2>8 DEF PutChecks, Runs, Ends
  <2>9. ASSUME NEW t \in Threads, PutReads(t) PROVE GrownTooBig'
    <3>1. at[t] = "read" /\ fate = "runs" /\ OnDisk(t) \in Nat
      BY <2>9, ConstantFacts DEF PutReads, Runs, OnDisk, Sound, Inv, Types, Lengths, Absent
    <3>2. Moving = {}
      BY <3>1, ConstantFacts DEF Moving, Sound, Locked
    <3>3. Evictions(OnDisk(t)) = {} /\ UNCHANGED <<at, want, disk>>
      BY <2>9, <3>1 DEF PutReads, Ends, threads, directory
    <3>4. ~(OnDisk(t) <= Capacity)
      BY <2>3, <3>1, <3>2, <3>3, RoomIsMade
    <3>5. OnDisk(t) > Capacity
      BY <3>1, <3>4, FileLRUAssumption
    <3> QED BY <3>1, <3>3, <3>5 DEF GrownTooBig, OnDisk
  <2>10. CASE Changed \/ Deleted \/ Paired \/ Stored
    BY <2>5, <2>10 DEF Changed, Deleted, Paired, Stored, NextEvent, DelFile, MoveFile, Ends, Runs
  <2>11. ASSUME NEW f \in Files, NEW n \in Lengths, Write(f, n) \/ MoveIn(f, n) PROVE FALSE
    BY <2>5, <2>11 DEF Write, MoveIn, Change, Runs
  <2>12. ASSUME NEW f \in Files, Delete(f) \/ MoveOut(f) PROVE FALSE
    BY <2>5, <2>12 DEF Delete, MoveOut, Change, Runs
  <2>13. ASSUME NEW f \in Files, NEW g \in Files, Rename(f, g) PROVE FALSE
    BY <2>5, <2>13 DEF Rename, Change, Runs
  <2> QED BY <2>4, <2>6, <2>7, <2>8, <2>9, <2>10, <2>11, <2>12, <2>13 DEF Next
<1> QED BY <1>1, <1>2, PTL DEF Spec

-----------------------------------------------------------------------------
(* Recency.  Its list is the order with the lengths of the buffers.          *)

Item(n, b) == [entry |-> n, length |-> b[n]]
View(s, b) == [i \in DOMAIN s |-> Item(s[i], b)]

LEMMA ViewType ==
  ASSUME NEW s \in Seq(Nodes), NEW b \in Buffers
  PROVE  /\ View(s, b) \in Seq([entry : Nodes, length : Nat]) /\ Len(View(s, b)) = Len(s)
         /\ DOMAIN View(s, b) = 1 .. Len(s)
         /\ \A i \in 1 .. Len(s) : View(s, b)[i] = Item(s[i], b) /\ View(s, b)[i].entry = s[i] /\ View(s, b)[i].length = b[s[i]]
<1>1. DOMAIN s = 1 .. Len(s) /\ Len(s) \in Nat
  OBVIOUS
<1>2. \A i \in 1 .. Len(s) : Item(s[i], b) \in [entry : Nodes, length : Nat]
  BY DEF Item, Buffers
<1>3. View(s, b) = [i \in 1 .. Len(s) |-> Item(s[i], b)]
  BY <1>1 DEF View
<1>4. [i \in 1 .. Len(s) |-> Item(s[i], b)] \in Seq([entry : Nodes, length : Nat])
  BY <1>1, <1>2, IsASeq
<1>5. View(s, b) \in Seq([entry : Nodes, length : Nat])
  BY <1>3, <1>4, Zenon
<1>6. DOMAIN View(s, b) = 1 .. Len(s) /\ \A i \in 1 .. Len(s) : View(s, b)[i] = Item(s[i], b)
  BY <1>3
<1>7. Len(View(s, b)) = Len(s)
  BY <1>1, <1>5, <1>6
<1> QED BY <1>5, <1>6, <1>7 DEF Item

\* An entry less in the order is a use less in the list.
LEMMA ViewWithout ==
  ASSUME NEW u, Once(u), NEW k \in 1 .. Len(u), NEW b \in Buffers, NEW c \in Buffers, \A n \in Nodes \ {u[k]} : c[n] = b[n]
  PROVE  RemoveAt(View(u, b), k) = View(RemoveAt(u, k), c)
<1>1. PICK p : p = View(u, b)
  OBVIOUS
<1>2. PICK t, q : t = RemoveAt(u, k) /\ q = View(t, c)
  OBVIOUS
<1>3. u \in Seq(Nodes) /\ Len(u) \in Nat /\ t \in Seq(Nodes) /\ Len(t) = Len(u) - 1
      /\ \A i \in 1 .. Len(u) - 1 : t[i] = IF i < k THEN u[i] ELSE u[i + 1]
  <2>1. u \in Seq(Nodes)
    BY DEF Once
  <2>2. RemoveAt(u, k) \in Seq(Nodes) /\ Len(RemoveAt(u, k)) = Len(u) - 1
        /\ \A i \in 1 .. Len(u) - 1 : RemoveAt(u, k)[i] = IF i < k THEN u[i] ELSE u[i + 1]
    BY <2>1, RemovedAt
  <2> QED BY <1>2, <2>1, <2>2
<1>4. PICK S : S = [entry : Nodes, length : Nat]
  OBVIOUS
<1>5. /\ p \in Seq(S) /\ Len(p) = Len(u) /\ \A i \in 1 .. Len(u) : p[i] = Item(u[i], b)
      /\ q \in Seq(S) /\ Len(q) = Len(t) /\ \A i \in 1 .. Len(t) : q[i] = Item(t[i], c)
  BY <1>1, <1>2, <1>3, <1>4, ViewType
<1>6. PICK r : r = RemoveAt(p, k)
  OBVIOUS
<1>7. r \in Seq(S) /\ Len(r) = Len(p) - 1 /\ \A i \in 1 .. Len(p) - 1 : r[i] = IF i < k THEN p[i] ELSE p[i + 1]
  <2>1. k \in 1 .. Len(p)
    BY <1>5
  <2>2. RemoveAt(p, k) \in Seq(S) /\ Len(RemoveAt(p, k)) = Len(p) - 1
        /\ \A i \in 1 .. Len(p) - 1 : RemoveAt(p, k)[i] = IF i < k THEN p[i] ELSE p[i + 1]
    BY <1>5, <2>1, RemovedAt
  <2> QED BY <1>6, <2>2
<1>8. ASSUME NEW i \in 1 .. Len(r) PROVE r[i] = q[i]
  <2>1. i \in 1 .. Len(u) - 1 /\ i \in 1 .. Len(p) - 1 /\ i \in 1 .. Len(t)
    BY <1>3, <1>5, <1>7
  <2>2. PICK j \in 1 .. Len(u) : j = (IF i < k THEN i ELSE i + 1) /\ j # k
    BY <1>3, <2>1
  <2>3. r[i] = p[j] /\ t[i] = u[j]
    BY <1>3, <1>7, <2>1, <2>2
  <2>4. u[j] \in Nodes \ {u[k]}
    BY <1>3, <2>2 DEF Once
  <2>5. Item(u[j], b) = Item(u[j], c)
    BY <2>4 DEF Item
  <2>6. r[i] = Item(u[j], b)
    BY <1>5, <2>3
  <2>7. q[i] = Item(u[j], c)
    BY <1>5, <2>1, <2>3
  <2> QED BY <2>5, <2>6, <2>7
<1>9. Len(r) = Len(q)
  BY <1>3, <1>5, <1>7
<1>10. r = q
  BY <1>5, <1>7, <1>8, <1>9, SameElements
<1> QED BY <1>1, <1>2, <1>6, <1>10

\* An entry more at the end is a use more.
LEMMA ViewWith ==
  ASSUME NEW t \in Seq(Nodes), NEW n \in Nodes, NEW b \in Buffers
  PROVE  View(Append(t, n), b) = Append(View(t, b), Item(n, b))
<1>1. PICK S : S = [entry : Nodes, length : Nat]
  OBVIOUS
<1>2. PICK u, p, q, x : u = Append(t, n) /\ p = View(t, b) /\ q = View(u, b) /\ x = Item(n, b)
  OBVIOUS
<1>3. u \in Seq(Nodes) /\ Len(t) \in Nat /\ Len(u) = Len(t) + 1 /\ u[Len(t) + 1] = n /\ \A i \in 1 .. Len(t) : u[i] = t[i]
  BY <1>2, Appended
<1>4. /\ p \in Seq(S) /\ Len(p) = Len(t) /\ \A i \in 1 .. Len(t) : p[i] = Item(t[i], b)
      /\ q \in Seq(S) /\ Len(q) = Len(u) /\ \A i \in 1 .. Len(u) : q[i] = Item(u[i], b)
  BY <1>1, <1>2, <1>3, ViewType
<1>5. x \in S
  BY <1>1, <1>2 DEF Item, Buffers
<1>6. PICK r : r = Append(p, x)
  OBVIOUS
<1>7. r \in Seq(S) /\ Len(r) = Len(p) + 1 /\ r[Len(p) + 1] = x /\ \A i \in 1 .. Len(p) : r[i] = p[i]
  BY <1>4, <1>5, <1>6, Appended
<1>8. ASSUME NEW i \in 1 .. Len(r) PROVE r[i] = q[i]
  <2>1. i \in 1 .. Len(u) /\ (i \in 1 .. Len(t) \/ i = Len(t) + 1)
    BY <1>3, <1>4, <1>7
  <2>2. CASE i \in 1 .. Len(t)
    BY <1>3, <1>4, <1>7, <2>1, <2>2
  <2>3. CASE i = Len(t) + 1
    BY <1>2, <1>3, <1>4, <1>7, <2>1, <2>3
  <2> QED BY <2>1, <2>2, <2>3
<1>9. Len(r) = Len(q)
  BY <1>3, <1>4, <1>7
<1>10. r = q
  BY <1>4, <1>7, <1>8, <1>9, SameElements
<1> QED BY <1>2, <1>6, <1>10

\* The uses in the list hold what the entries do.
LEMMA TotalIs ==
  ASSUME NEW w, Once(w), NEW b \in Buffers
  PROVE  R!Total(View(w, b)) = Held(b, ToSet(w))
<1>1. PICK p : p = View(w, b)
  OBVIOUS
<1>2. PICK D, A : D = 1 .. Len(w) /\ A = ToSet(w)
  OBVIOUS
<1>3. /\ w \in [D -> Nodes] /\ A = {w[i] : i \in D} /\ A \in SUBSET Nodes
      /\ \A i, j \in D : w[i] = w[j] => i = j
      /\ DOMAIN p = D /\ \A i \in D : p[i].length = b[w[i]]
  <2>1. w \in Seq(Nodes)
    BY DEF Once
  <2>2. DOMAIN View(w, b) = 1 .. Len(w) /\ \A i \in 1 .. Len(w) : View(w, b)[i].length = b[w[i]]
    BY <2>1, ViewType
  <2>3. w \in [1 .. Len(w) -> Nodes]
    BY <2>1
  <2>4. DOMAIN w = 1 .. Len(w)
    BY <2>3
  <2> QED BY <1>1, <1>2, <2>2, <2>3, <2>4 DEF Once, ToSet
<1>4. PICK S, T : S = UNION {{n} \X (1 .. b[n]) : n \in A} /\ T = UNION {{i} \X (1 .. p[i].length) : i \in DOMAIN p}
  OBVIOUS
<1>5. \A x : x \in S <=> \E n \in A : \E y \in 1 .. b[n] : x = <<n, y>>
  BY <1>4
<1>6. \A x : x \in T <=> \E i \in D : \E y \in 1 .. b[w[i]] : x = <<i, y>>
  BY <1>3, <1>4
<1>7. PICK f : f = [x \in T |-> <<w[x[1]], x[2]>>]
  OBVIOUS
<1>8. \A x \in T : x[1] \in D /\ x[2] \in 1 .. b[w[x[1]]] /\ x = <<x[1], x[2]>> /\ f[x] = <<w[x[1]], x[2]>>
  BY <1>6, <1>7
<1>9. f \in [T -> S]
  <2> SUFFICES ASSUME NEW x \in T PROVE f[x] \in S
    BY <1>7
  <2>1. w[x[1]] \in A
    BY <1>3, <1>8
  <2> QED BY <1>5, <1>8, <2>1
<1>10. \A x, y \in T : f[x] = f[y] => x = y
  <2> SUFFICES ASSUME NEW x \in T, NEW y \in T, f[x] = f[y] PROVE x = y
    OBVIOUS
  <2>1. w[x[1]] = w[y[1]] /\ x[2] = y[2]
    BY <1>8
  <2>2. x[1] = y[1]
    BY <1>3, <1>8, <2>1
  <2> QED BY <1>8, <2>1, <2>2
<1>11. \A z \in S : \E x \in T : f[x] = z
  <2> SUFFICES ASSUME NEW z \in S PROVE \E x \in T : f[x] = z
    OBVIOUS
  <2>0. PICK n \in A : \E y \in 1 .. b[n] : z = <<n, y>>
    BY <1>5
  <2>1. PICK y \in 1 .. b[n] : z = <<n, y>>
    BY <2>0
  <2>2. PICK i \in D : w[i] = n
    BY <1>3
  <2>3. <<i, y>> \in T
    BY <1>6, <2>1, <2>2
  <2>4. f[<<i, y>>] = z
    BY <1>7, <2>1, <2>2, <2>3
  <2> QED BY <2>3, <2>4
<1>12. f \in Injection(T, S) /\ f \in Surjection(T, S)
  BY <1>9, <1>10, <1>11 DEF Injection, IsInjective, Surjection
<1>13. ExistsBijection(T, S)
  BY <1>12 DEF ExistsBijection, Bijection
<1>14. IsFiniteSet(S)
  BY <1>2, <1>3, <1>4, HeldType DEF UnitsOf
<1>15. IsFiniteSet(T)
  BY <1>12, <1>14, FS_Injection
<1>16. Cardinality(S) = Cardinality(T)
  BY <1>13, <1>15, FS_Bijection
<1>17. \A X : R!Cardinality(X) = Cardinality(X)
  BY DEF R!Cardinality, Cardinality
<1> QED BY <1>1, <1>2, <1>4, <1>16, <1>17 DEF R!Total, Held, UnitsOf

LEMMA ViewFrom ==
  ASSUME NEW u, Once(u), NEW i \in 0 .. Len(u), NEW b \in Buffers, NEW c \in Buffers, \A n \in ToSet(From(u, i)) : c[n] = b[n]
  PROVE  SubSeq(View(u, b), i + 1, Len(View(u, b))) = View(From(u, i), c)
<1>1. PICK p, w, q, S : p = View(u, b) /\ w = From(u, i) /\ q = View(w, c) /\ S = [entry : Nodes, length : Nat]
  OBVIOUS
<1>2. u \in Seq(Nodes) /\ Len(u) \in Nat
  BY DEF Once
<1>3. w \in Seq(Nodes) /\ Len(w) = Len(u) - i /\ \A j \in 1 .. Len(u) - i : w[j] = u[i + j]
  <2>1. /\ SubSeq(u, i + 1, Len(u)) \in Seq(Nodes) /\ Len(SubSeq(u, i + 1, Len(u))) = Len(u) - i
        /\ \A j \in 1 .. Len(u) - i : SubSeq(u, i + 1, Len(u))[j] = u[i + j]
    BY <1>2, Rest
  <2> QED BY <1>1, <2>1 DEF From
<1>4. /\ p \in Seq(S) /\ Len(p) = Len(u) /\ \A j \in 1 .. Len(u) : p[j] = Item(u[j], b)
      /\ q \in Seq(S) /\ Len(q) = Len(w) /\ \A j \in 1 .. Len(w) : q[j] = Item(w[j], c)
  BY <1>1, <1>2, <1>3, ViewType
<1>5. PICK r : r = SubSeq(p, i + 1, Len(p))
  OBVIOUS
<1>6. r \in Seq(S) /\ Len(r) = Len(p) - i /\ \A j \in 1 .. Len(p) - i : r[j] = p[i + j]
  <2>1. i \in 0 .. Len(p)
    BY <1>4
  <2>2. /\ SubSeq(p, i + 1, Len(p)) \in Seq(S) /\ Len(SubSeq(p, i + 1, Len(p))) = Len(p) - i
        /\ \A j \in 1 .. Len(p) - i : SubSeq(p, i + 1, Len(p))[j] = p[i + j]
    BY <1>4, <2>1, Rest
  <2> QED BY <1>5, <2>2
<1>7. ASSUME NEW j \in 1 .. Len(r) PROVE r[j] = q[j]
  <2>1. j \in 1 .. Len(u) - i /\ i + j \in 1 .. Len(u) /\ j \in 1 .. Len(w) /\ j \in 1 .. Len(p) - i
    BY <1>2, <1>3, <1>4, <1>6
  <2>2. w[j] = u[i + j] /\ r[j] = p[i + j] /\ q[j] = Item(w[j], c) /\ p[i + j] = Item(u[i + j], b)
    BY <1>3, <1>4, <1>6, <2>1
  <2>3. w[j] \in ToSet(w)
    BY <1>3, <2>1 DEF ToSet
  <2>4. c[w[j]] = b[w[j]]
    BY <1>1, <2>3
  <2> QED BY <2>2, <2>4 DEF Item
<1>8. Len(r) = Len(q)
  BY <1>3, <1>4, <1>6
<1>9. r = q
  BY <1>4, <1>6, <1>7, <1>8, SameElements
<1> QED BY <1>1, <1>5, <1>9

\* Recency's steps, for the list p before and q after.
UseOf(p, q) == \E i \in DOMAIN p, n \in Lengths :
                  q = Append(RemoveAt(p, i), [entry |-> p[i].entry, length |-> n])
EnterOf(p, q) == \E x \in R!Uses, i \in 0 .. Len(p) :
                    /\ ~ \E j \in DOMAIN p : p[j].entry = x.entry
                    /\ R!Total(SubSeq(p, i + 1, Len(p))) + x.length <= Capacity
                    /\ i > 0 => R!Total(SubSeq(p, i - 1 + 1, Len(p))) + x.length > Capacity
                    /\ q = Append(SubSeq(p, i + 1, Len(p)), x)
LeaveOf(p, q) == \E i \in DOMAIN p : q = RemoveAt(p, i)

LEMMA TurnIs ==
  ASSUME NEW u \in Seq(Nodes), Ordered(u), NEW v \in Seq(Nodes), Ordered(v)', Turn(u, v),
         buf \in Buffers, buf' \in Buffers
  PROVE  LET p == View(u, buf)
             q == View(v, buf')
         IN q = p \/ UseOf(p, q) \/ EnterOf(p, q) \/ LeaveOf(p, q)
<1>1. PICK b \in Buffers, c \in Buffers : b = buf /\ c = buf'
  OBVIOUS
<1>2. PICK p, q : p = View(u, b) /\ q = View(v, c)
  OBVIOUS
<1>3. Once(u) /\ Once(v) /\ ToSet(u) = Allocated /\ \A n \in ToSet(v) : c[n] \in Lengths
  BY <1>1 DEF Ordered
<1>4. DOMAIN p = 1 .. Len(u) /\ Len(p) = Len(u) /\ \A i \in 1 .. Len(u) : p[i].entry = u[i]
  BY <1>2, ViewType
<1>5. CASE Stays(u, v)
  <2>1. v = u /\ \A i \in 1 .. Len(u) : c[u[i]] = b[u[i]]
    BY <1>1, <1>5 DEF Stays, ToSet
  <2>2. \A i \in DOMAIN u : Item(u[i], b) = Item(u[i], c)
    BY <2>1 DEF Item
  <2>3. q = p
    BY <1>2, <2>1, <2>2 DEF View
  <2> QED BY <1>1, <1>2, <2>3
<1>6. CASE Used(u, v)
  <2>1. PICK k \in 1 .. Len(u) : v = Append(RemoveAt(u, k), u[k]) /\ \A n \in Nodes \ {u[k]} : c[n] = b[n]
    BY <1>1, <1>6 DEF Used
  <2>2. PICK n, t, x : n = u[k] /\ t = RemoveAt(u, k) /\ x = Item(n, c)
    OBVIOUS
  <2>3. n \in Nodes /\ Once(t) /\ t \in Seq(Nodes) /\ n \in ToSet(v)
    <3>1. u[k] \in Nodes \ ToSet(RemoveAt(u, k)) /\ Once(RemoveAt(u, k))
      BY <1>3, Neighbours
    <3>2. n \in ToSet(v)
      BY <2>1, <2>2, <3>1, With
    <3> QED BY <2>2, <3>1, <3>2 DEF Once
  <2>4. q = Append(View(t, c), x)
    BY <1>2, <2>1, <2>2, <2>3, ViewWith
  <2>5. View(t, c) = RemoveAt(p, k)
    BY <1>2, <1>3, <2>1, <2>2, ViewWithout
  <2>6. c[n] \in Lengths /\ k \in DOMAIN p /\ x = [entry |-> p[k].entry, length |-> c[n]]
    BY <1>3, <1>4, <2>2, <2>3 DEF Item
  <2>7. UseOf(p, q)
    BY <2>4, <2>5, <2>6 DEF UseOf
  <2> QED BY <1>1, <1>2, <2>7
<1>7. CASE Entered(u, v)
  <2>1. PICK i \in 0 .. Len(u), n \in Nodes \ Allocated :
           /\ v = Append(From(u, i), n)
           /\ Held(b, ToSet(From(u, i))) + c[n] <= Capacity
           /\ i > 0 => Held(b, ToSet(From(u, i - 1))) + c[n] > Capacity
           /\ \A m \in ToSet(From(u, i)) : c[m] = b[m]
    BY <1>1, <1>7 DEF Entered
  <2>2. PICK t, x : t = From(u, i) /\ x = Item(n, c)
    OBVIOUS
  <2>3. Once(t) /\ t \in Seq(Nodes) /\ n \in ToSet(v)
    <3>1. Once(t) /\ ToSet(t) \subseteq ToSet(u)
      BY <1>3, <2>1, <2>2, RestOnce DEF From
    <3>2. n \in Nodes \ ToSet(t)
      BY <1>3, <3>1
    <3>3. n \in ToSet(v)
      BY <2>1, <2>2, <3>1, <3>2, With
    <3> QED BY <3>1, <3>3 DEF Once
  <2>4. q = Append(View(t, c), x)
    BY <1>2, <2>1, <2>2, <2>3, ViewWith
  <2>5. View(t, c) = SubSeq(p, i + 1, Len(p))
    BY <1>2, <1>3, <2>1, <2>2, ViewFrom
  <2>6. x \in R!Uses /\ x.entry = n /\ x.length = c[n]
    BY <1>3, <2>2, <2>3 DEF R!Uses, Item
  <2>7. ~ \E j \in DOMAIN p : p[j].entry = x.entry
    BY <1>3, <1>4, <2>6 DEF ToSet, Once
  <2>8. ASSUME NEW j \in 0 .. Len(u)
        PROVE  R!Total(SubSeq(p, j + 1, Len(p))) = Held(b, ToSet(From(u, j)))
    <3>1. SubSeq(View(u, b), j + 1, Len(View(u, b))) = View(From(u, j), b)
      BY <1>3, ViewFrom
    <3>2. Once(From(u, j))
      BY <1>3, RestOnce DEF From
    <3>3. R!Total(View(From(u, j), b)) = Held(b, ToSet(From(u, j)))
      BY <3>2, TotalIs
    <3> QED BY <1>2, <3>1, <3>3
  <2>9. R!Total(SubSeq(p, i + 1, Len(p))) + x.length <= Capacity
    BY <2>1, <2>6, <2>8
  <2>10. i > 0 => R!Total(SubSeq(p, i - 1 + 1, Len(p))) + x.length > Capacity
    <3> SUFFICES ASSUME i > 0 PROVE R!Total(SubSeq(p, i - 1 + 1, Len(p))) + x.length > Capacity
      OBVIOUS
    <3>1. i - 1 \in 0 .. Len(u)
      OBVIOUS
    <3>2. R!Total(SubSeq(p, i - 1 + 1, Len(p))) = Held(b, ToSet(From(u, i - 1)))
      BY <2>8, <3>1
    <3> QED BY <2>1, <2>6, <3>2
  <2>11. EnterOf(p, q)
    <3>1. i \in 0 .. Len(p) /\ q = Append(SubSeq(p, i + 1, Len(p)), x)
      BY <1>4, <2>4, <2>5
    <3> QED BY <2>6, <2>7, <2>9, <2>10, <3>1 DEF EnterOf
  <2> QED BY <1>1, <1>2, <2>11
<1>8. CASE LeftOut(u, v)
  <2>1. PICK k \in 1 .. Len(u) : v = RemoveAt(u, k) /\ \A n \in Nodes \ {u[k]} : c[n] = b[n]
    BY <1>1, <1>8 DEF LeftOut
  <2>2. q = RemoveAt(p, k)
    BY <1>2, <1>3, <2>1, ViewWithout
  <2>3. LeaveOf(p, q)
    BY <1>4, <2>2 DEF LeaveOf
  <2> QED BY <1>1, <1>2, <2>3
<1> QED BY <1>5, <1>6, <1>7, <1>8 DEF Turn

\* What the list is taken for, before and after a step.
RecentList == WithLengths[Order]

LEMMA RecentIs == \A u \in Seq(Nodes) : Sound /\ Ordered(u) => RecentList = View(u, buf)
BY OrderIs DEF RecentList, WithLengths, View, Item

LEMMA StepIs ==
  /\ UseOf(RecentList, RecentList') => R!Use
  /\ EnterOf(RecentList, RecentList') => R!Enter
  /\ LeaveOf(RecentList, RecentList') => R!Leave
<1>1. UseOf(RecentList, RecentList') => R!Use
  BY DEF UseOf, RecentList, R!Use, R!RemoveAt, RemoveAt
<1>2. EnterOf(RecentList, RecentList') => R!Enter
  BY DEF EnterOf, RecentList, R!Enter, R!Listed, R!From
<1>3. LeaveOf(RecentList, RecentList') => R!Leave
  BY DEF LeaveOf, RecentList, R!Leave, R!RemoveAt, RemoveAt
<1> QED BY <1>1, <1>2, <1>3

\* Until two readers move entries at once, the pointers are a list in the order of
\* use: a file that is asked for or read again becomes the last, and room for a new
\* one is made from the other end and no further than needed (FileUtil.cc 123-182,
\* 203-213, 257-275).
THEOREM FileLRUImplementsRecency == Spec => ImplementsRecency
<1>1. Init => R!Init
  <2> SUFFICES ASSUME Init PROVE R!Init
    OBVIOUS
  <2>1. Sound /\ Ordered(<<>>)
    BY InvInit, SoundInit, OrderedInit DEF Sound
  <2>2. Order = <<>> /\ <<>> \in Seq(Nodes)
    BY <2>1, OrderIs
  <2>3. WithLengths[<<>>] = <<>>
    BY <2>2 DEF WithLengths
  <2> QED BY <2>2, <2>3 DEF R!Init
<1>0. (Types => buf \in Buffers)'
  <2>1. Types => buf \in Buffers
    BY BuffersType
  <2> QED BY <2>1, PTL
<1>2. (\A u \in Seq(Nodes) : Sound /\ Ordered(u) => RecentList = View(u, buf))'
  BY RecentIs, PTL
<1>3. Sound /\ Whole /\ [Next]_vars => [overlapped' \/ R!Next]_RecentList
  <2> SUFFICES ASSUME Sound, Whole, [Next]_vars, ~overlapped' PROVE [R!Next]_RecentList
    OBVIOUS
  <2>0. ~overlapped
    BY FlagKept
  <2>1. PICK u \in Seq(Nodes) : Ordered(u)
    BY <2>0 DEF Whole
  <2>2. PICK v \in Seq(Nodes) : Ordered(v)' /\ Turn(u, v)
    BY <2>0, <2>1, OrderedNext DEF Whole
  <2>3. Sound'
    BY SoundNext
  <2>4. buf \in Buffers /\ buf' \in Buffers
    <3>1. buf \in Buffers
      BY BuffersType DEF Sound, Inv
    <3>2. Nodes' = Nodes /\ Buffers' = Buffers
      BY DEF Nodes, Buffers
    <3> QED BY <1>0, <2>3, <3>1, <3>2 DEF Sound, Inv
  <2>5. PICK p, q : p = View(u, buf) /\ q = View(v, buf')
    OBVIOUS
  <2>6. q = p \/ UseOf(p, q) \/ EnterOf(p, q) \/ LeaveOf(p, q)
    BY <2>1, <2>2, <2>4, <2>5, TurnIs
  <2>7. p = RecentList
    BY <2>1, <2>5, RecentIs
  <2>8. q = RecentList'
    BY <1>2, <2>2, <2>3, <2>5
  <2>9. CASE q = p
    BY <2>7, <2>8, <2>9
  <2>10. CASE UseOf(p, q) \/ EnterOf(p, q) \/ LeaveOf(p, q)
    BY <2>7, <2>8, <2>10, StepIs DEF R!Next
  <2> QED BY <2>6, <2>9, <2>10
<1> QED BY <1>1, <1>3, WholeHolds, PTL DEF Spec, ImplementsRecency, RecentList
=============================================================================
