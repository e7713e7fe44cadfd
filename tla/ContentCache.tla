---------------------------- MODULE ContentCache ----------------------------
(***************************************************************************)
(* layer::content_manager: the processors, the cache of assets and the     *)
(* archives.  load looks for a path in the archives and in the files; it   *)
(* never caches, and a cached path it cannot give, because no processor    *)
(* here overrides duplicate.  Entries come from try_to_cache, which the    *)
(* bindings offer to programs, and are looked up by find_cache_info.  Any  *)
(* of these calls may be made from any thread; what a call holds on to     *)
(* outside the lock is not counted.                                        *)
(***************************************************************************)
EXTENDS Integers, FiniteSets, TLAPS

CONSTANTS
    Threads, Paths, Ids,
    MaxObjects,     \* bound: processors and resources made
    MaxStreams      \* bound: archives imported

None == 0

VARIABLES
    processors,     \* id -> processor
    alive,          \* processors and assets that were not released
    assets,         \* <<path, processor>> -> asset, whose number is also its resource
    archives,       \* path -> the stream of its archive, or None
    streams,        \* streams that are open
    position,       \* stream -> the path it was moved to
    thread,         \* the call of each thread: at, path, processor, asset found, resource got
    reading,        \* what the thread's load reads: stream, the path whose content it got,
                    \* whether no other load moved the stream before it was read
    clearing,       \* the entries clear_cache has still to free, when it runs
    freed,          \* history: something was used that had been released
    raced,          \* history: a call overlapped one that releases what it uses
    epoch,          \* history: how often entries were dropped
    made, opened

store == <<archives, streams, position, opened>>
vars == <<processors, alive, assets, thread, reading, clearing, freed, raced, epoch, made, store>>
Idle == [at |-> "idle", path |-> "none", proc |-> None, asset |-> None, got |-> None, epoch |-> 0]
NoRead == [stream |-> None, read |-> "none", mine |-> TRUE]
Init ==
    /\ processors = [i \in {} |-> None] /\ alive = {} /\ assets = [k \in {} |-> None]
    /\ archives = [p \in Paths |-> None] /\ streams = {} /\ opened = 0
    /\ position = [s \in 1..MaxStreams |-> "none"]
    /\ thread = [t \in Threads |-> Idle] /\ reading = [t \in Threads |-> NoRead]
    /\ clearing = <<>> /\ freed = FALSE /\ raced = FALSE /\ epoch = 0 /\ made = 0

Resting(t) == thread[t].at \in {"idle", "loaded", "cached"}
Loading(t) == thread[t].at \in {"archived", "read", "file"}
Copying(t) == thread[t].at = "copy"
\* Entries of a processor, or loads through it
InUse(proc) ==
    \/ \E k \in DOMAIN assets : k[2] = proc
    \/ \E t \in Threads : Loading(t) /\ thread[t].proc = proc

-----------------------------------------------------------------------------
(* Processors: none is released while it is registered.                    *)
add_processor(i) ==
    /\ made < MaxObjects /\ made' = made + 1
    /\ processors' = [j \in DOMAIN processors \cup {i} |-> IF j = i THEN made' ELSE processors[j]]
    /\ alive' = (alive \ (IF i \in DOMAIN processors THEN {processors[i]} ELSE {})) \cup {made'}
    /\ raced' = (raced \/ (i \in DOMAIN processors /\ InUse(processors[i])))
    /\ UNCHANGED <<assets, thread, reading, clearing, freed, epoch, store>>

remove_processor(i) ==
    /\ i \in DOMAIN processors
    /\ alive' = alive \ {processors[i]} /\ processors' = [j \in DOMAIN processors \ {i} |-> processors[j]]
    /\ raced' = (raced \/ InUse(processors[i]))
    /\ UNCHANGED <<assets, thread, reading, clearing, freed, epoch, made, store>>

clear_processors ==
    /\ DOMAIN processors # {}
    /\ alive' = alive \ {processors[i] : i \in DOMAIN processors} /\ processors' = [i \in {} |-> None]
    /\ raced' = (raced \/ \E i \in DOMAIN processors : InUse(processors[i]))
    /\ UNCHANGED <<assets, thread, reading, clearing, freed, epoch, made, store>>

-----------------------------------------------------------------------------
(* Archives: the files of one share its stream.                            *)
InArchive(t) == thread[t].at \in {"archived", "read"}

import_archive(S) ==
    /\ opened < MaxStreams /\ opened' = opened + 1
    /\ archives' = [p \in Paths |-> IF p \in S THEN opened' ELSE archives[p]]
    /\ streams' = streams \cup {opened'}
    /\ raced' = (raced \/ \E t \in Threads : thread[t].at = "read" /\ thread[t].path \in S)
    /\ UNCHANGED <<processors, alive, assets, position, thread, reading, clearing, freed, epoch, made>>

clear_archives ==
    /\ (\E p \in Paths : archives[p] # None) /\ archives' = [p \in Paths |-> None]
    /\ raced' = (raced \/ \E t \in Threads : InArchive(t))
    /\ UNCHANGED <<processors, alive, assets, streams, position, opened, thread, reading, clearing, freed, epoch, made>>

clear_streams ==
    /\ streams # {} /\ streams' = {}
    /\ raced' = (raced \/ \E t \in Threads : InArchive(t))
    /\ UNCHANGED <<processors, alive, assets, archives, position, opened, thread, reading, clearing, freed, epoch, made>>

-----------------------------------------------------------------------------
(* load: the archive of the path is looked up under the lock, and its      *)
(* entry is used again after the lock was given up.                        *)
Key(t) == <<thread[t].path, thread[t].proc>>
Goes(t, to) == thread' = [thread EXCEPT ![t].at = to]
Ends(t) == thread' = [thread EXCEPT ![t].at = "loaded", ![t].proc = None]
Uses(things) == freed' = (freed \/ ~(things \subseteq alive))

load(t, path, i) ==
    /\ Resting(t) /\ i \in DOMAIN processors
    /\ thread' = [thread EXCEPT ![t] = [at |-> IF archives[path] # None THEN "archived" ELSE "file", path |-> path,
                                        proc |-> processors[i], asset |-> None, got |-> None, epoch |-> 0]]
    /\ reading' = [reading EXCEPT ![t] = NoRead]
    /\ UNCHANGED <<processors, alive, assets, clearing, freed, raced, epoch, made, store>>

\* duplicate() is not implemented: the error sends load on to the file
load_from_archive(t) ==
    LET stream == archives[thread[t].path] IN
    /\ thread[t].at = "archived"
    /\ \/ /\ Key(t) \in DOMAIN assets /\ Uses({thread[t].proc}) /\ Goes(t, "file")
          /\ UNCHANGED <<reading, position>>
       \/ /\ Key(t) \notin DOMAIN assets /\ freed' = (freed \/ stream = None)
          /\ \/ stream \notin streams /\ Goes(t, "file") /\ UNCHANGED <<reading, position>>
             \/ /\ stream \in streams /\ Goes(t, "read")
                /\ position' = [position EXCEPT ![stream] = thread[t].path]
                /\ reading' = [u \in Threads |->
                      IF u = t THEN [reading[t] EXCEPT !.stream = stream]
                      ELSE [reading[u] EXCEPT !.mine = @ /\ ~(thread[u].at = "read" /\ reading[u].stream = stream)]]
    /\ UNCHANGED <<processors, alive, assets, archives, streams, opened, clearing, raced, epoch, made>>

\* The stream is read outside the lock, where it is then
deserialize(t) ==
    LET stream == reading[t].stream IN
    /\ thread[t].at = "read"
    /\ freed' = (freed \/ thread[t].proc \notin alive \/ stream \notin streams \/ archives[thread[t].path] # stream)
    /\ \/ Ends(t) /\ reading' = [reading EXCEPT ![t].read = position[stream]]
       \/ Goes(t, "file") /\ reading' = [reading EXCEPT ![t] = NoRead]
    /\ UNCHANGED <<processors, alive, assets, clearing, raced, epoch, made, store>>

\* A cached path is an error of duplicate(); the file may be missing or not
\* be read
load_file(t) ==
    /\ thread[t].at = "file" /\ Uses({thread[t].proc}) /\ Ends(t)
    /\ \/ reading' = [reading EXCEPT ![t].read = "error"]
       \/ Key(t) \notin DOMAIN assets /\ reading' = [reading EXCEPT ![t].read = thread[t].path]
    /\ UNCHANGED <<processors, alive, assets, clearing, raced, epoch, made, store>>

-----------------------------------------------------------------------------
(* The cache.  find_cache_info copies the asset after find_cache has given *)
(* up the lock.                                                            *)
find_cache(path, i) == IF <<path, processors[i]>> \in DOMAIN assets THEN assets[<<path, processors[i]>>] ELSE None

find_cache_info(t, path, i) ==
    /\ Resting(t) /\ i \in DOMAIN processors /\ find_cache(path, i) # None
    /\ thread' = [thread EXCEPT ![t] = [at |-> "copy", path |-> path, proc |-> processors[i],
                                        asset |-> find_cache(path, i), got |-> None, epoch |-> 0]]
    /\ reading' = [reading EXCEPT ![t] = NoRead]
    /\ raced' = (raced \/ clearing # <<>>)
    /\ UNCHANGED <<processors, alive, assets, clearing, freed, epoch, made, store>>

copy(t) ==
    /\ Copying(t) /\ Uses({thread[t].asset}) /\ thread' = [thread EXCEPT ![t] = Idle]
    /\ UNCHANGED <<processors, alive, assets, reading, clearing, raced, epoch, made, store>>

\* An entry that is there stays, and its resource is returned
Cached(t, path, i, overwrite) ==
    LET key == <<path, processors[i]>>
        keep == key \in DOMAIN assets /\ ~overwrite
        resource == IF ~keep THEN made' ELSE IF assets[key] \in alive THEN assets[key] ELSE None
    IN  /\ Resting(t) /\ i \in DOMAIN processors
        /\ made < MaxObjects /\ made' = made + 1
        /\ freed' = (freed \/ (keep /\ assets[key] \notin alive))
        /\ raced' = (raced \/ clearing # <<>>)
        /\ assets' = IF keep THEN assets ELSE [k \in DOMAIN assets \cup {key} |-> IF k = key THEN made' ELSE assets[k]]
        /\ alive' = IF keep THEN alive ELSE alive \cup {made'}
        /\ thread' = [thread EXCEPT ![t] = [at |-> "cached", path |-> path, proc |-> processors[i],
                                            asset |-> None, got |-> resource, epoch |-> epoch]]
        /\ reading' = [reading EXCEPT ![t] = NoRead]
        /\ UNCHANGED <<processors, clearing, epoch, store>>
try_to_cache_again(t, path, i) == Cached(t, path, i, TRUE)
try_to_cache(t, path, i) == Cached(t, path, i, FALSE)

(* clear_cache: every entry is freed by its processor with the lock given  *)
(* up, and the entries are dropped at the end.  A second one walks over    *)
(* all of them again.                                                      *)
clear_cache ==
    /\ DOMAIN assets # {} /\ clearing' = <<DOMAIN assets>>
    /\ raced' = (raced \/ clearing # <<>> \/ \E t \in Threads : Copying(t))
    /\ UNCHANGED <<processors, alive, assets, thread, reading, freed, epoch, made, store>>

clear_entry ==
    /\ clearing # <<>> /\ clearing[1] # {}
    /\ \E k \in clearing[1] :
          /\ clearing' = <<clearing[1] \ {k}>>
          /\ IF k \in DOMAIN assets THEN Uses({k[2], assets[k]}) /\ alive' = alive \ {assets[k]}
             ELSE freed' = TRUE /\ UNCHANGED alive
    /\ UNCHANGED <<processors, assets, thread, reading, raced, epoch, made, store>>

clear_end ==
    /\ clearing = <<{}>> /\ clearing' = <<>> /\ assets' = [k \in {} |-> None] /\ epoch' = epoch + 1
    /\ UNCHANGED <<processors, alive, thread, reading, freed, raced, made, store>>

\* The entries of the path are dropped, the assets stay
clear_path(path) ==
    /\ \E k \in DOMAIN assets : k[1] = path
    /\ assets' = [k \in {x \in DOMAIN assets : x[1] # path} |-> assets[k]] /\ epoch' = epoch + 1
    /\ raced' = (raced \/ clearing # <<>>)
    /\ UNCHANGED <<processors, alive, thread, reading, clearing, freed, made, store>>

(* ~content_manager, when nobody has a reference: the cache, the archives, *)
(* the streams, then the processors.                                       *)
destroy ==
    /\ clearing = <<>> /\ (\A t \in Threads : Resting(t)) /\ DOMAIN processors # {}
    /\ freed' = (freed \/ \E k \in DOMAIN assets : ~{k[2], assets[k]} \subseteq alive)
    /\ alive' = alive \ ({assets[k] : k \in DOMAIN assets} \cup {processors[i] : i \in DOMAIN processors})
    /\ assets' = [k \in {} |-> None] /\ processors' = [i \in {} |-> None] /\ epoch' = epoch + 1
    /\ archives' = [p \in Paths |-> None] /\ streams' = {}
    /\ UNCHANGED <<thread, reading, clearing, raced, made, position, opened>>

\* What a program does after it used something released is undefined, and is
\* not followed
Next ==
    /\ ~freed
    /\ \/ \E i \in Ids : add_processor(i) \/ remove_processor(i)
       \/ \E t \in Threads :
             \/ load_from_archive(t) \/ deserialize(t) \/ load_file(t) \/ copy(t)
             \/ \E p \in Paths, i \in Ids : load(t, p, i) \/ find_cache_info(t, p, i) \/ try_to_cache(t, p, i)
       \/ \E S \in (SUBSET Paths) \ {{}} : import_archive(S)
       \/ clear_archives \/ clear_streams \/ clear_processors
       \/ clear_cache \/ clear_entry \/ clear_end \/ destroy \/ \E p \in Paths : clear_path(p)
Spec == Init /\ [][Next]_vars

(***************************************************************************)
(* Properties                                                              *)
(***************************************************************************)

(* Threads that cache a resource for one path and processor end up with    *)
(* one resource, until entries are dropped: try_to_cache keeps the first   *)
(* and returns it to the others.                                           *)
SameResource ==
    ~raced => \A t, u \in Threads :
        /\ thread[t].at = "cached" /\ thread[u].at = "cached" /\ thread[t].epoch = epoch /\ thread[u].epoch = epoch
        /\ thread[t].path = thread[u].path /\ thread[t].proc = thread[u].proc
        => thread[t].got = thread[u].got

(* A processor, asset, archive or stream is used after its release only    *)
(* when calls overlapped that the code does not keep apart: a cache that   *)
(* is cleared (542-561 gives up the lock) while it is used, changed or     *)
(* cleared, or while an asset that was found is copied; a processor that   *)
(* is released with entries or loads; archives or streams that are cleared *)
(* during a load from them.                                                *)
NothingFreedUsed == freed => raced

(* Every cached asset is alive and belongs to a live processor while the   *)
(* cache is not being cleared, but after such an overlap.                  *)
CacheAlive == ~raced /\ clearing = <<>> => \A k \in DOMAIN assets : {k[2], assets[k]} \subseteq alive

(* A load gives the content of its path, from an archive or a file.  It    *)
(* gives another's only when another load moved the stream they share      *)
(* after this one had, as the stream is read outside the lock (876-880).   *)
RightContent ==
    \A t \in Threads :
        thread[t].at = "loaded" /\ reading[t].read # "error" => reading[t].read = thread[t].path \/ ~reading[t].mine

-----------------------------------------------------------------------------
(* content_manager for any number of threads, paths, processors and        *)
(* archives: as long as no call overlaps one that releases what it uses,   *)
(* callers share what the first of them cached, and nothing is used after  *)
(* its release.                                                            *)

Names == Paths \cup {"none"}
Calls == [at : {"idle", "archived", "read", "file", "copy", "loaded", "cached"}, path : Names,
          proc : Nat, asset : Nat, got : Nat, epoch : Nat]

Types ==
    /\ processors \in [DOMAIN processors -> Nat]
    /\ assets \in [DOMAIN assets -> Nat]
    /\ archives \in [Paths -> Nat] /\ opened \in Nat
    /\ thread \in [Threads -> Calls]
    /\ DOMAIN reading = Threads /\ \A t \in Threads : "stream" \in DOMAIN reading[t]
    /\ epoch \in Nat /\ made \in Nat /\ freed \in BOOLEAN /\ raced \in BOOLEAN
    /\ clearing # <<>> => \E S : clearing = <<S>>

\* What a thread cached since entries were last dropped is there.
Shared ==
    \A t \in Threads :
        /\ thread[t].epoch <= epoch
        /\ thread[t].at = "cached" /\ thread[t].epoch = epoch =>
              Key(t) \in DOMAIN assets /\ assets[Key(t)] = thread[t].got

\* Entries that were not freed yet.
Kept(k) == clearing = <<>> \/ k \in clearing[1]

\* Processors and assets have numbers of their own.
Owners ==
    /\ \A n \in alive : n \in Nat /\ n <= made
    /\ \A i \in DOMAIN processors : processors[i] \in alive
    /\ \A i, j \in DOMAIN processors : processors[i] = processors[j] => i = j
Entries ==
    /\ clearing # <<>> => clearing[1] \subseteq DOMAIN assets
    /\ \A k \in DOMAIN assets :
        /\ k[2] \in alive /\ assets[k] <= made /\ (Kept(k) => assets[k] \in alive)
        /\ \A m \in DOMAIN assets : (assets[k] = assets[m] => k = m) /\ assets[k] # m[2]
        /\ \A i \in DOMAIN processors : assets[k] # processors[i]

\* What a call holds on to outside the lock is alive.
User(t) ==
    /\ Loading(t) => /\ thread[t].proc \in alive /\ thread[t].path \in Paths
                     /\ \A k \in DOMAIN assets : assets[k] # thread[t].proc
    /\ Copying(t) => /\ clearing = <<>> /\ thread[t].asset \in alive
                     /\ \A i \in DOMAIN processors : thread[t].asset # processors[i]
    /\ InArchive(t) => archives[thread[t].path] # None
    /\ thread[t].at = "read" => reading[t].stream \in streams /\ archives[thread[t].path] = reading[t].stream
Users == \A t \in Threads : User(t)

Sound == Shared /\ Owners /\ Entries /\ Users /\ ~freed
CacheInv == Types /\ (raced \/ Sound)

(* An empty manager has nothing that could dangle.                         *)
LEMMA CacheInit == Init => CacheInv
<1> SUFFICES ASSUME Init PROVE CacheInv
  OBVIOUS
<1>1. Idle \in Calls /\ Idle.at = "idle" /\ Idle.epoch = 0
  BY DEF Idle, Calls, Names, None
<1>2. \A t \in Threads : thread[t] = Idle
  BY DEF Init
<1>3. Types
  <2>1. thread \in [Threads -> Calls] /\ archives \in [Paths -> Nat]
    BY <1>1 DEF Init, None
  <2>2. processors \in [DOMAIN processors -> Nat] /\ assets \in [DOMAIN assets -> Nat]
    BY DEF Init, None
  <2>3. DOMAIN reading = Threads /\ \A t \in Threads : "stream" \in DOMAIN reading[t]
    BY DEF Init, NoRead
  <2> QED BY Zenon, <2>1, <2>2, <2>3 DEF Init, Types
<1>4. Shared
  BY <1>1, <1>2 DEF Init, Shared
<1>5. DOMAIN processors = {} /\ DOMAIN assets = {} /\ alive = {} /\ clearing = <<>> /\ ~freed
  BY DEF Init
<1>6. Users
  BY <1>1, <1>2 DEF Users, User, Loading, Copying, InArchive
<1> QED BY <1>3, <1>4, <1>5, <1>6 DEF CacheInv, Sound, Owners, Entries

-----------------------------------------------------------------------------
(* A thread that goes on in its call.                                      *)
LEMMA GoesLemma ==
    ASSUME Types, NEW t \in Threads, NEW to \in {"idle", "archived", "read", "file", "copy", "loaded", "cached"},
           Goes(t, to)
    PROVE  /\ thread' \in [Threads -> Calls] /\ thread'[t].at = to
           /\ thread'[t].path = thread[t].path /\ thread'[t].proc = thread[t].proc /\ thread'[t].epoch = thread[t].epoch
           /\ \A u \in Threads \ {t} : thread'[u] = thread[u]
<1>1. /\ thread'[t] = [thread[t] EXCEPT !.at = to]
      /\ \A u \in Threads \ {t} : thread'[u] = thread[u]
  BY DEF Goes, Types
<1>2. thread[t] \in Calls
  BY DEF Types
<1>3. /\ thread'[t] \in Calls /\ thread'[t].at = to /\ thread'[t].path = thread[t].path
      /\ thread'[t].proc = thread[t].proc /\ thread'[t].epoch = thread[t].epoch
  BY ZenonT(30), <1>1, <1>2 DEF Calls
<1>4. thread' \in [Threads -> Calls]
  BY <1>3 DEF Goes, Types
<1> QED BY <1>1, <1>3, <1>4

(* A load that ends.                                                       *)
LEMMA EndsLemma ==
    ASSUME Types, NEW t \in Threads, Ends(t)
    PROVE  /\ thread' \in [Threads -> Calls] /\ thread'[t].at = "loaded" /\ thread'[t].epoch = thread[t].epoch
           /\ \A u \in Threads \ {t} : thread'[u] = thread[u]
<1>1. /\ thread'[t] = [thread[t] EXCEPT !.at = "loaded", !.proc = None]
      /\ \A u \in Threads \ {t} : thread'[u] = thread[u]
  BY DEF Ends, Types
<1>2. thread[t] \in Calls /\ None \in Nat
  BY DEF Types, None
<1>3. thread'[t] \in Calls /\ thread'[t].at = "loaded" /\ thread'[t].epoch = thread[t].epoch
  BY ZenonT(30), <1>1, <1>2 DEF Calls
<1>4. thread' \in [Threads -> Calls]
  BY <1>3 DEF Ends, Types
<1> QED BY <1>1, <1>3, <1>4

(* A thread that begins another call.                                      *)
LEMMA BeginsLemma ==
    ASSUME Types, NEW t \in Threads, NEW c \in Calls, thread' = [thread EXCEPT ![t] = c]
    PROVE  /\ thread' \in [Threads -> Calls] /\ thread'[t] = c
           /\ \A u \in Threads \ {t} : thread'[u] = thread[u]
BY DEF Types

(* The other threads' results stay shared while no entry changes.          *)
LEMMA SharedKept ==
    ASSUME Shared, NEW t \in Threads, thread'[t].epoch <= epoch, thread'[t].at # "cached",
           \A u \in Threads \ {t} : thread'[u] = thread[u], UNCHANGED <<assets, epoch>>
    PROVE  Shared'
<1> SUFFICES ASSUME NEW u \in Threads
             PROVE  /\ thread'[u].epoch <= epoch'
                    /\ thread'[u].at = "cached" /\ thread'[u].epoch = epoch' =>
                          Key(u)' \in DOMAIN assets' /\ assets'[Key(u)'] = thread'[u].got
  BY DEF Shared
<1>1. CASE u = t
  BY <1>1
<1>2. CASE u # t
  <2>1. thread'[u] = thread[u] /\ Key(u)' = Key(u)
    BY <1>2 DEF Key
  <2> QED BY <2>1 DEF Shared
<1> QED BY <1>1, <1>2

(* Nor do the other threads lose what they hold on to.                     *)
LEMMA UsersKept ==
    ASSUME Users, NEW t \in Threads, User(t)',
           \A u \in Threads \ {t} : thread'[u] = thread[u] /\ reading'[u].stream = reading[u].stream,
           UNCHANGED <<processors, alive, assets, archives, streams, clearing>>
    PROVE  Users'
<1> SUFFICES ASSUME NEW u \in Threads, u # t PROVE User(u)'
  BY DEF Users
<1> QED BY DEF Users, User, Loading, Copying, InArchive

(* Nor does dropping entries disturb them: it starts an epoch of its own.  *)
LEMMA SharedDropped ==
    ASSUME Types, Shared, epoch' = epoch + 1, UNCHANGED thread PROVE Shared'
BY DEF Types, Calls, Shared, Key

-----------------------------------------------------------------------------
(* A processor is replaced by one with a number that nothing had.          *)
LEMMA AddLemma ==
    ASSUME Types, NEW i \in Ids, add_processor(i)
    PROVE  Types' /\ (~raced' /\ Sound => Sound')
<1> DEFINE old == IF i \in DOMAIN processors THEN {processors[i]} ELSE {}
<1>1. /\ made' = made + 1 /\ made \in Nat
      /\ processors' = [j \in DOMAIN processors \cup {i} |-> IF j = i THEN made' ELSE processors[j]]
      /\ alive' = (alive \ old) \cup {made'}
      /\ raced' = (raced \/ (i \in DOMAIN processors /\ InUse(processors[i])))
      /\ UNCHANGED <<assets, thread, reading, clearing, freed, epoch, store>>
  BY DEF add_processor, Types
<1>2. /\ DOMAIN processors' = DOMAIN processors \cup {i} /\ processors'[i] = made'
      /\ \A j \in DOMAIN processors : j # i => processors'[j] = processors[j]
  BY <1>1
<1>3. Types'
  <2>1. processors' \in [DOMAIN processors' -> Nat] /\ made' \in Nat /\ raced' \in BOOLEAN
    BY <1>1 DEF Types
  <2> QED BY <1>1, <2>1 DEF Types, store
<1>4. ASSUME ~raced', Sound PROVE Sound'
  <2>1. \A k \in DOMAIN assets : k[2] \notin old
    BY Zenon, <1>1, <1>4 DEF InUse
  <2>2. \A t \in Threads : Loading(t) => thread[t].proc \notin old
    BY Zenon, <1>1, <1>4 DEF InUse
  <2>3. \A k \in DOMAIN assets : assets[k] \notin old /\ k[2] # made' /\ assets[k] # made'
    BY <1>1, <1>4 DEF Sound, Types, Owners, Entries
  <2>4. \A j \in DOMAIN processors : processors[j] \in Nat /\ processors[j] # made' /\ (j # i => processors[j] \notin old)
    BY <1>1, <1>4 DEF Sound, Types, Owners
  <2>5. Owners'
    BY <1>1, <1>2, <1>4, <2>4 DEF Sound, Owners
  <2>6. Entries'
    <3>1. \A k \in DOMAIN assets : k[2] \in alive' /\ assets[k] <= made' /\ (Kept(k) => assets[k] \in alive')
      BY <1>1, <1>4, <2>1, <2>3 DEF Sound, Types, Entries
    <3>2. \A k \in DOMAIN assets : \A j \in DOMAIN processors' : assets[k] # processors'[j]
      BY <1>2, <1>4, <2>3 DEF Sound, Entries
    <3> QED BY <1>1, <1>4, <3>1, <3>2 DEF Sound, Entries, Kept
  <2>7. \A t \in Threads : Copying(t) => /\ thread[t].asset \in alive' /\ thread[t].asset # made'
                                         /\ \A j \in DOMAIN processors' : thread[t].asset # processors'[j]
    BY <1>1, <1>2, <1>4 DEF Sound, Owners, Users, User
  <2>8. Users'
    BY <1>1, <1>4, <2>2, <2>7 DEF Sound, Users, User, Loading, Copying, InArchive, store
  <2>9. Shared'
    BY <1>1, <1>4 DEF Sound, Shared, Key
  <2> QED BY <1>1, <1>4, <2>5, <2>6, <2>8, <2>9 DEF Sound
<1> QED BY <1>3, <1>4

(* Processors without entries and loads go.                                *)
LEMMA RemoveLemma ==
    ASSUME Types, NEW R \in SUBSET DOMAIN processors,
           alive' = alive \ {processors[i] : i \in R}, processors' = [j \in DOMAIN processors \ R |-> processors[j]],
           raced' = (raced \/ \E i \in R : InUse(processors[i])),
           UNCHANGED <<assets, thread, reading, clearing, freed, epoch, made, store>>
    PROVE  Types' /\ (~raced' /\ Sound => Sound')
<1>1. DOMAIN processors' = DOMAIN processors \ R /\ \A j \in DOMAIN processors' : processors'[j] = processors[j]
  OBVIOUS
<1>2. Types'
  <2>1. processors' \in [DOMAIN processors' -> Nat] /\ raced' \in BOOLEAN
    BY DEF Types
  <2> QED BY <2>1 DEF Types, store
<1>3. ASSUME ~raced', Sound PROVE Sound'
  <2>1. \A i \in R, k \in DOMAIN assets : k[2] # processors[i] /\ assets[k] # processors[i]
    BY Zenon, <1>3 DEF InUse, Sound, Entries
  <2>2. \A i \in R, t \in Threads : Loading(t) => thread[t].proc # processors[i]
    BY Zenon, <1>3 DEF InUse
  <2>3. Owners'
    BY <1>1, <1>3 DEF Sound, Owners
  <2>4. Entries'
    BY <1>1, <1>3, <2>1 DEF Sound, Entries, Kept
  <2>5. Users'
    BY <1>1, <1>3, <2>2 DEF Sound, Users, User, Loading, Copying, InArchive, store
  <2>6. Shared'
    BY <1>3 DEF Sound, Shared, Key
  <2> QED BY <1>3, <2>3, <2>4, <2>5, <2>6 DEF Sound
<1> QED BY <1>2, <1>3

(* Archives come and go beside the cache.                                  *)
LEMMA ArchiveLemma ==
    ASSUME Types, (\E S \in (SUBSET Paths) \ {{}} : import_archive(S)) \/ clear_archives \/ clear_streams
    PROVE  Types' /\ (~raced' /\ Sound => Sound')
<1>1. UNCHANGED <<processors, alive, assets, thread, reading, clearing, freed, epoch, made>>
  BY DEF import_archive, clear_archives, clear_streams
<1>2. archives' \in [Paths -> Nat] /\ opened' \in Nat /\ raced' \in BOOLEAN
  <2>1. archives \in [Paths -> Nat] /\ opened \in Nat /\ raced \in BOOLEAN
    BY DEF Types
  <2>2. CASE clear_archives \/ clear_streams
    <3>1. archives' \in [Paths -> Nat] /\ opened' \in Nat
      BY <2>1, <2>2 DEF clear_archives, clear_streams, None
    <3>2. raced' \in BOOLEAN
      BY Zenon, <2>1, <2>2 DEF clear_archives, clear_streams
    <3> QED BY <3>1, <3>2
  <2>3. ASSUME NEW S \in SUBSET Paths, import_archive(S) PROVE archives' \in [Paths -> Nat] /\ opened' \in Nat /\ raced' \in BOOLEAN
    BY <2>1, <2>3 DEF import_archive
  <2> QED BY <2>2, <2>3
<1>3. Types'
  BY <1>1, <1>2 DEF Types
<1>4. ASSUME ~raced', Sound PROVE Users'
  <2>1. \A t \in Threads : InArchive(t) => thread[t].path \in Paths
    BY <1>4 DEF Sound, Users, User, InArchive, Loading
  <2>2. CASE clear_archives \/ clear_streams
    BY Zenon, <1>1, <1>4, <2>2 DEF clear_archives, clear_streams, Sound, Users, User, Loading, Copying, InArchive
  <2>3. ASSUME NEW S \in SUBSET Paths, import_archive(S) PROVE Users'
    <3>1. /\ streams \subseteq streams' /\ opened' # None
          /\ \A p \in Paths : archives'[p] = IF p \in S THEN opened' ELSE archives[p]
          /\ \A t \in Threads : ~(thread[t].at = "read" /\ thread[t].path \in S)
      <4>1. opened \in Nat
        BY DEF Types
      <4>2. opened' # None /\ streams \subseteq streams'
        BY <2>3, <4>1 DEF import_archive, None
      <4>3. \A p \in Paths : archives'[p] = IF p \in S THEN opened' ELSE archives[p]
        BY <2>3 DEF import_archive
      <4>4. \A t \in Threads : ~(thread[t].at = "read" /\ thread[t].path \in S)
        BY Zenon, <1>4, <2>3 DEF import_archive
      <4> QED BY <4>2, <4>3, <4>4
    <3> QED BY <1>1, <1>4, <2>1, <3>1 DEF Sound, Users, User, Loading, Copying, InArchive
  <2> QED BY <2>2, <2>3
<1>5. ASSUME Sound PROVE Shared' /\ Owners' /\ Entries' /\ ~freed'
  BY <1>1, <1>5 DEF Sound, Shared, Key, Owners, Entries, Kept
<1> QED BY <1>3, <1>4, <1>5 DEF Sound

-----------------------------------------------------------------------------
(* load takes a processor that is registered.                              *)
LEMMA LoadLemma ==
    ASSUME Types, NEW t \in Threads, NEW p \in Paths, NEW i \in Ids, load(t, p, i)
    PROVE  Types' /\ (~raced' /\ Sound => Sound')
<1> DEFINE c == [at |-> IF archives[p] # None THEN "archived" ELSE "file", path |-> p, proc |-> processors[i],
                 asset |-> None, got |-> None, epoch |-> 0]
<1>1. /\ i \in DOMAIN processors /\ thread' = [thread EXCEPT ![t] = c]
      /\ UNCHANGED <<processors, alive, assets, clearing, freed, raced, epoch, made, store>>
      /\ reading' = [reading EXCEPT ![t] = NoRead]
  BY DEF load
<1>2. c \in Calls
  BY <1>1 DEF Types, Calls, Names, None
<1>3. thread' \in [Threads -> Calls] /\ thread'[t] = c /\ \A u \in Threads \ {t} : thread'[u] = thread[u]
  <2> HIDE DEF c
  <2> QED BY Zenon, <1>1, <1>2, BeginsLemma
<1>4. Types'
  <2>1. DOMAIN reading' = Threads /\ \A u \in Threads : "stream" \in DOMAIN reading'[u]
    BY <1>1 DEF Types, NoRead
  <2> QED BY <1>1, <1>3, <2>1 DEF Types, store
<1>5. ASSUME Sound PROVE Sound'
  <2>1. Shared'
    BY <1>1, <1>3, <1>5, SharedKept DEF Sound, Types
  <2>2. Users'
    <3>1. User(t)'
      BY <1>1, <1>3, <1>5 DEF Sound, Owners, Entries, User, Loading, Copying, InArchive, store
    <3>2. \A u \in Threads \ {t} : reading'[u].stream = reading[u].stream
      BY <1>1 DEF Types
    <3> QED BY <1>1, <1>3, <1>5, <3>1, <3>2, UsersKept DEF Sound, store
  <2> QED BY <1>1, <1>5, <2>1, <2>2 DEF Sound, Owners, Entries, Kept
<1> QED BY <1>1, <1>4, <1>5

(* What the steps of a load have in common: they change no entry, and the  *)
(* thread holds on to what it did, or to nothing any more.                 *)
LEMMA GoesOnLemma ==
    ASSUME Types, NEW t \in Threads, Goes(t, "read") \/ Goes(t, "file") \/ Ends(t),
           DOMAIN reading' = Threads, \A u \in Threads : "stream" \in DOMAIN reading'[u],
           freed' \in BOOLEAN,
           UNCHANGED <<processors, alive, assets, archives, streams, opened, clearing, raced, epoch, made>>
    PROVE  /\ Types'
           /\ Shared /\ Owners /\ Entries => Shared' /\ Owners' /\ Entries'
<1>1. /\ thread' \in [Threads -> Calls] /\ thread'[t].at # "cached" /\ thread'[t].epoch = thread[t].epoch
      /\ \A u \in Threads \ {t} : thread'[u] = thread[u]
  BY GoesLemma, EndsLemma
<1>2. Types'
  BY <1>1 DEF Types
<1>3. ASSUME Shared PROVE Shared'
  BY <1>1, <1>3, SharedKept DEF Shared
<1>4. ASSUME Owners, Entries PROVE Owners' /\ Entries'
  BY <1>4 DEF Owners, Entries, Kept
<1> QED BY <1>2, <1>3, <1>4

(* load_from_archive takes the entry, and leaves for a file or moves the   *)
(* stream.                                                                 *)
LEMMA ArchivedLemma ==
    ASSUME Types, NEW t \in Threads, load_from_archive(t)
    PROVE  Types' /\ (~raced' /\ Sound => Sound')
<1>1. /\ thread[t].at = "archived" /\ (Goes(t, "read") \/ Goes(t, "file"))
      /\ UNCHANGED <<processors, alive, assets, archives, streams, opened, clearing, raced, epoch, made>>
  BY DEF load_from_archive
<1>2. /\ DOMAIN reading' = Threads
      /\ \A u \in Threads : "stream" \in DOMAIN reading'[u] /\ (u # t => reading'[u].stream = reading[u].stream)
      /\ Goes(t, "read") => reading'[t].stream = archives[thread[t].path]
  <2>1. CASE UNCHANGED reading /\ Goes(t, "file")
    <3>1. thread'[t].at = "file"
      BY <2>1, GoesLemma
    <3>2. ~Goes(t, "read")
      BY <3>1, GoesLemma
    <3> QED BY <2>1, <3>2 DEF Types
  <2>2. CASE reading' = [u \in Threads |->
                IF u = t THEN [reading[t] EXCEPT !.stream = archives[thread[t].path]]
                ELSE [reading[u] EXCEPT !.mine = @ /\ ~(thread[u].at = "read" /\ reading[u].stream = archives[thread[t].path])]]
    BY <2>2 DEF Types
  <2> QED BY <2>1, <2>2 DEF load_from_archive
<1>3. freed' \in BOOLEAN
  BY Zenon DEF load_from_archive, Uses, Types
<1>4. Types' /\ (Shared /\ Owners /\ Entries => Shared' /\ Owners' /\ Entries')
  BY <1>1, <1>2, <1>3, GoesOnLemma
<1>5. ASSUME Sound PROVE Users' /\ ~freed'
  <2>1. thread[t].proc \in alive /\ thread[t].path \in Paths /\ archives[thread[t].path] # None
        /\ \A k \in DOMAIN assets : assets[k] # thread[t].proc
    BY <1>1, <1>5 DEF Sound, Users, User, Loading, InArchive
  <2>2. ~freed'
    BY Zenon, <1>5, <2>1 DEF load_from_archive, Uses, Sound
  <2>3. thread'[t].path = thread[t].path /\ thread'[t].proc = thread[t].proc
    BY <1>1, GoesLemma
  <2>4. \/ thread'[t].at = "file"
        \/ thread'[t].at = "read" /\ Goes(t, "read") /\ archives[thread[t].path] \in streams
    BY <1>1, GoesLemma DEF load_from_archive
  <2>5. User(t)'
    BY <1>1, <1>2, <2>1, <2>3, <2>4 DEF User, Loading, Copying, InArchive
  <2>6. \A u \in Threads \ {t} : thread'[u] = thread[u]
    BY <1>1, GoesLemma
  <2> QED BY <1>1, <1>2, <1>5, <2>2, <2>5, <2>6, UsersKept DEF Sound
<1> QED BY <1>4, <1>5 DEF Sound

(* The stream is read, and the load ends or goes on with the file.         *)
LEMMA ReadLemma ==
    ASSUME Types, NEW t \in Threads, deserialize(t) \/ load_file(t)
    PROVE  Types' /\ (~raced' /\ Sound => Sound')
<1>1. /\ Loading(t) /\ (Ends(t) \/ Goes(t, "file"))
      /\ UNCHANGED <<processors, alive, assets, archives, streams, opened, clearing, raced, epoch, made>>
  BY DEF deserialize, load_file, Loading, store
<1>2. /\ DOMAIN reading' = Threads
      /\ \A u \in Threads : "stream" \in DOMAIN reading'[u] /\ (u # t => reading'[u].stream = reading[u].stream)
  <2>1. CASE reading' = [reading EXCEPT ![t] = NoRead]
    BY <2>1 DEF Types, NoRead
  <2>2. ASSUME NEW r, reading' = [reading EXCEPT ![t].read = r]
        PROVE  /\ DOMAIN reading' = Threads
               /\ \A u \in Threads : "stream" \in DOMAIN reading'[u] /\ (u # t => reading'[u].stream = reading[u].stream)
    BY <2>2 DEF Types
  <2> QED BY <2>1, <2>2 DEF deserialize, load_file
<1>3. freed' \in BOOLEAN
  BY Zenon DEF deserialize, load_file, Uses, Types
<1>4. Types' /\ (Shared /\ Owners /\ Entries => Shared' /\ Owners' /\ Entries')
  BY <1>1, <1>2, <1>3, GoesOnLemma
<1>5. ASSUME Sound PROVE Users' /\ ~freed'
  <2>1. thread[t].proc \in alive /\ thread[t].path \in Paths /\ \A k \in DOMAIN assets : assets[k] # thread[t].proc
    BY <1>1, <1>5 DEF Sound, Users, User
  <2>2. ~freed'
    BY Zenon, <1>5, <2>1 DEF deserialize, load_file, Uses, Sound, Users, User
  <2>3. thread'[t].at \in {"loaded", "file"} /\ \A u \in Threads \ {t} : thread'[u] = thread[u]
    BY <1>1, GoesLemma, EndsLemma
  <2>4. thread'[t].at = "file" => thread'[t].path = thread[t].path /\ thread'[t].proc = thread[t].proc
    BY <1>1, GoesLemma, EndsLemma
  <2>5. User(t)'
    BY <1>1, <2>1, <2>3, <2>4 DEF User, Loading, Copying, InArchive
  <2> QED BY <1>1, <1>2, <1>5, <2>2, <2>3, <2>5, UsersKept DEF Sound
<1> QED BY <1>4, <1>5 DEF Sound

-----------------------------------------------------------------------------
(* An asset is found while no cache is cleared, and copied.                *)
LEMMA LookLemma ==
    ASSUME Types, NEW t \in Threads,
           (\E p \in Paths, i \in Ids : find_cache_info(t, p, i)) \/ copy(t)
    PROVE  Types' /\ (~raced' /\ Sound => Sound')
<1>1. UNCHANGED <<processors, alive, assets, clearing, epoch, made, store>>
  BY DEF find_cache_info, copy
<1>2. CASE copy(t)
  <2>1. Idle \in Calls /\ Idle.at = "idle" /\ Idle.epoch = 0
    BY DEF Idle, Calls, Names, None
  <2>2. thread' \in [Threads -> Calls] /\ thread'[t] = Idle /\ \A u \in Threads \ {t} : thread'[u] = thread[u]
    BY Zenon, <1>2, <2>1, BeginsLemma DEF copy
  <2>3. UNCHANGED <<reading, raced>> /\ freed' \in BOOLEAN
    BY Zenon, <1>2 DEF copy, Uses, Types
  <2>4. Types'
    BY <1>1, <2>2, <2>3 DEF Types, store
  <2>5. ASSUME Sound PROVE Sound'
    <3>1. Shared'
      BY <1>1, <2>1, <2>2, <2>5, SharedKept DEF Sound, Types
    <3>2. User(t)'
      BY <2>1, <2>2 DEF User, Loading, Copying, InArchive
    <3>3. Users'
      BY <1>1, <2>2, <2>3, <2>5, <3>2, UsersKept DEF Sound, store
    <3>4. ~freed'
      BY Zenon, <1>2, <2>5 DEF copy, Uses, Sound, Users, User
    <3> QED BY <1>1, <2>5, <3>1, <3>3, <3>4 DEF Sound, Owners, Entries, Kept
  <2> QED BY <2>4, <2>5
<1>3. ASSUME NEW p \in Paths, NEW i \in Ids, find_cache_info(t, p, i)
      PROVE  Types' /\ (~raced' /\ Sound => Sound')
  <2> DEFINE k == <<p, processors[i]>>
             c == [at |-> "copy", path |-> p, proc |-> processors[i], asset |-> assets[k], got |-> None, epoch |-> 0]
  <2>1. /\ i \in DOMAIN processors /\ k \in DOMAIN assets /\ thread' = [thread EXCEPT ![t] = c]
        /\ reading' = [reading EXCEPT ![t] = NoRead] /\ UNCHANGED freed /\ raced' = (raced \/ clearing # <<>>)
    BY Zenon, <1>3 DEF find_cache_info, find_cache
  <2>2. c \in Calls
    BY <2>1 DEF Types, Calls, Names, None
  <2>3. thread' \in [Threads -> Calls] /\ thread'[t] = c /\ \A u \in Threads \ {t} : thread'[u] = thread[u]
    <3> HIDE DEF c
    <3> QED BY Zenon, <2>1, <2>2, BeginsLemma
  <2>4. /\ DOMAIN reading' = Threads /\ \A u \in Threads : "stream" \in DOMAIN reading'[u]
        /\ \A u \in Threads \ {t} : reading'[u].stream = reading[u].stream
    BY <2>1 DEF Types, NoRead
  <2>5. raced' \in BOOLEAN
    BY Zenon, <2>1 DEF Types
  <2>6. Types'
    BY <1>1, <2>1, <2>3, <2>4, <2>5 DEF Types, store
  <2>7. ASSUME ~raced', Sound PROVE Sound'
    <3>1. Shared'
      BY SMTT(20), <1>1, <2>3, <2>7, SharedKept DEF Sound, Types
    <3>2. clearing = <<>> /\ assets[k] \in alive /\ \A j \in DOMAIN processors : assets[k] # processors[j]
      BY Zenon, <2>1, <2>7 DEF Sound, Entries, Kept
    <3>3. User(t)'
      BY <1>1, <2>3, <3>2 DEF User, Loading, Copying, InArchive
    <3>4. Users'
      BY <1>1, <2>3, <2>4, <2>7, <3>3, UsersKept DEF Sound, store
    <3> QED BY <1>1, <2>1, <2>7, <3>1, <3>4 DEF Sound, Owners, Entries, Kept
  <2> QED BY <2>6, <2>7
<1> QED BY <1>2, <1>3

(* try_to_cache leaves an entry as it is, or adds one with an asset that   *)
(* nothing else is.                                                        *)
LEMMA CacheLemma ==
    ASSUME Types, NEW t \in Threads, NEW p \in Paths, NEW i \in Ids, try_to_cache(t, p, i)
    PROVE  Types' /\ (~raced' /\ Sound => Sound')
<1> DEFINE key == <<p, processors[i]>>
           keep == key \in DOMAIN assets
           got == IF ~keep THEN made' ELSE IF assets[key] \in alive THEN assets[key] ELSE None
           c == [at |-> "cached", path |-> p, proc |-> processors[i], asset |-> None, got |-> got, epoch |-> epoch]
<1>1. /\ i \in DOMAIN processors /\ made' = made + 1 /\ made \in Nat
      /\ freed' = (freed \/ (keep /\ assets[key] \notin alive)) /\ raced' = (raced \/ clearing # <<>>)
      /\ assets' = IF keep THEN assets ELSE [k \in DOMAIN assets \cup {key} |-> IF k = key THEN made' ELSE assets[k]]
      /\ alive' = IF keep THEN alive ELSE alive \cup {made'}
      /\ thread' = [thread EXCEPT ![t] = c]
      /\ reading' = [reading EXCEPT ![t] = NoRead]
      /\ UNCHANGED <<processors, clearing, epoch, store>>
  BY DEF try_to_cache, Cached, Types
<1>2. c \in Calls
  BY <1>1 DEF Types, Calls, Names, None
<1>3. thread' \in [Threads -> Calls] /\ thread'[t] = c /\ \A u \in Threads \ {t} : thread'[u] = thread[u]
  <2> HIDE DEF c
  <2> QED BY Zenon, <1>1, <1>2, BeginsLemma
<1>4. /\ key \in DOMAIN assets' /\ assets' \in [DOMAIN assets' -> Nat]
      /\ \A k \in DOMAIN assets' : assets'[k] = IF ~keep /\ k = key THEN made' ELSE assets[k]
      /\ \A k \in DOMAIN assets' : k = key \/ k \in DOMAIN assets
      /\ \A k \in DOMAIN assets : k \in DOMAIN assets'
  <2>1. CASE keep
    BY <1>1, <2>1 DEF Types
  <2>2. CASE ~keep
    BY <1>1, <2>2 DEF Types
  <2> QED BY <2>1, <2>2
<1>5. /\ DOMAIN reading' = Threads /\ \A u \in Threads : "stream" \in DOMAIN reading'[u]
      /\ \A u \in Threads \ {t} : reading'[u].stream = reading[u].stream
  BY <1>1 DEF Types, NoRead
<1>6. Types'
  <2>1. raced' \in BOOLEAN /\ freed' \in BOOLEAN
    BY Zenon, <1>1 DEF Types
  <2> QED BY <1>1, <1>3, <1>4, <1>5, <2>1 DEF Types, store
<1>7. ASSUME ~raced', Sound PROVE Sound'
  <2>1. clearing = <<>> /\ clearing' = <<>> /\ (keep => assets[key] \in alive) /\ alive \subseteq alive'
    BY Zenon, <1>1, <1>7 DEF Sound, Entries, Kept
  <2>2. got = assets'[key] /\ ~freed'
    BY Zenon, <1>1, <1>4, <1>7, <2>1 DEF Sound
  <2>3. Shared'
    <3> SUFFICES ASSUME NEW u \in Threads
                 PROVE  /\ thread'[u].epoch <= epoch'
                        /\ thread'[u].at = "cached" /\ thread'[u].epoch = epoch' =>
                              Key(u)' \in DOMAIN assets' /\ assets'[Key(u)'] = thread'[u].got
      BY DEF Shared
    <3>1. CASE u = t
      <4>1. thread'[u].epoch = epoch /\ thread'[u].got = got /\ Key(u)' = key
        BY <1>3, <3>1 DEF Key
      <4> HIDE DEF key, got
      <4> QED BY <1>1, <1>4, <2>2, <4>1 DEF Types
    <3>2. CASE u # t
      <4>1. thread'[u] = thread[u] /\ Key(u)' = Key(u)
        BY <1>3, <3>2 DEF Key
      <4> HIDE DEF key, got, c
      <4> QED BY <1>1, <1>4, <1>7, <4>1 DEF Sound, Shared
    <3> QED BY <3>1, <3>2
  <2>4. \A n \in alive : n \in Nat /\ n < made'
    BY <1>1, <1>7 DEF Sound, Owners
  <2>5. Owners'
    BY <1>1, <1>7, <2>1, <2>4 DEF Sound, Owners
  <2>6. Entries'
    <3>1. \A k \in DOMAIN assets' : k[2] \in alive
      BY <1>1, <1>4, <1>7 DEF Sound, Owners, Entries
    <3>2. \A k \in DOMAIN assets' : assets'[k] <= made' /\ assets'[k] \in alive'
      BY <1>1, <1>4, <1>7, <2>1 DEF Sound, Entries, Kept, Types
    <3>3. \A k \in DOMAIN assets : assets[k] \in alive
      BY <1>7, <2>1 DEF Sound, Entries, Kept
    <3>4. \A k, m \in DOMAIN assets' : (assets'[k] = assets'[m] => k = m)
      BY SMTT(20), <1>4, <1>7, <2>4, <3>3 DEF Sound, Entries
    <3>5. \A k, m \in DOMAIN assets' : assets'[k] # m[2]
      <4> SUFFICES ASSUME NEW k \in DOMAIN assets', NEW m \in DOMAIN assets' PROVE assets'[k] # m[2]
        OBVIOUS
      <4>1. CASE ~keep /\ k = key
        BY <1>4, <2>4, <3>1, <4>1
      <4>2. CASE ~(~keep /\ k = key)
        <5>1. k \in DOMAIN assets /\ assets'[k] = assets[k]
          BY <1>4, <4>2
        <5>2. m \in DOMAIN assets \/ m[2] = processors[i]
          BY <1>4
        <5> QED BY <1>1, <1>7, <5>1, <5>2 DEF Sound, Entries
      <4> QED BY <4>1, <4>2
    <3>6. \A k \in DOMAIN assets' : \A j \in DOMAIN processors : assets'[k] # processors[j]
      BY <1>4, <1>7, <2>4 DEF Sound, Entries, Owners
    <3>7. \A k \in DOMAIN assets' : k[2] \in alive' /\ processors' = processors
      BY <1>1, <2>1, <3>1
    <3> HIDE DEF key, keep, got, c
    <3> QED BY <2>1, <3>2, <3>4, <3>5, <3>6, <3>7 DEF Entries, Kept
  <2>7. Users'
    <3> SUFFICES ASSUME NEW u \in Threads PROVE User(u)'
      BY DEF Users
    <3>1. CASE u = t
      <4>1. thread'[u].at = "cached"
        BY <1>3, <3>1
      <4> QED BY <4>1 DEF User, Loading, Copying, InArchive
    <3>2. CASE u # t
      <4>1. thread'[u] = thread[u] /\ reading'[u].stream = reading[u].stream
        BY <1>3, <1>5, <3>2
      <4>2. User(u) /\ UNCHANGED <<archives, streams, processors>>
        BY <1>1, <1>7 DEF Sound, Users, store
      <4>3. Loading(u) => \A k \in DOMAIN assets' : assets'[k] # thread[u].proc
        BY <1>4, <2>4, <4>2 DEF User
      <4> HIDE DEF key, keep, got, c
      <4> QED BY SMTT(20), <2>1, <4>1, <4>2, <4>3 DEF User, Loading, Copying, InArchive
    <3> QED BY <3>1, <3>2
  <2> QED BY <2>2, <2>3, <2>5, <2>6, <2>7 DEF Sound
<1> QED BY <1>6, <1>7

(* clear_cache begins when nothing it frees is used, frees every entry     *)
(* once and drops them.                                                    *)
LEMMA ClearLemma ==
    ASSUME Types, clear_cache \/ clear_entry \/ clear_end
    PROVE  Types' /\ (~raced' /\ Sound => Sound')
<1>1. CASE clear_cache
  <2>1. /\ clearing' = <<DOMAIN assets>> /\ raced' = (raced \/ clearing # <<>> \/ \E t \in Threads : Copying(t))
        /\ UNCHANGED <<processors, alive, assets, thread, reading, freed, epoch, made, store>>
    BY <1>1 DEF clear_cache
  <2>2. Types'
    <3>1. raced' \in BOOLEAN
      BY Zenon, <2>1 DEF Types
    <3> QED BY <2>1, <3>1 DEF Types, store
  <2>3. ASSUME ~raced', Sound PROVE Sound'
    <3>1. Entries'
      BY Zenon, <2>1, <2>3 DEF Sound, Entries, Kept
    <3>2. Users'
      BY Zenon, <2>1, <2>3 DEF Sound, Users, User, Loading, Copying, InArchive, store
    <3> QED BY <2>1, <2>3, <3>1, <3>2 DEF Sound, Owners, Shared, Key
  <2> QED BY <2>2, <2>3
<1>2. CASE clear_entry
  <2>1. PICK k \in clearing[1] :
          /\ clearing # <<>> /\ clearing' = <<clearing[1] \ {k}>>
          /\ IF k \in DOMAIN assets THEN Uses({k[2], assets[k]}) /\ alive' = alive \ {assets[k]}
             ELSE freed' = TRUE /\ UNCHANGED alive
    BY Zenon, <1>2 DEF clear_entry
  <2>2. UNCHANGED <<processors, assets, thread, reading, raced, epoch, made, store>>
    BY <1>2 DEF clear_entry
  <2>3. Types'
    <3>1. freed' \in BOOLEAN
      BY Zenon, <2>1 DEF Uses, Types
    <3>2. \E S : clearing' = <<S>>
      BY Zenon, <2>1
    <3> QED BY <2>2, <3>1, <3>2 DEF Types, store
  <2>4. ASSUME Sound PROVE Sound'
    <3>1. k \in DOMAIN assets /\ Kept(k) /\ {k[2], assets[k]} \subseteq alive
      BY <2>1, <2>4 DEF Sound, Entries, Kept
    <3>2. ~freed' /\ alive' = alive \ {assets[k]}
      BY Zenon, <2>1, <2>4, <3>1 DEF Sound, Uses
    <3>3. clearing' # <<>> /\ clearing'[1] = clearing[1] \ {k}
      BY <2>1
    <3>4. Entries'
      BY <2>1, <2>2, <2>4, <3>1, <3>2, <3>3 DEF Sound, Entries, Kept
    <3>5. Owners'
      BY <2>2, <2>4, <3>1, <3>2 DEF Sound, Owners, Entries
    <3>6. Users'
      BY <2>1, <2>2, <2>4, <3>1, <3>2 DEF Sound, Users, User, Loading, Copying, InArchive, store
    <3> QED BY <2>2, <2>4, <3>2, <3>4, <3>5, <3>6 DEF Sound, Shared, Key
  <2> QED BY <2>3, <2>4
<1>3. CASE clear_end
  <2>1. /\ clearing' = <<>> /\ DOMAIN assets' = {} /\ assets' \in [{} -> Nat] /\ epoch' = epoch + 1
        /\ clearing # <<>> /\ UNCHANGED <<processors, alive, thread, reading, freed, raced, made, store>>
    BY <1>3 DEF clear_end
  <2>2. Types'
    BY <2>1 DEF Types, store
  <2>3. ASSUME Sound PROVE Sound'
    <3>1. Shared'
      BY <2>1, <2>3, SharedDropped DEF Sound
    <3>2. Users'
      BY <2>1, <2>3 DEF Sound, Users, User, Loading, Copying, InArchive, store
    <3> QED BY <2>1, <2>3, <3>1, <3>2 DEF Sound, Owners, Entries
  <2> QED BY <2>2, <2>3
<1> QED BY <1>1, <1>2, <1>3

(* Entries of a path, or all of them with what they refer to, are dropped. *)
LEMMA DropLemma ==
    ASSUME Types, (\E p \in Paths : clear_path(p)) \/ destroy
    PROVE  Types' /\ (~raced' /\ Sound => Sound')
<1>1. ASSUME NEW p \in Paths, clear_path(p) PROVE Types' /\ (~raced' /\ Sound => Sound')
  <2>1. /\ DOMAIN assets' = {x \in DOMAIN assets : x[1] # p} /\ \A k \in DOMAIN assets' : assets'[k] = assets[k]
        /\ epoch' = epoch + 1 /\ raced' = (raced \/ clearing # <<>>)
        /\ UNCHANGED <<processors, alive, thread, reading, clearing, freed, made, store>>
    BY <1>1 DEF clear_path
  <2>2. Types'
    <3>1. raced' \in BOOLEAN
      BY Zenon, <2>1 DEF Types
    <3>2. assets' \in [DOMAIN assets' -> Nat]
      BY <1>1 DEF clear_path, Types
    <3> QED BY <2>1, <3>1, <3>2 DEF Types, store
  <2>3. ASSUME ~raced', Sound PROVE Sound'
    <3>1. Shared'
      BY <2>1, <2>3, SharedDropped DEF Sound
    <3>2. Entries'
      <4>1. clearing = <<>> /\ clearing' = <<>> /\ made' = made /\ alive' = alive /\ processors' = processors
        BY Zenon, <2>1, <2>3
      <4>2. \A k \in DOMAIN assets' : k \in DOMAIN assets /\ assets'[k] = assets[k]
        BY <2>1
      <4> QED BY <2>3, <4>1, <4>2 DEF Sound, Entries, Kept
    <3>3. Users'
      BY <2>1, <2>3 DEF Sound, Users, User, Loading, Copying, InArchive, store
    <3> QED BY <2>1, <2>3, <3>1, <3>2, <3>3 DEF Sound, Owners
  <2> QED BY <2>2, <2>3
<1>2. CASE destroy
  <2>1. /\ clearing = <<>> /\ \A t \in Threads : Resting(t)
        /\ DOMAIN assets' = {} /\ assets' \in [{} -> Nat] /\ DOMAIN processors' = {} /\ processors' \in [{} -> Nat]
        /\ alive' \subseteq alive /\ archives' \in [Paths -> Nat] /\ epoch' = epoch + 1
        /\ UNCHANGED <<thread, reading, clearing, raced, made, opened>>
    BY <1>2 DEF destroy, None
  <2>2. Types'
    <3>1. freed' \in BOOLEAN
      BY Zenon, <1>2 DEF destroy, Types
    <3> QED BY <2>1, <3>1 DEF Types
  <2>3. ASSUME Sound PROVE Sound'
    <3>1. Shared'
      BY SMTT(20), <2>1, <2>3, SharedDropped DEF Sound
    <3>2. ~freed'
      BY Zenon, <1>2, <2>1, <2>3 DEF destroy, Sound, Entries, Kept
    <3>3. Users'
      BY <2>1 DEF Users, User, Loading, Copying, InArchive, Resting
    <3> QED BY <2>1, <2>3, <3>1, <3>2, <3>3 DEF Sound, Owners, Entries
  <2> QED BY <2>2, <2>3
<1> QED BY <1>1, <1>2

-----------------------------------------------------------------------------
(* Every call preserves the invariant.                                     *)
LEMMA CacheNext == CacheInv /\ [Next]_vars => CacheInv'
<1> SUFFICES ASSUME CacheInv, [Next]_vars PROVE CacheInv'
  OBVIOUS
<1>1. CASE UNCHANGED vars
  BY <1>1 DEF vars, store, CacheInv, Types, Sound, Shared, Key, Owners, Entries, Kept, Users, User, Loading, Copying, InArchive
<1>2. CASE Next
  <2>1. Types /\ (raced => raced')
    <3>1. Types
      BY DEF CacheInv
    <3>2. ASSUME NEW i \in Ids, add_processor(i) \/ remove_processor(i) PROVE raced => raced'
      BY Zenon, <3>2 DEF add_processor, remove_processor
    <3>3. ASSUME NEW t \in Threads, load_from_archive(t) \/ deserialize(t) \/ load_file(t) \/ copy(t) PROVE raced => raced'
      BY Zenon, <3>3 DEF load_from_archive, deserialize, load_file, copy
    <3>4. ASSUME NEW t \in Threads, NEW p \in Paths, NEW i \in Ids,
                 load(t, p, i) \/ find_cache_info(t, p, i) \/ try_to_cache(t, p, i)
          PROVE  raced => raced'
      BY Zenon, <3>4 DEF load, find_cache_info, try_to_cache, Cached
    <3>5. ASSUME NEW S \in (SUBSET Paths) \ {{}}, import_archive(S) PROVE raced => raced'
      BY Zenon, <3>5 DEF import_archive
    <3>6. CASE clear_archives \/ clear_streams \/ clear_processors
      BY Zenon, <3>1, <3>6 DEF clear_archives, clear_streams, clear_processors
    <3>7. CASE clear_cache \/ clear_entry \/ clear_end \/ destroy
      <4>1. clear_cache => (raced => raced')
        BY Zenon DEF clear_cache
      <4>2. clear_entry \/ clear_end \/ destroy => raced' = raced
        BY DEF clear_entry, clear_end, destroy
      <4> QED BY <3>1, <3>7, <4>1, <4>2
    <3>8. ASSUME NEW p \in Paths, clear_path(p) PROVE raced => raced'
      BY Zenon, <3>8 DEF clear_path
    <3> QED BY Zenon, <1>2, <3>1, <3>2, <3>3, <3>4, <3>5, <3>6, <3>7, <3>8 DEF Next
  <2>2. ASSUME NEW i \in Ids, remove_processor(i) PROVE Types' /\ (~raced' /\ Sound => Sound')
    <3>1. {i} \in SUBSET DOMAIN processors /\ {processors[j] : j \in {i}} = {processors[i]}
      BY <2>2 DEF remove_processor
    <3> QED BY Zenon, <2>1, <2>2, <3>1, RemoveLemma DEF remove_processor
  <2>3. ASSUME clear_processors PROVE Types' /\ (~raced' /\ Sound => Sound')
    <3>1. /\ processors' = [j \in DOMAIN processors \ DOMAIN processors |-> processors[j]]
          /\ DOMAIN processors \in SUBSET DOMAIN processors
      BY <2>3 DEF clear_processors
    <3> QED BY <2>1, <2>3, <3>1, RemoveLemma DEF clear_processors
  <2>4. Types' /\ (~raced' /\ Sound => Sound')
    <3>1. ASSUME NEW i \in Ids, add_processor(i) PROVE Types' /\ (~raced' /\ Sound => Sound')
      BY <2>1, <3>1, AddLemma
    <3>2. ASSUME NEW t \in Threads, NEW p \in Paths, NEW i \in Ids,
                 load(t, p, i) \/ find_cache_info(t, p, i) \/ try_to_cache(t, p, i)
          PROVE  Types' /\ (~raced' /\ Sound => Sound')
      BY Zenon, <2>1, <3>2, LoadLemma, LookLemma, CacheLemma
    <3>3. ASSUME NEW t \in Threads, load_from_archive(t) \/ deserialize(t) \/ load_file(t) \/ copy(t)
          PROVE  Types' /\ (~raced' /\ Sound => Sound')
      BY Zenon, <2>1, <3>3, ArchivedLemma, ReadLemma, LookLemma
    <3>4. CASE (\E S \in (SUBSET Paths) \ {{}} : import_archive(S)) \/ clear_archives \/ clear_streams
      BY <2>1, <3>4, ArchiveLemma
    <3>5. CASE clear_cache \/ clear_entry \/ clear_end
      BY <2>1, <3>5, ClearLemma
    <3>6. CASE (\E p \in Paths : clear_path(p)) \/ destroy
      BY <2>1, <3>6, DropLemma
    <3> QED BY Zenon, <1>2, <2>2, <2>3, <3>1, <3>2, <3>3, <3>4, <3>5, <3>6 DEF Next
  <2> QED BY <2>1, <2>4 DEF CacheInv
<1> QED BY <1>1, <1>2

LEMMA CacheInvariant == Spec => []CacheInv
BY CacheInit, CacheNext, PTL DEF Spec

(* Whatever the threads, paths and processors: all that cache a resource   *)
(* for one path and processor have the same one until entries are dropped, *)
(* unless a call overlapped a release of what it uses (layer.cpp 1028).    *)
THEOREM OneResource == Spec => []SameResource
<1>1. CacheInv => SameResource
  BY Zenon DEF CacheInv, Sound, Shared, SameResource, Key
<1> QED BY <1>1, CacheInvariant, PTL

(* Nothing is used after its release, and every entry refers to a live     *)
(* asset and a live processor, unless such an overlap came before: clearing*)
(* alone, beside loads and beside archives that come in, and destruction   *)
(* free every asset once.                                                  *)
THEOREM NothingDangles == Spec => [](NothingFreedUsed /\ CacheAlive)
<1>1. CacheInv => NothingFreedUsed /\ CacheAlive
  BY DEF CacheInv, Sound, Entries, Kept, NothingFreedUsed, CacheAlive
<1> QED BY <1>1, CacheInvariant, PTL
=============================================================================
