----------------------------- MODULE ResponseCache -----------------------------
(***************************************************************************)
(* zilli/cache/engine.py: CacheEngine, whose lock covers the memory, except *)
(* in clear, and not the files: threads that get, set, invalidate and       *)
(* clear, files that are truncated before they are written, entries that    *)
(* expire, and a process that crashes and reads its index again.  A text is *)
(* the number of the set that stored it.  HybridRouter_proofs extends this  *)
(* module too: the names the two would share begin with Cache here.         *)
(***************************************************************************)
EXTENDS Naturals, FiniteSets

CONSTANTS
    Thread,     \* threads that use the cache
    Key,        \* hashes of prompt, model and temperature
    MemorySize, \* CacheConfig.memory_size
    MaxSets,    \* bound: calls of set
    MaxHits,    \* bound: hit_count, which goes on growing
    MaxFaults   \* bound: write errors and crashes

ASSUME SizeAssumption == MemorySize \in Nat \ {0} /\ {MaxSets, MaxHits, MaxFaults} \subseteq Nat

VARIABLES
    memory,  \* entries in memory: a text and its hit_count
    disk,    \* the file of each key: a text, None or Broken
    index,   \* the keys of _index.json: none while it is cut short, or NoIndex
    expired, \* texts older than ttl_seconds
    doing,   \* what each thread still has to do
    sets,    \* calls of set so far
    latest,  \* history: the text a key should have, by the last call that changed it
    mixed,   \* history: keys whose calls overlapped or failed
    faults

cacheVars == <<memory, disk, index, expired, doing, sets, latest, mixed, faults>>

Text == 1..MaxSets
None == 0
Broken == MaxSets + 1
Empty == [k \in Key |-> [text |-> None, hits |-> 0]]
Idle == [op |-> "none"]
NoIndex == {None}

CacheInit ==
    /\ memory = Empty
    /\ disk = [k \in Key |-> None]
    /\ index = NoIndex
    /\ expired = {}
    /\ doing = [th \in Thread |-> Idle]
    /\ sets = 0
    /\ latest = [k \in Key |-> None]
    /\ mixed = {}
    /\ faults = 0

Held(m) == {k \in Key : m[k].text # None}

OverFull(m) == Cardinality(Held(m)) > MemorySize

\* _trim_memory: entries with the least hit_count go first, and of those with
\* as many any one.
Trimmed(m) ==
    IF ~ OverFull(m) THEN {m}
    ELSE {[m EXCEPT ![k].text = None, ![k].hits = 0] :
            k \in {k \in Held(m) : \A j \in Held(m) : m[k].hits <= m[j].hits}}

Hit(n) == IF n + 2 <= MaxHits THEN n + 2 ELSE MaxHits

\* The keys a call of a thread is about.
About(d) == IF d.op = "none" THEN {} ELSE d.keys
Busy(th) == UNION {About(doing[o]) : o \in Thread \ {th}}
Overlap(th, keys) == mixed' = mixed \union (keys \intersect Busy(th))

Expire ==
    /\ \E text \in 1..sets : text \notin expired /\ expired' = expired \union {text}
    /\ UNCHANGED <<memory, disk, index, doing, sets, latest, mixed, faults>>

-----------------------------------------------------------------------------
(* The lock, which clear does not take.  A call that holds it stops where a clear *)
(* can come in between: before it puts an entry into the memory and before it     *)
(* trims it.                                                                      *)
Unlocked == \A th \in Thread : doing[th].op \notin {"load", "trimGet", "trimSet"}

Begin(th, d, keys) ==
    /\ doing[th] = Idle
    /\ doing' = [doing EXCEPT ![th] = d]
    /\ Overlap(th, keys)

Trim(th) ==
    /\ doing[th].op \in {"trimGet", "trimSet"}
    /\ memory' \in Trimmed(memory)
    /\ doing' = [doing EXCEPT ![th] =
                   IF @.op = "trimGet" THEN Idle ELSE [@ EXCEPT !.op = "truncate"]]
    /\ UNCHANGED <<disk, index, expired, sets, latest, mixed, faults>>

\* The memory was cleared while _trim_memory looked for the oldest entry: min or
\* del raises, out of set or as a miss of get, and nothing is written.
TrimRaises(th) ==
    /\ doing[th].op \in {"trimGet", "trimSet"}
    /\ ~ OverFull(memory)
    /\ mixed' = mixed \union doing[th].keys
    /\ doing' = [doing EXCEPT ![th] = Idle]
    /\ UNCHANGED <<memory, disk, index, expired, sets, latest, faults>>

-----------------------------------------------------------------------------
(* get *)

GetFromMemory(th, k) ==
    /\ doing[th] = Idle /\ Unlocked
    /\ memory[k].text # None
    /\ memory' = IF memory[k].text \in expired
                   THEN [memory EXCEPT ![k].text = None, ![k].hits = 0]
                   ELSE [memory EXCEPT ![k].hits = Hit(@)]
    /\ Overlap(th, {k})
    /\ UNCHANGED <<disk, index, expired, doing, sets, latest, faults>>

\* A file read on a miss; one that cannot be decoded stays and is a miss.
GetFromDisk(th, k) ==
    /\ Unlocked
    /\ memory[k].text = None
    /\ disk[k] \in Text
    /\ Begin(th, [op |-> "load", keys |-> {k}, text |-> disk[k]], {k})
    /\ UNCHANGED <<memory, disk, index, expired, sets, latest, faults>>

\* One that has expired is deleted.
Load(th, k) ==
    /\ doing[th].op = "load" /\ doing[th].keys = {k}
    /\ IF doing[th].text \in expired
         THEN /\ disk' = [disk EXCEPT ![k] = None]
              /\ doing' = [doing EXCEPT ![th] = Idle]
              /\ UNCHANGED memory
         ELSE /\ memory' = [memory EXCEPT ![k] = [text |-> doing[th].text, hits |-> 1]]
              /\ doing' = [doing EXCEPT ![th] =
                             IF OverFull(memory') THEN [@ EXCEPT !.op = "trimGet"] ELSE Idle]
              /\ UNCHANGED disk
    /\ UNCHANGED <<index, expired, sets, latest, mixed, faults>>

-----------------------------------------------------------------------------
(* set: the memory under the lock, then the file, then the index *)

SetMemory(th, k) ==
    /\ sets < MaxSets /\ Unlocked
    /\ sets' = sets + 1
    /\ memory' = [memory EXCEPT ![k] = [text |-> sets + 1, hits |-> 0]]
    /\ Begin(th, [op |-> IF OverFull(memory') THEN "trimSet" ELSE "truncate",
                  keys |-> {k}, text |-> sets + 1], {k})
    /\ latest' = [latest EXCEPT ![k] = sets + 1]
    /\ UNCHANGED <<disk, index, expired, faults>>

\* A text over max_entry_size is not stored, and what the key had stays.
SetTooLarge(th, k) ==
    /\ doing[th] = Idle
    /\ sets < MaxSets
    /\ sets' = sets + 1
    /\ UNCHANGED <<memory, disk, index, expired, doing, latest, mixed, faults>>

Truncate(th) ==
    /\ doing[th].op = "truncate"
    /\ \A k \in doing[th].keys : disk' = [disk EXCEPT ![k] = Broken]
    /\ doing' = [doing EXCEPT ![th].op = "write"]
    /\ UNCHANGED <<memory, index, expired, sets, latest, mixed, faults>>

\* What the file of k holds once a text is written where it was truncated: a file
\* deleted since then stays deleted, and what another set has written since then
\* may be longer.
Written(k, text) ==
    IF disk[k] = Broken THEN {text} ELSE IF disk[k] = None THEN {None} ELSE {text, Broken}

Write(th) ==
    /\ doing[th].op = "write"
    /\ \A k \in doing[th].keys :
         \E file \in Written(k, doing[th].text) : disk' = [disk EXCEPT ![k] = file]
    /\ doing' = [doing EXCEPT ![th].op = "index"]
    /\ UNCHANGED <<memory, index, expired, sets, latest, mixed, faults>>

Fault ==
    /\ faults < MaxFaults
    /\ faults' = faults + 1

\* An OSError is logged and the call goes on.
WriteFails(th) ==
    /\ doing[th].op \in {"truncate", "write"}
    /\ Fault
    /\ mixed' = mixed \union doing[th].keys
    /\ doing' = [doing EXCEPT ![th].op = "index"]
    /\ UNCHANGED <<memory, disk, index, expired, sets, latest>>

\* _save_index lists the memory and truncates the file.
SaveIndex(th) ==
    /\ doing[th].op = "index"
    /\ index' = {}
    /\ doing' = [doing EXCEPT ![th] = [op |-> "saving", keys |-> @.keys, text |-> @.text,
                                       listed |-> Held(memory)]]
    /\ UNCHANGED <<memory, disk, expired, sets, latest, mixed, faults>>

\* A longer list that another thread wrote since then is not overwritten whole,
\* and the file cannot be decoded.
WriteIndex(th) ==
    /\ doing[th].op = "saving"
    /\ index' = IF index = NoIndex THEN NoIndex
                ELSE IF Cardinality(index) > Cardinality(doing[th].listed) THEN {}
                ELSE doing[th].listed
    /\ doing' = [doing EXCEPT ![th] = Idle]
    /\ UNCHANGED <<memory, disk, expired, sets, latest, mixed, faults>>

\* An OSError is logged; the index is what it was, or cut short.
IndexFails(th) ==
    /\ doing[th].op \in {"index", "saving"}
    /\ Fault
    /\ doing' = [doing EXCEPT ![th] = Idle]
    /\ UNCHANGED <<memory, disk, index, expired, sets, latest, mixed>>

-----------------------------------------------------------------------------
(* invalidate and clear: the memory, then the files *)

Forgotten(keys) == [k \in Key |-> IF k \in keys THEN [text |-> None, hits |-> 0] ELSE memory[k]]

Invalidate(th, k) ==
    /\ Unlocked
    /\ Begin(th, [op |-> "unlink", keys |-> {k}], {k})
    /\ memory' = Forgotten({k})
    /\ latest' = [latest EXCEPT ![k] = None]
    /\ UNCHANGED <<disk, index, expired, sets, faults>>

\* No lock: a get or a set may hold it.
Clear(th) ==
    /\ Begin(th, [op |-> "unlink", keys |-> Key], Key)
    /\ memory' = Empty
    /\ latest' = [k \in Key |-> None]
    /\ UNCHANGED <<disk, index, expired, sets, faults>>

\* clear deletes the index too, since it is a *.json file.
Unlink_MemoryOnly(th) ==
    /\ doing[th].op = "unlink"
    /\ doing' = [doing EXCEPT ![th] = Idle]
    /\ UNCHANGED <<memory, disk, index, expired, sets, latest, mixed, faults>>

Unlink(th) ==
    /\ doing[th].op = "unlink"
    /\ disk' = [k \in Key |-> IF k \in doing[th].keys THEN None ELSE disk[k]]
    /\ index' = IF doing[th].keys = Key THEN NoIndex ELSE index
    /\ doing' = [doing EXCEPT ![th] = Idle]
    /\ UNCHANGED <<memory, expired, sets, latest, mixed, faults>>

\* An OSError comes out of the call after some of the files.
UnlinkFails(th) ==
    /\ doing[th].op = "unlink"
    /\ Fault
    /\ mixed' = mixed \union doing[th].keys
    /\ \E gone \in SUBSET doing[th].keys :
         disk' = [k \in Key |-> IF k \in gone THEN None ELSE disk[k]]
    /\ doing' = [doing EXCEPT ![th] = Idle]
    /\ UNCHANGED <<memory, index, expired, sets, latest>>

-----------------------------------------------------------------------------
(* The process *)

\* _load_index: the indexed entries whose file can be read, expired or not.
Loaded(keys) ==
    [k \in Key |-> [text |-> IF k \in keys /\ disk[k] \in Text THEN disk[k] ELSE None, hits |-> 0]]

\* The last memory_size keys of the index are loaded.
CrashAndRestart ==
    /\ Fault
    /\ \E keys \in SUBSET index :
         /\ Cardinality(keys) <= MemorySize
         /\ Cardinality(keys) = MemorySize \/ keys = index
         /\ memory' = Loaded(keys)
    /\ mixed' = mixed \union UNION {About(doing[th]) : th \in Thread}
    /\ doing' = [th \in Thread |-> Idle]
    /\ UNCHANGED <<disk, index, expired, sets, latest>>

CacheNext ==
    \/ Expire
    \/ \E th \in Thread, k \in Key :
         \/ GetFromMemory(th, k) \/ GetFromDisk(th, k) \/ Load(th, k)
         \/ SetMemory(th, k) \/ SetTooLarge(th, k) \/ Invalidate(th, k)
    \/ \E th \in Thread :
         \/ Trim(th) \/ TrimRaises(th)
         \/ Truncate(th) \/ Write(th) \/ WriteFails(th)
         \/ SaveIndex(th) \/ WriteIndex(th) \/ IndexFails(th)
         \/ Clear(th) \/ Unlink(th) \/ UnlinkFails(th)
    \/ CrashAndRestart

CacheSpec == CacheInit /\ [][CacheNext]_cacheVars

-----------------------------------------------------------------------------
(* Properties *)

WorkOps == {"load", "trimGet", "trimSet", "truncate", "write", "index"}
Working == [op : WorkOps, keys : {{k} : k \in Key}, text : Text]
Saving == [op : {"saving"}, keys : {{k} : k \in Key}, text : Text, listed : SUBSET Key]
Unlinking == [op : {"unlink"}, keys : SUBSET Key]
CacheCalls == {Idle} \union Working \union Saving \union Unlinking

CacheTypeOK ==
    /\ memory \in [Key -> [text : Nat, hits : Nat]]
    /\ disk \in [Key -> Nat]
    /\ index \in (SUBSET Key) \union {NoIndex} /\ mixed \subseteq Key
    /\ expired \subseteq Nat
    /\ doing \in [Thread -> CacheCalls]
    /\ sets \in 0..MaxSets /\ faults \in Nat
    /\ latest \in [Key -> 0..MaxSets]

\* A key whose calls neither overlapped nor failed is in the hands of one
\* thread at most; memory has its latest text or none, and the file has it
\* except where that thread has not come to it.
KeyInOneHand(k) ==
    /\ \A a, b \in Thread : k \in About(doing[a]) /\ k \in About(doing[b]) => a = b
    /\ memory[k].text \in {None, latest[k]}
    /\ \A th \in Thread : k \in About(doing[th]) =>
         /\ doing[th].op # "unlink" => doing[th].text = latest[k] /\ latest[k] \in Text
         /\ doing[th].op = "unlink" => latest[k] = None
         /\ doing[th].op = "write" => disk[k] = Broken
    /\ (\A th \in Thread : k \in About(doing[th]) =>
            doing[th].op \in {"load", "trimGet", "index", "saving"}) =>
         disk[k] = latest[k] \/ (disk[k] = None /\ latest[k] \in expired)

OneHand == \A k \in Key \ mixed : KeyInOneHand(k)

\* What get finds for a key whose calls neither overlapped nor failed is the
\* text of the last set that stored one, or nothing after an invalidate, a clear
\* or the end of its life: eviction, loading from the file, a text too large to
\* store and a restart bring no older text back (get, set, invalidate, clear,
\* _load_index).
Coherent ==
    \A k \in Key \ mixed :
        (\A th \in Thread : k \notin About(doing[th])) =>
            /\ memory[k].text \in {None, latest[k]}
            /\ disk[k] = latest[k] \/ (disk[k] = None /\ latest[k] \in expired)

=============================================================================
