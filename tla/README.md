# Verification of ksu_props

TLA+ specifications of the property areas, the persistent property files, the
property contexts and the two commands of this repository, the TLC runs that
check them on small instances, and TLAPS proofs about the area file, the live
areas and those who wait for them, the persistent files, resetprop and sysprop
for every value of the constants.
`PROJECT.json` lists every run, every mapped definition with its source lines,
the hazards of the code and the findings.

    tlc -workers 2 -config MCPropArea.cfg MCPropArea.tla
    tlapm PropAreaProofs.tla
    tlapm PropAreaCompactProofs.tla
    tlapm SharedPropProofs.tla
    tlapm MmapTrieProofs.tla
    tlapm LiveStoreProofs.tla
    tlapm PersistFileProofs.tla
    tlapm ResetPropProofs.tla
    tlapm SyspropProofs.tla

## 1. The system

| component | source | state it keeps | operations |
|---|---|---|---|
| property area file | `crates/prop-rs/src/prop_area.rs`, `prop_info.rs` | one file: `bytes_used`, a trie of nodes, prop_infos, long values | `create`, `get_property`, `set_property`, `delete_property`, `compact_allocations`, iteration, hole scan |
| live property area | `crates/prop-rs-android/src/mmap_prop_area.rs` | the same layout in memory that every process maps; one serial for each property and one for the area | `upsert`, `add`, `update`, `remove`, `bump_area_serial_and_wake`, `find`, `read_prop` |
| system properties | `sys_prop.rs` | the mapped areas, one for each SELinux context, the global serial area, the appcompat_override areas | `find`, `get`, `set`, `delete`, `compact`, `wait` |
| persistent property file | `crates/prop-rs/src/persistent_prop.rs` | a sorted list of records, replaced as a whole; or one file for each key | `load`, `set`, `delete`, `write_to_path` |
| persist | `persist.rs` | that file and its SELinux label | read, modify and write |
| ResetProp | `resetprop.rs` | flags; works on memory and on the file | `get`, `set`, `delete`, `wait`, `list_all`, `load_props` |
| property contexts | `property_context.rs` | which context, hence which area, a key belongs to | `get_context_for_name`, the list of areas |
| sysprop command | `tools/sysprop/src/main.rs` | none that lasts; works on the area files and the persistent file | `get`, `set`, `del`, `list`, `scan`, `compact`, `dump-context`, `area`, `persistent-file` |
| resetprop command | `tools/resetprop/src/main.rs` | none | one operation of `ResetProp` |
| other tools | `tools/` | none | samples, tests, adb |

How they interact. `ResetProp` calls `sys_prop` and then `persist`. `sys_prop`
asks the contexts for a key's area, maps it, and lets `MmapPropArea` change it
in place while libc's readers and waiters in any process look at the same
memory; each change bumps the global serial, on which waiters sleep.
`sys_prop::compact` and the `sysprop` command use `PropArea` on the files.

What is hard.

* Inside one area: calls that fail halfway for want of room, replacement of a
  long value by delete and create, pruning, the order of a compaction's moves,
  the guess whether an area has a dirty backup.
* Between processes: every store of a writer can be seen by a reader, the
  writer can be killed after it, another process may be writing too, and the
  serials are put back so that no trace remains.
* In waiting: a change that comes between a look and a sleep, a timeout that
  races it, a property deleted and added again.
* In persistence: read-modify-write by several processes, crashes between the
  steps of a replacement, two stores that should agree, also after a reboot.
* In the commands: many areas, each of which may be missing, denied or corrupt,
  a loop that must neither stop at one nor pass over it silently, and two files
  changed one after the other.
* In the contexts: rules from several files in any order, a list that is kept
  sorted by insertion, a trie with three kinds of rules and a binary search.

What makes each component correct: the area is a map from keys to values, with
objects that never overlap and links that never dangle; a clean serial means a
whole value; a change is visible before it is announced; a wait returns true
only for a change and returns at all once there is one; the file is the old one
or the new one; memory and file agree as far as the flags say; a name goes to
the area of the longest rule that fits it; a command that reports no error has
done all that it was asked.

## 2. Modules

| module | models |
|---|---|
| `PropLayout` | sizes, alignment and the order of names |
| `PropArea` | the area file: get, set and delete, one action for each node visited, object allocated or link stored |
| `PropAreaCompact` | extends it with `compact_allocations`: collect, plan, move one object at a time, finish |
| `PropStore` | the abstract specification: a map from keys to values and calls that take effect once or fail |
| `PropAreaStore` | the properties of the area and the refinement mapping to `PropStore` |
| `PropAreaProofs` | the inductive invariant of the area file and its theorems |
| `PropAreaCompactProofs` | the invariant of the area file with compactions, and its theorems |
| `PropSerial` | the serial as a 32-bit word: length, long flag, counter, dirty bit |
| `SharedProp` | one property of a live area, store by store, with a reader, a second writer and kills |
| `PropWait` | extends it with a process in `sys_prop::wait` |
| `SharedPropProofs` | the invariants of `SharedProp` and `PropWait` and their theorems |
| `PersistFile` | the persistent files: `persist_set_prop` and `persist_delete_prop` of several processes, one action for each system call, its failures and kills |
| `PersistFileProofs` | its inductive invariant and theorems |
| `LiveStore` | the abstract specification of a live area: a map with one writer that may die and a reader without a lock |
| `MmapTrie` | the trie and the allocator of a live area, store by store, and the refinement mapping to `LiveStore` |
| `MmapTrieProofs` | its inductive invariant and theorems |
| `LiveStoreProofs` | the shape of that trie, what its lookups find, and that it implements `LiveStore` |
| `ResetProp` | extends `PersistFile` with resetprop's `set`, `delete` and `load_props`, the live areas they change first, and reboots |
| `ResetPropProofs` | that it implements `PersistFile`, the types of its operations, and the invariant behind what they promise, across reboots and in the override area |
| `PropContext` | how the rules of the contexts are loaded and names looked up |
| `Sysprop` | extends it with the commands of sysprop over several areas and the persistent file |
| `SyspropProofs` | the invariants of the commands and of the loading of the rules, what the two lookups find, and their theorems |
| `MCPropArea`, `MCSharedProp`, `MCPropWait`, `MCPersistFile`, `MCMmapTrie`, `MCResetProp`, `MCSysprop` | the values of the constants for TLC |

**PropArea.** `node`, `info` and `long` map the offset of an object to its
contents, `bytes_used` is the field of the header; the other variables are the
call in progress (`cur` and `depth` are the walk, `fresh` the prop_info in
hand, `ret` the result). Offsets, sizes and alignment are the code's own, so an
area is full when the real one would be. A key is a sequence of segments, a
segment and a value each a length and an identity; names are compared as the
code does, by length first. One process owns the file, as `PropArea` takes
`&mut self`, so the steps are the inside of one call; they are steps because
allocations fail between them and because a compaction's moves are a loop.
Bytes that no object owns are not modelled, and wiping an object takes it out of
its map. The serial is its
length byte and long flag; the counter is left out.

**PropAreaCompact.** Records are collected from the trie, sorted by offset,
moved down, links patched to where their targets are going; `Lost` is what a
move overwrites. `BackupRecord` is there when `has_dirty_backup` says so.

**SharedProp.** The state is what other processes can see: the link of the
node, the prop_infos ever allocated (serial, a value of two cells, its
`strlen`) and the global serial. The actions are the writer's stores in program
order, with the guards of `upsert`, `add`, `update` and `remove`. A value is two
cells because one is enough for no read to be torn. Long values are those of
`ro.` keys, as `sys_prop::set` refuses others. Accesses are sequentially
consistent: what is found here needs no weak memory, and what is proved here
says nothing about it. The second writer is only its bump of the global serial.
The reader in mode `libc` stands for `__system_property_read_callback`, which is
not in this repository: it takes a clean serial, copies, and compares; the
reader in mode `read_prop` is `MmapPropArea::read_prop`. Newer versions of libc
read the dirty backup instead of waiting for a clean serial; the direct writes
of this code do not fill it, and the model does not cover such a reader.

**PropWait.** The two phases of `wait` with the deadline check before each
turn, the blocking read, the load of the global serial, and libc's
`__system_property_wait`, which returns when the serial is another or the time
is up. The fallback to the prop_info's own serial, for a libc without
`__system_property_area_serial`, is left out. `qmet` and `qwindow` are history
variables that no action reads.

**PersistFile.** `proto` and `legacy` are the files, `proc` the locals of each
process (the label it read, the records it loaded, what its temporary file
holds). A step of a process is a system call: `check_proto`, `lgetxattr`, the
read, the write of a temporary file, `rename`, the fallback of a rename that is
refused (remove the target, rename again), `lsetxattr`. Each may fail, and a
process may be killed before each. Some failures end the call with an error;
others the code takes for something else, and so does the model: a `stat` that
fails means that there is no protobuf file (`DetectFails`), a label that cannot
be read means that there is none to restore (`ReadLabelFails`), and one that
cannot be set is let be (`SetLabelFails`). `View` is what `persist_get_prop`
would return. A rename is atomic, and a temporary file is one value because
nobody reads it. The rest is history: `durable`, what the last call that
returned Ok promised; `strayed`, the keys whose last such call worked on a
legacy file beside a protobuf file; `unlabelled`, whether a call on the label
has failed or a process was killed between a rename and its label; and
`overlapped`, whether two calls on the protobuf file were ever under way at once.

**MmapTrie.** `bytes_used`, `node` and `info` are the memory that every process
maps; the other variables are the locals of the writer (`pc`, where its walk
stands, what it has allocated and not yet linked) and of the reader. One step is
one store that others can see or one load of a link. Nothing is freed in a live
area: what `remove` and `prune_trie` wipe stays as the zeroed object that a
reader inside it still sees. The writer is one process at a time, as the
comments at lines 205 and 886 of `mmap_prop_area.rs` demand (`SingleWriter`); it may be killed
after any store, and the next writer goes on with the memory as it is, though
not with the locals of the dead one. `upsert` walks once to look and `add` walks
again to allocate; the model walks once, because nobody else changes links in
between. The update of a value is one step: `SharedProp` has its protocol. One
reader is enough, for readers do not see each other. Pruning is recursive in the
code; the model has the order in which the recursion visits nodes (`Order`).
`remove_with_prune` without pruning is not called anywhere and is left out.
`LiveStore` lets a lookup return anything that the map held at some moment
of that lookup.

**ResetProp.** `mem` and `override` are what the main areas and those of
`appcompat_override` hold, each changed in one step; `rp` is the operation each
process is in, and the variables of `PersistFile` are the files and the calls on
them. `Strip` is what a name is called in the override area. A call that fails on
the main area ends; one that fails on the override area goes on unseen; a
`delete` that found nothing in memory does not touch the file. A set
through `property_service` is one by init, which is one of the processes and
persists `persist.*` itself. A reboot takes the processes and the memory and
fills it from the files. `get` and `list_all` only read. `promised` and
`expected` are history: what the last operation that succeeded alone on its
property must have left behind.

**PropContext.** A name is a sequence of segments, a segment a sequence of
bytes. `loading` and `storage` are the loading in progress, a line at a time,
and its result: `Split` with the sorted list of rules, `Serialized` with the
trie, `PreSplit` with a single area. The trie itself is built by init, outside
this repository; `TrieOf` builds it from a set of rules as the accessors read it.
`Root` is what a device may hold of all this, and `Serialized` what init has made
sure of in `property_info`: its rules are finitely many and C strings, no two of a
kind for one prefix. The names of properties are C strings, too (`CNames`): the
comparison in the binary search takes the end of a segment for a zero byte.
The list of area files is in the order of their names (`Sorted`).
The lookups are recursive functions that follow the code's loops;
`SplitReference` and `TrieReference` say what they are to find without any loop.

**Sysprop.** A command is a process that resolves a list of areas (`cmd.todo`),
opens each, works on it, flushes, and goes on, then turns to the persistent
file. `areas` has the area files that are there, under their paths; a
command may be given any of `Paths`. An area is a kind (denied, read-only, a bad
header, a broken trie, or good), what it holds, and whether it has holes:
`PropArea` has the inside. `Devices` are the states a behaviour may start in. An
operation on a broken area may succeed or fail where the code may. Sizes are left
out, so that any `set` may find no room, also for a key that is there, whose old
value may be detached by then; so may a `del` of a broken area fail with the key
detached (`Detach`). `Capacity` only bounds how much an area holds. Loading the
persistent file, changing it and saving it are steps of their own; a save that
fails or is killed leaves the old file, or none (`Lost`): `PersistFile` has the
inside of saving. Commands run one after another.

Operators marked "faulty variant" are slips one could make in the definition
below them. No specification uses them; each is substituted to see that the
property named in `PROJECT.json` notices.

## 3. Runs

| run | checks | instance |
|---|---|---|
| `area_heap` | `TypeOK`, `TrieAscends`, `OwnersAscend`, `NoOverlap`, `LookupAgreesWithIteration`, `EveryObjectOwned`, `SerialTellsLayout`, `CompactLeavesNoHole`, `ImplementsStore` | three keys, values of 1, 92 and 96 bytes, 420 bytes |
| `area_live` | `EveryCallReturns` | two keys, two values, 348 bytes |
| `area_backup` | `BackupRoomReserved` is violated | as `area_live` |
| `shared_update` | `TypeOK`, `CleanSerialMeansWholeValue`, `TornOnlyBehindASilentWrite`, `NoTraceAtRest`, `ReadReturns`, `ChangeSeenBeforeItIsAnnounced` | five values, three calls, two prop_infos, one kill, one foreign bump, one reader |
| `hidden_serial` | `NoTornRead` is violated | two values of one length, two calls |
| `global_serial` | `AreaSerialAdvances` is violated | two calls, two foreign bumps |
| `wait` | `TrueIsEarned`, `OnlyTheWindowLosesAWakeup`, `TimedWaitReturns` | two values, three calls, one kill, one foreign bump, one waiter with or without old value and timeout |
| `wait_exists` | `WaitReturns` is violated | one call |
| `resetprop` | `FileIsWhole`, `SetSurvivesInOrder`, `LabelKept`, `CallChangesItsKeyOnly`, `PromisesSurviveReboot`, `OverrideFollows` | two processes, two `persist.*` keys, `ro.x` and its alias, one value, a file of two lines, two operations, three calls on the files, one kill, fault, refused rename, failing area and reboot |
| `persist_overlap` | `SetSurvives` is violated | two calls, no kill, fault or refusal |
| `live_trie` | `TypeOK`, `LinksLead`, `NoOverlap`, `RemoveLeavesNoDeadNode`, `ImplementsLiveStore` | three keys, two values, 364 bytes, two writers in turn, one kill, one reader |
| `sysprop` | `TypeOK`, `LongestFirst`, `SplitFindsBestRule`, `TrieFindsBestRule`, `ListShowsWhatGetFinds`, `CompactReachesAll`, `BothStoresAgree`, `NotFoundChangesNothing`, `FileFollowsArea` | three keys; three lines of six kinds in every order over two files, missing and unreadable files, tries of up to three of ten rules; one or two commands, one kill, one fault |

Why these bounds. In the area, one key is a prefix of another (so nodes have
children and own properties at once) and one is longer in its first segment
(so siblings exist); 92 is the first length that is long and 96 the first that
does not fit where a 92 was, so that in-place updates, replacements and their
failures all happen. 420 bytes hold some sets of the keys and not
others: each kind of allocation fails somewhere. The number of calls is not
bounded; the area's size bounds the states. In the live area, three calls are
enough for add, update and delete, or add, delete and add again, each cut by a
kill; the values are two of one length (which a serial cannot tell apart), a
shorter one, a long one and one that does not fit in its room. A lost or torn
result needs one reader. In the persistent files, two keys tell a lost change of
another key from one's own, absence is the second value, and three calls let one
fail or be killed between two that succeed. In resetprop, two operations and a
reboot after any of them let one undo the other or a file written before
reappear, and `load_props` brings two lines in one operation; the processes are
interchangeable, which the run uses as a symmetry. The live trie has the keys of
the area; 364 bytes are full after some sets, so that each allocation fails
somewhere, and one kill leaves each kind of half-done work to the next writer.
For the contexts, three rules are the least in which one that is inserted must
go between two others or pass one of its length; the ten rules of the tries
have every pair of nested, equal and disjoint prefixes, ends inside and at the
end of a segment, and exact names. One command suffices for what a command
promises, and two for one that meets what an earlier one, killed or failed,
left. `CHECK_DEADLOCK FALSE` is set where the bounded calls
run out; the area never deadlocks.

What the violations show.

1. `area_backup`: set a key, delete it, compact. The root has no children and
   `bytes_used` is not the initial one, so `has_dirty_backup` answers no, and
   the next object is placed in the reserve.
2. `hidden_serial`: a reader takes a serial, copies the first cell, the value is
   updated to one of the same length, the reader copies the second cell and
   finds its serial unchanged. `TornOnlyBehindASilentWrite` shows that the
   hidden serial and the wipe of a deleted value are the only ways to this.
3. `global_serial`: the writer loads 0, another process bumps twice, the writer
   stores 1.
4. `wait_exists`: `find` fails, the property is added and announced, the waiter
   loads the new serial and sleeps on it. `OnlyTheWindowLosesAWakeup` shows that
   nothing but this window loses a wakeup while one process writes.
5. `persist_overlap`: both processes load the file, the first replaces it and
   returns Ok, the second replaces it by what it had loaded.
   `SetSurvivesInOrder` shows that overlapping calls on the protobuf file,
   refused renames and, for its own key, a call that takes the protobuf file for
   missing are the only ways to lose what was promised; legacy files,
   one for each key, may be written by any number of processes.

## 4. Fairness

Safety needs none, and `MmapTrie`, `ResetProp` and `Sysprop` assume none.
`EveryCallReturns` assumes that a process inside a call goes
on (weak fairness of the steps of a call, none of requests): the code has no
lock or wait there. `ReadReturns` and the wait properties assume that a writer
that is not killed goes on, that the reader or waiter does, and for waits that
time passes; each is a thread the kernel runs. Calls are never assumed to be
made. With a timeout that fairness is all `TimedWaitReturns` needs; a writer
killed inside `update` is excepted because libc then waits for a clean serial
without a deadline.

## 5. Proofs

`PropAreaProofs` proves, from the assumptions on the constants alone (`Keys` are
non-empty sequences of segments and have a positive length, `Values` have a
length, and the area has room for the root node and the backup), for any such
keys and values and areas of any size:

* `TypeCorrect`: `Spec => []TypeOK`
* `ObjectsApart`: `Spec => []NoOverlap`
* `LinksLead`: `Spec => []TrieAscends`
* `OwnersLead`: `Spec => []OwnersAscend`
* `Invariance`: `Spec => []Inv`, from which the four follow.

`NoOverlap` is not inductive. A node in the middle of a call holds an offset
that was checked some steps before, so the invariant adds what the control
state knows of the variables of the call: that the node it stands at exists,
that the prop_info still to be linked or filled exists and is referred to by no
one, that there is room reserved behind it, and that each object has at most
one referer, by which pruning one link cannot leave another dangling. The
lemmas go action by action: an action that leaves the heap alone, one that
appends an object at `bytes_used`, one that stores a link to the last object,
one that takes an object out.

`PropAreaCompactProofs` proves of `CSpec`, that is with `compact_allocations`, from
the same assumptions:

* `CompactTyped`, `CompactApart`, `CompactLinksLead` and `CompactOwnersLead`:
  `TypeOK`, `NoOverlap`, `TrieAscends` and `OwnersAscend`, in every state, also
  between two moves
* `NothingOrphaned`: `CSpec => []EveryObjectOwned`
* `SerialsTellLayout`: `CSpec => []SerialTellsLayout`
* `CompactPacks`: `CSpec => []CompactLeavesNoHole`
* `CompactInvariance`: `CSpec => []CInv`

`Inv` says that an object has at most one referer; a compaction finds an object by
its referer, so it needs that there is one. `Kept` adds that (`Owned`), what the
serial says of the layout (`Told`), where the first object behind the root may lie,
on which the guess `has_dirty_backup` rests (`RootKept`), and that a walk that has
begun stands below the root (`Below`): the root never owns a property and is never
pruned. The steps of `PropArea` keep it, with one lemma for each.

A compaction does not keep it while it runs, and the invariant says what holds
instead. In both cases a heap is a value (`Area`), and `Sound` says of a value what
`Inv` and `Kept` say of the area. `Records` has one record for each object but the
root (`RecordsAre`), which needs that every node is reached (`AllReached`: of the
nodes outside a set closed under links, the least would have a parent in it).
`Ledger` says which objects move, those behind the offset `b`, and that those before
it leave no hole; `Placed` says of the new places given so far that they follow each
other from `b` to `cursor` in the order of the old ones, each before the old one. So
far the area is untouched (`Planning`). While objects move, `Moving` says that there
is a sound heap `h` of which the area is the `Image`: each object of `h` is at `At(o)`,
its new place once it has moved and the old one before, and each field that leads to
it holds `At(o)`. The distance to a long value is the exception. It is relative, so it
is stale from the move of the prop_info to that of the value; `Rel` says by how much.
`NothingLost` is the heart of it: the lowest object that is left goes to a place that
ends before every other object begins, or begins after it ends, so the copy destroys
nothing but what it copies. When nothing is left to move, the image is sound again
(`ImageSorts` to `ImageRoots`), and, because the new places follow each other,
without a hole (`Packed`).

`SharedPropProofs` proves, for any values and lengths, any number of calls,
prop_infos, killed writers and bumps by others:

* `CleanMeansWhole`: `Spec => []CleanSerialMeansWholeValue`
* `SeenBeforeAnnounced`: `Spec => ChangeSeenBeforeItIsAnnounced`
* `Typed`: `Spec => []TypeOK`
* `Untraced`: `Spec => []NoTraceAtRest`
* `OnlySilentWritesTear`: `Spec => []TornOnlyBehindASilentWrite`, when
  `MaxKills < 32767`
* `TrueWasEarned`: `WSpec => []TrueIsEarned`
* `OnlyTheWindow`: `WSpec => []OnlyTheWindowLosesAWakeup`

`WInv` is about the writer alone: where it stands and on which prop_info
(`Standing`), what it has stored so far of what it is to store (`Progress`), and
that a prop_info with a clean serial holds a whole value, or has been wiped
(`AllWhole`). The first two theorems follow from it. `Counts` says how far the
counter of a serial may have moved: nobody killed, it is back at zero after
each call (`Traceless`); and each killed writer leaves it at most two moves
further on (`FewMoves`), for the next update starts from the visible serial
it finds. `RInv` relates a reader to the memory: the prop_info it holds is the
linked one or one that is linked no more (`Found`), and as long as its serial is
unchanged and nothing silent has happened, what it has copied is what is there
(`Trail`). That argument needs serials that only grow, so it holds as long as
`Few` writers have been killed. The hypothesis of `OnlySilentWritesTear` is this
bound on `MaxKills`, and it is about the code: the counter has 16 bits below the
long flag, and with more writers killed inside an update of one property it could
come round under a sleeping reader, or look like the flag of a long value. For
the waiter, `Awake` says that one who sleeps on the current global serial has
seen the property as it is, or has passed through the window between its look
and its load of the serial, unless the change is not announced yet.

`MmapTrieProofs` proves, for any keys, values, size of the area, number of
writers and of kills:

* `WalksEnd`: `Spec => []LinksLead`
* `BytesGivenOnce`: `Spec => []NoOverlap`

The objects of the area are nodes, prop_infos and long values, each with a start
and an end; `Spread` says that they lie apart and below `bytes_used`. To keep
that, the invariant follows the single writer (`OneCall`) through its call:
where it may be in its key (`Stands`); that what it has allocated is still free
or still unlinked (`Allocated`), which is what a kill leaves behind; and
that the frames of `prune_trie` lead from node to node (`Path`), so that what is
unlinked is the node that was visited last. A reader stands at a node that is
there, zeroed or not (`Reader`), because a live area frees nothing.

`LiveStoreProofs` goes on from there, for the same instances:

* `NoDeadNodeLeft`: `Spec => []RemoveLeavesNoDeadNode`
* `AlwaysTyped`: `Spec => []TypeOK`
* `TrieIsLiveStore`: `Spec => ImplementsLiveStore`

`Shape` says that the links form a tree: no node has two links to it, and one
that leads somewhere is itself led to, save the root. With that, a path of
`prune_trie` has `Settled` what lies behind it: the nodes it has kept lead only to
each other and hold something or lead to something. When the root is left all of
the tree is behind, which is what a removal promises, whatever a killed writer
had left there.

A lookup is a recursive function over the trie. `On(t, key, o, e, m)` says
without recursion that the walk of `key` passes `o`: it is in every set that is
closed under the steps of the walk, so that an induction along the walk is to
give such a set (`TrailInduction`). `RestIsFound` and `WhatIsFound` tie the two
together, and `SameKey` says that no two keys end at one node, by an induction
over both walks at once. Each kind of store then has a lemma: a node appended, a
link set to it, a prop_info linked or detached (`OneKey`), a node that holds
nothing zeroed or unlinked (`FoundKept`). Only linking and detaching change what
some key finds.

What is hard is a reader whose node is wiped and unlinked under it. It goes on
through what is left of the old trie, and may come to nodes that a later writer
has put elsewhere. `Guided` says that a lookup is either on the walk of its key
(`OnTrack`) or `Lost`, and then `window` has a moment at which nothing was there.
A lost one stands at a wiped node, from which nothing leads down, or in a part of
a search tree whose names are all shorter than its segment (`Capped`), so that
it cannot match any more. The caps are what makes this inductive: a wiped name
keeps its length until its header goes and has no text, so it sorts before all
names of that length, and what a later writer hangs to its left is shorter.
`Placed` says where a writer's walk stands, which is never lost, because nobody
else changes links meanwhile.

`PersistFileProofs` proves, for any number of processes, keys, values, failures
and kills:

* `WholeFiles`: `Spec => []FileIsWhole`
* `PromisesKept`: `Spec => []SetSurvivesInOrder`
* `OwnKeyOnly`: `Spec => CallChangesItsKeyOnly`
* `LabelStays`: `Spec => []LabelKept`

The first follows from the types: nothing but whole contents is ever renamed in
place. The next two need `Ordered`: at most one process works on the protobuf
file (`Alone`), what it has loaded differs from the file in its own key only
(`Fresh`), and what was promised is in the files, but for a call that has
replaced the file and has not returned, and for the keys of calls that went
astray (`Settled`). A call that takes the protobuf file for missing works on a
legacy file and changes nothing that anyone reads; `strayed` takes its key out of
what is promised. One lemma
shows that a step leaves the other processes fresh, one for each file operation
says what it does to `View`, and the step lemma goes action by action. The last
theorem adds `Labelled`, which holds until `unlabelled` is set: the protobuf file has
its label, or the one call on it is about to set it and holds the right one.

`ResetPropProofs` proves, for any number of processes, names, files and reboots:

* `ImplementsPersistFile`: `ResetSpec => Spec`, so that all that is proved of the
  files holds of them under resetprop: each step of an operation is one step of
  `PersistFile` or leaves its variables alone;
* `ResetKeepsFilesWhole` and `ResetKeepsItsPromises`, which follow from it;
* `OpInvariance`, the types of the operations and what each carries at its place:
  an operation that comes to the file has a `persist.*` name and, if it is a set,
  a value, which is what makes its call one of `PersistFile`.

It goes on from there:

* `PromisesSurvive`: `ResetSpec => []PromisesSurviveReboot`
* `OverrideKeepsUp`: `ResetSpec => []OverrideFollows`

Neither is inductive. `Kept` adds what they rest on. `Linked`: a process is in a
call of `PersistFile` exactly while its operation is at its file, with the same
key and value, so that no file changes behind an operation's back. `Apart`: of two
operations under way that share a name in the override area, neither is `alone`.
`Pending`: an operation has unsaid what was promised of its name, so that only its
own success says something again. `Written`: what an operation that is alone has
stored is still there. `Filed`: what resetprop promises, the files have promised,
and no call on that key is in flight. With the last, `SetSurvivesInOrder` (carried
over by `ResetKeepsItsPromises`) gives the file's half of the promise, and
`Remembered` memory's half: a reboot sets memory to the file, which agrees. Both
except the keys in `strayed`, which a key enters or leaves only by a call on it,
while nothing is promised of it (`FilesKeep`).

`SyspropProofs` proves, for any devices, rules, keys, damage, failures and kills:

* `NothingChanged`: `Spec => []NotFoundChangesNothing`
* `Typed`: `Spec => []TypeOK`
* `StoresAgree`: `Spec => []BothStoresAgree`
* `NeverAhead`: `Spec => FileFollowsArea`
* `RulesLongestFirst`: `Spec => []LongestFirst`
* `NonePassedOver`: `Spec => []CompactReachesAll`
* `NoContextPassedOver`: `Spec => []EveryContextCompacted`
* `BestRuleFound`: `Spec => []SplitFindsBestRule`
* `BestTrieRuleFound`: `Spec => []TrieFindsBestRule`
* `ListShowsAll`: `Spec => []ListShowsWhatGetFinds`

The assumptions say what a device is: `Keys` are finitely many and C strings, a
root has finitely many rules, each with a prefix that is not empty (the parsers
take words), those of `property_info` as init writes them, an area holds no more
than fits. `NothingChanged` rests on `Finding`, which says at
which places a get or del may have found something, and `Untouched`, which says
the same of a command that still runs. `Works` is behind the next three: a
command that goes by its key comes to the flush and to the file only when the
area of that key holds what it was given (`Heading`), and what it saves is what
it loaded with that value in its key (`Carried`). A command that fails or is killed
promises nothing, whatever it has detached or lost (`WorksFails`). In this model `Flush` serves
`compact` and a `set` or `del` that goes on to the file, and the two are told
apart only because no compact goes by a key, which `Heading` includes.

`Loading` is the invariant of reading the rules. That inserting a line keeps
them longest first needs that the length of a text is a number, and `TextLen`
is recursive. The induction theorems of the library cannot be used here, but a
least counterexample can: `LeastOf` says that a set of numbers has a least
element, hence there is no first segment at which the recursion would fail, and
`TextLen` is what its equations say. `Reaching` is for a compaction of all areas:
each area has been filled, or could not be, or is still ahead.
`CompactReachesAll` speaks of the areas that the loop is given;
`NoContextPassedOver` adds, by the lemma `SortedWhole`, that this list has the
area of every context that the loaded rules name.

`BestRuleFound` compares a list in memory with lines in files, and its invariant
says how the two belong together while a load runs. `Sorts` ties each place of
the list to a line, a file and a number in it: the longer stands before the
shorter, equally long ones in the order given, and the `*` lines last with the
latest first. `Reading` says that the list so ties the lines `Taken` so far,
which are those of the files before the current one (`LeftOfFiles`) and of this
file up to the next line (`LeftInFile`). A line that is inserted is later
than all of these, which is why `InsertSorts` may put it behind its equals.
`FirstIsBest` then says that the first place that fits is the line the reference
picks.

`BestTrieRuleFound` is about one walk through a trie of any size. A node lists its
children and pieces in order; `RankOnto` counts what goes before each member of a
finite set in line, so that such a list holds every member once (`ListIsWhole`).
`CompareTells` says that the sign of `strncmp_piece` is the order of bytes, in
which children lie, and `ChildFound` that the binary search between any two bounds
ends at the child that lies there, or at none: each turn goes on in the half that
has the child if any does (`HalfIsEnough`), so a least counterexample would have a
smaller one.
`NextMeans` says of which rules the children are, `MatchTells` that the first piece
that matches is the longest, `FitsCompare` that of two prefixes of a name the one
with more segments is longer. With these `TurnIsBest` takes the best rule of the
first segments to the best of one more, `OnWay` is the invariant of the walk, and
`WalkEnds` says that it stops at the last node on the way of the name: behind it
no rule goes on, so the best so far is the best there is (`AllFits`), and a rule
for exactly this name ends there (`ExactTells`). That no two rules have one prefix is
what makes "the best" one rule (`OneBest`).

`ListShowsAll` puts the lookups and the loop together. `Showing` says of the loop that
each area has been shown, or cannot be opened, or is still ahead; `RouteIsListed`
that a lookup yields a context of the list that the loop goes by, and only in a
Split root may it be the default without that.

Only model-checked, and why:

* `LookupAgreesWithIteration`, and that `PropAreaStore` implements `PropStore`: both
  speak of lookups that are recursive functions over the trie, here one that a
  compaction rewrites while the map it stands for must not change;
* every liveness property: liveness under fairness and `ENABLED` are out of the
  prover's reach.

## 6. Not modelled, and the plan

Worth proving next: that the area file implements `PropStore`, along the way of
`LiveStoreProofs`, with `Image` for the steps of a compaction, and with it
`LookupAgreesWithIteration`.

Open, with the reason in each hazard's note: the update counter of an area file
that reaches the long flag after 32768 updates; a reader that waits for a clean
serial, or a timed `wait` that reads, behind a writer killed in the middle of an
update; a compaction killed between two
moves, and one of an area that other processes have mapped, for which the code
has no promise; `read_prop`, which promises nothing about a value that changes
under it; a failure to bump the global serial after a delete; the file that a refused
rename removes; a second write, to the override area, that fails unseen; and a
value that is only in the file, which `delete` does not reach.

Also open: the caches and the one-time init of `sys_prop`, in which a second
thread may find the symbols of libc before the contexts are there and get an
error.

Where the code and its texts differ and no run of its own says so, though the
models do what the code does and the properties leave the case out by name:
`persist.rs:61` says "If the protobuf file exists, uses protobuf format", while
a failing `stat` counts as no file (`persistent_prop.rs:246`), a set then writes
a legacy file and returns Ok, and the next process finds the old value in the
protobuf file; `persist.rs:62` says "SELinux labels are preserved on the protobuf
file", while a failing `lgetxattr` is taken for a file without a label and the
result of `lsetxattr` is not looked at (lines 33 and 46), and the next call takes
the label it finds for the original; `src/README.md:208` says "(atomic write,
survives reboot)", while a rename that is refused removes the target first
(`persistent_prop.rs:216`), and until the second rename there is neither the old
file nor the new one; `src/README.md:260` says of `-p` "Also operate on
persistent storage (survives reboot)", while a `delete -p` of what is only in the
file, as after a delete without `-p`, reports that there was none and leaves it
there (`resetprop.rs:83`).

Where the difference is in words or output only: `resetprop.rs:116-117` says that persistent values override
system values in `list_all`, while lines 129-134 let the system's win;
`sysprop` prints the size of the data region as the bytes used
(`main.rs:1119-1124`); its help says that `list` shows all properties across every
context (`main.rs:114`), while a name that no rule of a Split root fits is not
listed, and one broken area ends the list with an error (`main.rs:1025`), where
`scan` and `compact` go on.

Left out for good: decoding of damaged or foreign files beyond whether the code
accepts them, output and argument parsing of the commands, the tools that build
samples or drive adb, and libc itself.
