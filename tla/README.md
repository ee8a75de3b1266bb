# TLA+ models of capu

This directory has TLA+ models of the parts of capu (markusbischof/capu) whose
sources are in this repository. TLC checks them. Everything here is
translated from the sources under `src/modules/capu/include/capu/`. Code that
is not among the sources is modelled from `spec.md` and marked
`spec_modelled` in `PROJECT.json`: that is `HashTable.h` and
`StringUtils::Strlen/Strncpy`.

## The system and its parts

| Part | Source | State | Operations |
|---|---|---|---|
| HashSet adapter | `container/HashSet.h` | `m_table`, a `HashTable<T, char_t>` it owns | constructors (default, bitsize, copy), destructor, `put`, `remove`, `hasElement`, `count`, `clear`, `begin`, `end` |
| HashSetIterator | `container/HashSet.h` | `m_iter`, the table's iterator | copy, `operator=`, `==`/`!=`, `*`, `->`, `++` (prefix and postfix) |
| HashTable engine | `HashTable.h` (not a source; spec.md 4.1, 4.3) | buckets of chains, `entryCount`, fixed capacity `2^bitsize` | `put`, `remove`, `contains`, `clear`, `begin`, `end`, iterator `++` |
| String | `container/String.h` | `m_data` (an `Array<char_t>`, NUL-terminated), `m_size` (`uint_t`) | five constructors, `operator=` (two), `append` (two), three `operator+`, `truncate`, `substr`, `toUpperCase`, `toLowerCase`, `swap`, `==`/`!=`, destructor |
| Posix Mutex | `os/Posix/Mutex.h` | a `pthread_mutex_t` of type RECURSIVE | constructor, destructor, `lock`, `trylock`, `unlock` |
| Math | `os/Math.h` | none | float wrappers forwarding to `os::arch::Math` (not a source) |
| Tests | `test/...` | none | unit tests. `StringTest.cpp` fixes how Strlen/Strncpy behave |

How the parts interact:

- HashSet forwards every call to its HashTable. It adds only `put`'s
  `contains` check.
- A HashSetIterator wraps a table iterator. Changing the set, or destroying
  it, leaves that iterator unusable.
- No HashSet operation is synchronised. spec.md section 5 makes the caller
  hold a lock, such as a capu `Mutex`, around every change and for the whole
  life of an iterator. The `Mutex` is recursive. `lock()` and `unlock()`
  turn pthread's return codes into `CAPU_OK` / `CAPU_ERROR`, and `trylock()`
  turns them into `true` / `false`.

Hard behaviours the models target:

- `uint_t` wrap-around in `String`: `theend = size - 1` on an empty source
  (String.h:288), and `start + length - 1` in `substr` (String.h:484).
- `append` measures the old buffer with `Strlen`, not with `m_size`
  (String.h:390). After `truncate` the buffer holds characters past `m_size`,
  so `append` is correct only because `truncate` writes a NUL.
- Iteration must walk each chain and skip empty buckets. When keys collide,
  a wrong step revisits or skips entries.
- An iterator is invalidated when another object changes its set: another
  iterator, or another thread when the set is shared.
- The recursive mutex's limit (EAGAIN), a non-owner's unlock (EPERM), and a
  busy trylock (EBUSY). Each reaches the client only as a status.

## Modules

- `HashTable.tla`: the engine, from spec.md (all of it `spec_modelled`).
  A table is a value `[bits, buckets, count]`. Chains are sequences of
  keys, because in set mode the value slot is never read. A cursor is
  `[bucket, pos]`, and `End` is the sentinel. The module defines operators
  only: `TPut`, `TRemove`, `TRemoveStatus`, `TClear`, `TBegin`, `TAdvance`
  and `TDeref`.
- `HashSet.tla`: several HashSet objects (`Sets`) and iterators (`Iters`).
  - Variables: `alive`, `table` (each object's `m_table`), `iter` (each
    `m_iter`: the set, the cursor and the keys visited so far) and `ret`
    (the last `status_t`).
  - Each constructor, the destructor, `put`, `remove`, `clear`, `begin`,
    `++` and iterator copy is one action. `hasElement`, `count`, `*` and
    `!=` are operators.
  - An iterator whose set changed or died becomes `Dead`. spec.md section 3
    forbids using it then, so `Advance` requires a non-`Dead` iterator.
- `AbstractSet.tla`: what HashSet promises. Each object holds a set of keys.
  `put` adds a key (CAPU_ERROR if it is already there). `remove` deletes one
  (CAPU_ERANGE if it is absent). `clear` empties the set, and a copy starts
  with the other object's keys. `HashSet` maps to it by
  `elems <- Entries(table[s])` for live objects.
- `CapuString.tla`: several String objects in `str`. Each is a record
  `[data, size]`: `data` is the whole `m_data` buffer, including bytes after
  an early NUL, and `size` is `m_size`, taken modulo `2^UIntBits`.
  - Each public call is one action, which assigns the call's result to an
    object.
  - `x = String(...)` goes through `operator=(String)`, which swaps in the
    temporary, so the action assigns the constructed value.
  - `initFromGivenData`, `initData`, `append`, `truncate` and `substr`
    translate the code, including its early returns and uint_t arithmetic.
- `Mutex.tla`: the pthread recursive mutex (`owner` and `depth`, with
  EAGAIN at `MaxRecursion`, EPERM and EBUSY as POSIX specifies). It also
  defines capu's `lock`, `trylock` and `unlock`, which translate the return
  codes, and `DestroyRc`: what `~Mutex`'s `pthread_mutex_destroy` returns
  (EBUSY on an owned mutex). The destructor discards it.
- `AbstractString.tla`: what String promises, from the comments of its
  class declaration and from `StringTest.cpp`. Each object holds a sequence
  of characters. Ranges are inclusive of `end` (`("0123456789", 4, 6)` gives
  `"456"`), and a null `char_t*` gives the empty string.
- `StringContract.tla`: CapuString and AbstractString in lockstep. Each
  CapuString call is paired with the same abstract call, and `text` holds
  the abstract contents. `substr(0, 0)` is left out: it is the
  `string_substr` finding.
- `GuardedHashSet.tla`: threads share one HashSet under one Mutex. Each
  thread runs the spec.md section 5 client loop, making at most `MaxOps`
  calls:
  - `lock()`, which blocks (`waiting`) until the mutex is free, or
    `trylock()`;
  - mutate, or iterate from `begin()` to `end()`;
  - nest locks up to `MaxNest`;
  - unlock, and finally return (`done`).

  Clients count the lock levels they hold (`held`) from the statuses
  returned. Once every thread is joined, `Teardown` runs `~HashSet` and then
  `~Mutex`, and records `destroyRc`. The program then ends (`Terminated`).
  It composes `HashSet` and `Mutex` via INSTANCE.
- `StringHeap.tla`: String with its buffers as heap objects, for calls
  whose `char_t*` argument points into a String's own buffer
  (`x = x.c_str() + 1`, `x.append(x)`, `x = x + x`).
  - Variables: `heap` (buffer id to bytes), `live` (allocated ids), `mdata`
    (each object's `m_data`, a buffer id or `NoBuf` for `Array(0)`), `msize`
    and `uaf`.
  - `initData`, `append`, the copy constructor (`CopyInto`), `operator=`
    by value (`TakeTmp`: swap with the temporary, then destroy it),
    the end of `operator+` (`TakeResult`: `return result.append(..)`
    yields a `String&`, so the return value `Ret` is copy-constructed
    from `result`, `result` dies, and `operator=` takes `Ret`),
    `truncate` and `swap` are operators from state to state, chained in
    code order. A freed buffer id is handed out again by the next
    allocation, so a stale pointer would see new bytes.
  - Each public call (`operator=` of both kinds, `String(p)`,
    `String(p, start)` with `&data[start]` inside the allocation, both
    `append`s, the three `operator+`, `truncate`, `swap`, the destructor)
    is one action. Arguments are null, literals, or any offset into a
    String's current buffer.
- `StringHeapContract.tla`: StringHeap and AbstractString in lockstep. The
  abstract argument is what the pointer showed when the call began.
  `HSpec` takes `String(p, start)` only for starts within the characters,
  the positions the header documents. `HSpecPastEnd` adds starts past the
  terminator (`TailPastEnd`).
- `MCHashSet.tla`, `MCCapuString.tla`, `MCStringContract.tla`,
  `MCStringHeap.tla`, `MCStringHeapContract.tla`,
  `MCGuardedHashSet.tla`: the definitions each configuration needs: the
  hash function and the C-string arguments.

## Runs

| Run | Config | Expect | What it shows |
|---|---|---|---|
| hashset | `MCHashSet.cfg` | pass | `IterationVisitsEachOnce`: a valid traversal yields each key exactly once. `ImplementsAbstractSet`: HashSet refines AbstractSet, documented statuses included. |
| string | `MCCapuString.cfg` | pass | `LengthMatchesCStr`: after any sequence of calls on two objects, `getLength()` equals `strlen(c_str())`, and an empty buffer goes with size 0. |
| string_substr | `MCCapuString_substr.cfg` | violation | `substr(0, 0)` on `"a"` returns `"a"`, because `0 + 0 - 1` wraps to UINT_MAX. |
| string_contract | `MCStringContract.cfg` | pass | `ContentsMatchContract`: after any sequence of calls, each object's `c_str()` holds exactly the characters the contract promises, not just the right number of them. This covers ranges, append and `operator+` after truncate and case conversion, and substr (except `(0, 0)`). |
| string_heap | `MCStringHeap.cfg` | pass | `NoUseAfterFree`: no call reads through its argument after freeing the buffer it points into, because `initData` and `append` copy before the old `Array` dies. This includes `x = x + x`, where `operator+` allocates and frees three buffers inside the call. |
| string_heap_contract | `MCStringHeapContract.cfg` | pass | `ContentsMatchUnderAliasing`: with aliased arguments too, every `c_str()` and `getLength()` are what the contract promises. |
| string_tail_past_end | `MCStringHeapContract_tail.cfg` | violation | `String(data, start)` does not check `start` against the length of `data`. After `x = "a"; x.append(x); x.truncate(0)`, `String(x.c_str(), 1)` is `"a"`: it copies the byte `truncate` cut off, where the contract (and the three-argument constructor) give `""`. |
| guarded_hashset | `MCGuardedHashSet.cfg` | pass | `HeldMatchesLockCount`: clients that act on the returned statuses hold exactly the mutex's lock count. `IterationNeverInvalidated`: no thread's traversal is invalidated, even when recursive locks are refused (EAGAIN) or a trylock fails. `EveryThreadReturns` (liveness, under `FairSpec`): every thread eventually unwinds its levels and returns. A `lock()` that reports EAGAIN as CAPU_OK leaves a client holding a level it can never release. |

Each property of a passing run has a mutant in `PROJECT.json`: a plausible
bug in the modelled code that TLC finds. Examples are a `put` without the
`contains` check, a `truncate` that does not write the NUL, a `lock()`
that ignores pthread's return code, and a `trylock()` that reports EBUSY
as success.

## Bounds

- **HashSet.** Keys `{1, 2, 17}` with hash `k % 2^bits`. With the default
  bitsize 2 (4 buckets), 1 and 17 collide and 2 lands in its own bucket.
  This gives chains of length 2, empty buckets between non-empty ones, and
  removal from the middle of a chain. Bitsize 0 (a single bucket) is the
  constructor argument. There are two sets, so copies and destruction are
  possible, and two iterators, so one can outlive a change made through the
  other. The run has about 96,000 distinct states and takes about a minute.
- **String.** `uint_t` is 4 bits wide, so that wrap-around is reachable.
  Arguments are `""`, `"a"`, `"Aa"` and `"aAa"` (upper and lower case, for
  the case conversions) and Null. Buffers are at most `MaxLen + 1 = 4`
  bytes. Indexes run over `0..MaxLen+1` plus UINT_MAX, so they include
  starts past the end. There are two objects.
- **StringHeap.** Two Strings plus `operator+`'s `result` and return
  value. Five buffer ids. A call holds at most four at once: two for the
  Strings, and either `result` with `append`'s new buffer or `result`
  with the return value. The fifth id leaves headroom, and TLC confirms
  it is never needed. Literals `""` and `"a"`, buffers of at most 4 bytes,
  and pointers at every offset of each buffer. 2,821 distinct states for
  both runs.
- **GuardedHashSet.** Three threads, so that one can hold the lock while
  two others contend. `MaxRecursion = 2` and `MaxNest = 3`: one nested
  `lock()` succeeds (depth 2, so a client unlocks twice), and the next one
  hits EAGAIN. `MaxOps = 3` calls per thread: enough to lock, nest twice,
  or lock, iterate or mutate, and nest, and to see another thread block
  on it. The workload stays finite, so teardown is reached. Keys
  `{1, 2}`, bitsize 1. About 87,000 distinct states, in 30 seconds.
- **StringContract.** The same instance as String. The abstract contents
  are a function of the buffers, so the state space is the same (1,681
  states).

## Fairness

Only `guarded_hashset` checks liveness. Its `FairSpec` assumes:

- weak fairness of each thread as a whole (`WF_vars(Thread(t))`): the OS
  scheduler eventually runs a thread that can run;
- weak fairness of `Teardown`: the joining thread eventually destroys the
  objects.

pthread mutexes promise no fairness among waiters, so there is no strong
fairness on `Lock`. A waiting thread may lose the mutex any number of
times. `EveryThreadReturns` holds because every thread's workload is
finite and each client, counting the statuses capu returns, releases
every level it holds. A status that lies breaks the second condition, and
TLC then finds a thread that never returns.
The HashSet and String calls are synchronous and need no fairness.

## Not modelled

- `Math.h`: stateless float wrappers around `os::arch::Math`, which is not a
  source.
- `String::find/rfind`: they only read, through `ConstString`, which is not
  a source.
- `String(data, start)` with `&data[start]` past the allocation: that read
  is undefined behaviour. Starts past the terminator but inside the buffer
  are modelled (`string_tail_past_end`).
- In StringHeap: the range constructors, `substr` and the case
  conversions. Their arguments are read before anything is freed, so
  aliasing cannot hurt them; CapuString covers their values.
- Iterator use after a change or destruction of its set, and other orders
  that spec.md sections 3 and 5 forbid. The code does not detect them, and
  no source does them. The models make such an iterator `Dead` and never
  advance it, and `IterationNeverInvalidated` shows that clients following
  section 5 never meet one.
- The `const` overloads of `operator++`. They call `m_iter++` on a
  non-`mutable` member, so whether they compile depends on
  `HashTable::Iterator`, which is not a source. Their effect is the same as
  the non-const overloads, which `Advance` models (prefix and postfix).
- The unmapped lines of the other sources are comments, declarations
  (the iterator class, the members) and one-line forwards to code that is
  not a source. They have no behaviour beyond what is mapped.
- `CondVar` (a friend of Mutex; not a source).
- `Hasher<String>` (String.h 206-213): it forwards to `HashCalculator`,
  which is not a source.
- HashTable in map mode (value overwrite) and its copy assignment: no
  source calls them (HashSet uses set mode and never assigns its table),
  so a model would check spec.md only.
