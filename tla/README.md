# TLA+ models of the Redis 4.0 hash and set types

This directory holds TLA+ models of the code under `src/redis-4.0/`, together
with the TLC configurations that check them. The code covers the hash type
(`src/t_hash.c`), the set type (`src/t_set.c`), the dict header (`src/dict.h`)
and three small sds / number-formatting programs (`tests/`). `spec.md` is the
design document. Every definition in a module is written from the C source.
`PROJECT.json` maps each definition to the lines it models.

## The system

| Part | Code | State | Operations |
|---|---|---|---|
| Hash type | `t_hash.c` | the robj of a key: encoding ziplist (a sequence of field/value pairs in insertion order) or dict | HSET/HMSET, HSETNX, HINCRBY, HINCRBYFLOAT, HDEL, HGET, HMGET, HEXISTS, HLEN, HSTRLEN, HGETALL/HKEYS/HVALS, HSCAN |
| Set type | `t_set.c` | the robj of each key: encoding intset (sorted integers) or dict | SADD, SREM, SMOVE, SISMEMBER, SCARD, SPOP [count], SRANDMEMBER [count], SINTER/SUNION/SDIFF [STORE], SSCAN (its `dictScan` calls only) |
| Dict | `dict.h` (dict.c absent) | two tables, `rehashidx`, safe-iterator count | add/find/delete, incremental rehash, iterators, scan |
| Propagation | `t_set.c` (`alsoPropagate`, `rewriteClientCommandVector`, `preventCommandPropagation`), `t_hash.c` (`server.dirty`, `rewriteClientCommandArgument`); `server.c` absent | the commands sent to replicas | SPOP rewritten as SREM / DEL; HINCRBYFLOAT rewritten as HSET; other writes verbatim when they dirtied the dataset |
| sds helpers | `tests/lltostr.c`, `tests/sdstrim.c`, `tests/ld2string.c` | none (pure functions) | sdsll2str, sdstrim / sdsReqType, string2ld / ld2string |

How the parts interact:
- **Encodings.** Both types keep a compact encoding while it is small: a ziplist for hashes, an intset for sets. They convert to a dict, and never back:
  - a hash converts on too many entries (`hashTypeSet`) or, for HSET/HSETNX, on an over-long argument (`hashTypeTryConversion`);
  - a set converts on a non-integer member or on too many members (`setTypeAdd`).
- **Empty keys.** A key whose container becomes empty is deleted.
- **Random strategies.**
  - SPOP with a count picks one of three strategies by size: return all, remove one by one, or rebuild from the survivors.
  - SRANDMEMBER with a count picks one of four.
- **Set algebra.**
  - SINTER sorts its operands by size and probes the smallest against the others.
  - SDIFF chooses one of two algorithms by a cost estimate.
- **Replication.** A replica re-executes what the master propagates. SPOP's random choice must not be re-made there, so `t_set.c` replaces SPOP with the deterministic commands that have the same effect.
- **Concurrency.** Everything runs on one thread, one command at a time. A replica is a second server, applying the master's stream later. The hard parts are:
  - long sequences of commands that reach a boundary: a conversion threshold, an empty set, an overflow, a count at the edge of its type;
  - the many branches a command can take;
  - commands that read several keys, some of which may be missing or of another type.

## Modules

| Module | Models | Kind |
|---|---|---|
| `HashMap` | what the hash commands promise: a partial function field → value, and a reply per command | abstract spec |
| `HashType` | `t_hash.c`: `obj` = [encoding, zl, dict]; one action per command (HMGET, and HGETALL / HKEYS / HVALS through `genericHgetallCommand` with its iterator `Iterated` and its length check); `hashTypeSet/Delete/Convert/TryConversion` as operators | detailed spec, refines `HashMap` |
| `MCHashType` | constants for TLC: fields `fa`, `fb` (1 byte) and `flong` (3 bytes); string values `sx`, `slong`; a 3-bit long long | MC |
| `HashReplication` | a master running `HashType` and a replica running `HashType` on its own `robj`, joined by `stream`; `Dirtied` is each handler's `server.dirty` rule, `Propagated` what `call()` sends (HINCRBYFLOAT as `HSET key field buf`) | composition |
| `MCHashReplication` | the constants of `MCHashType`, at most one command in flight | MC |
| `HashFloat` | `hincrbyfloatCommand` on one field, with the field held as the string it stores: `LdAdd` is `value += incr` on the long doubles of `LdString` (overflow to an infinity, inf + -inf a NaN of either sign), `FieldValue` the `string2ld` reading, `Written` the `sdsnewlen(buf,len)` of ld2string's output | composition with `LdString` |
| `MCHashFloat` | increments `1.5`, `60`, `inf`, `-inf`; the scaled long double with a 6-byte buffer | MC |
| `SetKeyspace` | what the set commands promise over a keyspace: key → set, keys holding strings, a reply per command | abstract spec |
| `SetType` | `t_set.c`: `db` = key → [type, enc, ms]; one action per command, with every strategy branch | detailed spec, refines `SetKeyspace` |
| `MCSetType` | keys `k1`, `k2`, and `ks` (a string initially); members `1`, `2`, `a` | MC |
| `Sds` | `sdsll2str` (`tests/lltostr.c`) as a RECURSIVE operator | pure algorithm |
| `MCSds` | checks `Sdsll2str` on every 8-bit value against the decimal value of its output; `sdstrim` on every string of up to 4 bytes over `a . x` (or `a x NUL`) with every cset over `a .`, and on two 33-byte strings; `sdsnewlen` on lengths at each header boundary; `ld2string` on every long double of chosen significands at every binade, and on the long double `string2ld` reads from decimals typed at every magnitude | MC |
| `LdString` | `tests/ld2string.c`: `ld2string` (snprintf `%.17Lf` / `%.17Lg`, `nan` / `-nan` for a NaN, the humanfriendly strip loop) and `string2ld` (strtold with its `ERANGE`, `isnan` and end-pointer checks; the empty string converts to 0), over a scaled long double | pure algorithm |
| `SdsTrim` | `tests/sdstrim.c`: the sds header (flags byte, `len` / `alloc` at their C widths), `sdsReqType`, `sdsnewlen`, `sdslen`, `sdssetlen`, and `sdstrim`'s two loops as RECURSIVE operators | pure algorithm |
| `DictKeys` | what a set's dict promises: a set of keys; add, remove and membership replies | abstract spec |
| `Dict` | the dict of `dict.h` under the set type's calls (`setTypeAdd/Remove/IsMember/Convert`): `d` = [ht[0..1], rehashidx, iterators], `canResize`, a client's `scan` | detailed spec, refines `DictKeys` |
| `SetReplication` | a master running `SetType` and a replica running `SetType` on its own `rdb`, joined by `stream`, the in-order replication stream; `t_set.c`'s rewriting of SPOP as SREM / DEL decides what goes on it | composition |
| `MCSetReplication` | the constants of `MCSetType`, at most one command in flight | MC |
| `MCDict` | keys `k1`, `k2`, `k3` with hash bits 001, 100, 110; tables of 1 to 8 buckets; a 3-bit cursor | MC |
| `MCDictOwned` | the MCDict dict owned by the keyspace (`FairSpec`) or by a set key (`SetDictSpec`), fixed at the start | MC |

How the models correspond to the code:
- **Commands.** Each command handler is one action. Its guard and branches follow the code's early returns:
  - a missing key, then the type check, then the command's own cases;
  - e.g. SPOP count: `l < 0`, missing key, wrong type, `count == 0`, case 1, case 2, case 3.
- **Random choices.** `setTypeRandomElement`, `dictGetRandomKey` and the loops built on them are nondeterministic choices of a member, or of a subset of the size the loop reaches.
- **SINTER's qsort.** It is a choice of any smallest operand as `sets[0]`.
- **Replies.** A reply is a record with one field per RESP kind. A multi-bulk reply is a bag, because its order is random.
- **The `cmd` variable.** Both abstract specs record the executed command, with its arguments, in `cmd`. The refinement check therefore compares each step with the same command of the abstract spec, never with another command that happens to give the same reply.

Abstractions:
- **Values.**
  - A ziplist is a sequence of pairs and an intset a set of integers; `ziplist.c` and `intset.c` are not in the repository.
  - Strings are model values with a length (`FieldLen`, `StrLen`).
  - Integers are numbers whose byte length is that of their `sdsll2str` form.
  - `isSdsRepresentableAsLongLong` is "is an integer".
- **Integer widths.** Widths are constants:
  - `LongBits` for long / long long;
  - `UIntBits` for the `(unsigned)` cast of the counts.
- **Float results.** HINCRBYFLOAT results are kept to integers bounded by `FloatBound`. `ld2string` of an integral long double prints the integer. `LdString` models the formatting itself, on a scaled long double (below), and `HashFloat` runs HINCRBYFLOAT on it.
- **The dict.** `dict.c` is not in the repository. `Dict` takes the structure from `dict.h` (`dictht`, `dict`, `dictIsRehashing`, `dictSize`, `dictSlots`, `DICT_HT_INITIAL_SIZE`) and the behaviour from the design document (§3, §4.1, §5). Where the document leaves a detail open (the growth trigger `used >= size`, the force ratio, the 10 empty buckets per step, `htNeedsResize`, the `dictScan` cursor arithmetic), the model follows Redis 4.0's `dict.c` and `server.c`; these definitions are marked `spec_modelled` in `PROJECT.json`.
  - A bucket's chain is a set of keys. No property depends on the order inside a chain: a rehash moves a whole chain, and a scan emits a whole bucket.
  - A hash value is its low `CursorBits` bits, which is all that `& sizemask` reads in tables of up to 2^`CursorBits` buckets.
  - The set layer calls: `SetTypeAdd` (`dictAddRaw`), `SetTypeRemove` (`dictDelete`, then `dictResize` when `htNeedsResize`), `SetTypeIsMember` (`dictFind`), and `Init` = `setTypeConvert` of any intset (`dictExpand` to its length, then one `dictAdd` per member).
  - The other users of the engine: `RehashMilliseconds` (the server cron's `incrementallyRehash`), safe iterators (`SafeIteratorStart`, `dictReleaseIterator`), `dictEnableResize/DisableResize` (`SetResizePolicy`) and SSCAN's `dictScan` calls (`ScanCall`, one call per step; a command's loop of calls is a special case of that interleaving).
- **Replication.** `SetReplication` composes two copies of `SetType`.
  - `MasterStep` is one master command. What `t_set.c` propagates is appended to `stream`:
    - SPOP key: `SREM key ele` (`rewriteClientCommandVector`);
    - SPOP key count, case 1: `DEL key`;
    - SPOP key count, cases 2 and 3: one `SREM key ele` per popped member (`alsoPropagate`), and the SPOP itself is suppressed (`preventCommandPropagation`);
    - every other command: itself, verbatim, when it changed the dataset. `call()` in `server.c` propagates when `server.dirty` grew; the model uses "`db` changed" for that. The two differ only for commands that change nothing, which change nothing on an equal replica either.
  - `ReplicaApply` runs the oldest command of `stream` through the replica's own copy of the handler (`Replica!SRem`, `Replica!SInter`, ...). `DEL` is `ReplicaDel`.
  - The stream is one TCP link: nothing is lost, duplicated or reordered, and the replica may lag.
- **Hash replication.** `HashReplication` composes two copies of `HashType` the same way. `Dirtied` is each handler's own `server.dirty++`: HSET always, HSETNX only when it set the field, HINCRBY after its checks, HDEL by the number deleted. A successful HINCRBYFLOAT goes out as `HSET key field buf`, where `buf` is the string `ld2string` wrote (`rewriteClientCommandArgument` of `argv[0]` and `argv[3]`). The replica applies HSET, HSETNX, HINCRBY and HDEL with `Replica!HSet`, `Replica!HSetNx`, ...
- **Not modelled.** Notifications and `signalModifiedKey` change no modelled state. `server.dirty` matters only as the propagation rule above.

## Runs

| Run | Config | Expect | Shows |
|---|---|---|---|
| `hash_replication` | `MCHashReplication.cfg` | pass | `ReplTypeOK`, `NoEmptyKey`, `HashMapRefinement`, `ReplicaConsistent`, `ReplicaNoErrors` |
| `hash_ziplist_limits` | `MCHashTypeLimits.cfg` | violation | `ZiplistWithinLimits` |
| `set_refinement` | `MCSetTypeReal.cfg` | pass | `TypeOK`, `NoEmptySets`, `IntsetOK`, `SetKeyspaceRefinement` |
| `set_strict_types` | `MCSetTypeStrict.cfg` | violation | `StrictTypeCheckRefinement` |
| `spop_count_truncation` | `MCSetTypeTrunc.cfg` | violation | `SetKeyspaceRefinement` |
| `sds_helpers` | `MCSds.cfg` | pass | `Sdsll2strCorrect`, `SdsTrimCorrect`, `SdsNewLenHoldsLength`, `HumanFriendlyKeepsTyped` |
| `set_replication` | `MCSetReplication.cfg` | pass | `ReplTypeOK`, `NoEmptySets`, `IntsetOK`, `ReplicaConsistent`, `SetKeyspaceRefinement` |
| `sds_trim_nul` | `MCSdsTrimNul.cfg` | violation | `SdsTrimCorrect` |
| `ld2string_lossless` | `MCSdsLossless.cfg` | violation | `Ld2stringLossless` |
| `dict_refinement` | `MCDict.cfg` | pass | `TypeOK`, `TablesConsistent`, `ScanGuarantee`, `DictKeysRefinement` |
| `dict_rehash_liveness` | `MCDictLive.cfg` | pass | `OwnedRehashCompletes` (under `OwnedSpec`) |
| `hincrbyfloat_result` | `MCHashFloat.cfg` | violation | `FieldHoldsSum` |

What each run shows:
- **`hash_replication`.** The master's hash commands act as operations on one field → value map, whatever the encoding and whenever the conversion happens (`HashMapRefinement`). That covers the HINCRBY overflow test at both ends of the long long range, HMGET of absent fields, and HGETALL / HKEYS / HVALS, whose length check (`count != length`, a `serverPanic`) never fires because the ziplist holds no duplicate field. Whenever the replica has applied the whole stream it holds the master's content (`ReplicaConsistent`), and it never answers a propagated command with an error (`ReplicaNoErrors`). TLC reaches caught-up states where the two copies use different encodings: HSETNX converts on a long argument before it finds the field present, and so dirties nothing while the master converted; an HINCRBYFLOAT result arrives as an HSET whose own length check may convert the replica. If HINCRBYFLOAT were propagated with its increment as the value, the contents would differ; if HINCRBY dirtied before its checks, the replica would answer a failed HINCRBY with an error.
- **`hash_ziplist_limits`.** HINCRBY of a value with a 2-byte decimal form (or on a 3-byte field) stays in the ziplist (TLC's trace: `HSET fa sx`, then `HINCRBY fb -4` stores `-4`), although `hash-max-ziplist-value` is 1. `hincrbyCommand` never calls `hashTypeTryConversion`.
- **`set_refinement`.** The set commands implement the abstract keyspace with the code's own strategy multipliers, 5 and 3. One key takes up to 7 members (`1`..`5`, `a`, `b`; `SetMaxIntsetEntries = 4`). `SPOP k 5` of 6 members and `SPOP k 6` of 7 take case 3 at its real threshold. `SRANDMEMBER k 2` of 6 or 7 takes case 4. No empty set stays in the keyspace, and every intset respects its limits.
- **`set_replication`.** On three keys, one of them a string, the master's set commands implement the abstract keyspace for every encoding, every SPOP/SRANDMEMBER strategy (with the SPOP multiplier scaled to 1, below), every SINTER driver and both SDIFF algorithms; no empty set stays in the keyspace and every intset respects its limits. Whenever the replica has applied the whole stream, it holds the master's sets and strings (`ReplicaConsistent`). This holds whatever members SPOP picked, and although the master's SPOP case 3 rebuilds the survivors into a new set of possibly another encoding while the replica removes members from its old one. TLC reaches caught-up states in which the two encodings differ. If case 3 propagated the new set's members instead of the old set's, the invariant would fail. If the SPOP itself were propagated, `ReplTypeOK` would fail.
- **`set_strict_types`.** SINTERSTORE with a missing operand before a string operand replies 0, and deletes the destination if it exists, instead of WRONGTYPE. TLC's trace is `SINTERSTORE k1 k1 ks` with `k1` missing and `ks` a string (another search order may pick `k2` as the missing operand). The design document (§7) says types are validated before any mutation.
- **`spop_count_truncation`.** `SPOP k 2^UIntBits` pops nothing, because `count = (unsigned) l`.
- **`dict_refinement`.** Adds, removes and finds, interleaved with every rehash step, growth, shrink and resize-policy change, behave as on a plain set of keys. Every key sits in its bucket of exactly one table, and the `used` counts are right. A `dictScan` that returns 0 has visited every key present for its whole duration. This holds across growth from 1 to 8 buckets, across a shrink from 8 to 4 or 4 to 1 in the middle of a scan, and across scan calls made while rehashing in either direction.
- **`dict_rehash_liveness`.** `OwnedSpec` (in `MCDictOwned`) picks the dict's owner once, and the owner fixes which steps the dict takes. A keyspace dict takes every `DictNext` step under `FairSpec`'s fairness. For it, every rehash that starts completes (`RehashCompletes`: `dictIsRehashing(d) ~> ~dictIsRehashing(d)`). A set's dict takes `SetDictNext` steps and is covered by `ClientDrivenRehashCompletes`. A mutant that leaks the iterator count breaks the keyspace half. A mutant whose `dictFind` skips its rehash step breaks the set half.
  - The set half follows `SetDictSpec`. It has no cron rehash, because `incrementallyRehash` serves only the keyspace dicts. It has no safe iterators, because `setTypeInitIterator` takes `dictGetIterator`. Only the step that `dictAddRaw`, `dictFind` and `dictDelete` take moves a rehash forward. If clients keep operating on the set, every rehash of its dict reaches its target size. TLC shows why the property is stated per rehash rather than as "the dict stops rehashing": with the scaled constants, a remove can finish a grow and start a shrink, and the next add can finish that shrink and start a grow. The dict then rehashes forever, though each rehash completes. The code's 10% minimum fill makes a doubled table half full, so this cycle needs the scaled 50%. The property excludes an empty dict: `dictFind` and `dictDelete` return early on one, without a rehash step, and the set layer deletes an emptied set's key together with its dict. If `dictFind` skipped its rehash step, a client that only runs SISMEMBER would leave the rehash where it is.
- **`sds_helpers`.** `sdsll2str` writes the canonical decimal form of every 8-bit value, including `LLONG_MIN`, whose negation overflows. `sdstrim` keeps exactly the string without its longest prefix and suffix of cset characters, as its comment describes. This holds for the empty string, for all-cset strings and for type-8 strings of 33 bytes. The header keeps its type and `alloc`. `sdsnewlen` picks a header that holds every length at the 32, 255 and 65535 boundaries; a type-5 header for 32 bytes would wrap the length to 0.
- **`sds_trim_nul`.** With NUL among the bytes, `sdstrim(sdsnewlen("\0", 1), "")` returns the empty string. `strchr(cset, '\0')` finds cset's terminator.
- **`sds_helpers`, `ld2string`.** `HumanFriendlyKeepsTyped`: a decimal a user types (`INCRBYFLOAT k 1.5`) that `string2ld` accepts comes back from humanfriendly `ld2string` as the same string, after the `%.17Lf` rounding and the strip loop (`1.50000` becomes `1.5`, `3.0` becomes `3`). A strip loop that keeps the trailing dot breaks it. Whether the `%.17Lg` form is right is the question of `ld2string_lossless`: a check that it is rounded to 17 digits would only restate the format.
- **`hincrbyfloat_result`.** `hincrbyfloatCommand` stores and replies with `len` bytes of `buf` without checking what `ld2string` returned, and without testing the sum for NaN or infinity. TLC's trace: `HINCRBYFLOAT k f 60` twice; the sum 120 does not fit `%.2Lf` in 6 bytes, `ld2string` returns 0, and the field becomes the empty string, which `string2ld` reads as 0. The code's 256-byte buffer does the same for sums from about 10^237 up, far below `LDBL_MAX`. With only `1.5`, `inf` and `-inf` as increments, TLC finds the other route: `inf`, then `-inf`, stores `nan` (or `-nan`), which `string2ld` rejects, so every later HINCRBYFLOAT on the field fails. Both commands reply as if they succeeded, and the replica receives the same string as an HSET.
- **`ld2string_lossless`.** The comment at `ld2string.c:104` says `%.17Lg` is lossless for a long double. It is not: 17 significant digits cannot tell apart all long doubles with a 64-bit significand (about 19.3 digits). In the scaled model (2 digits, 14 bits), `string2ld(ld2string(x))` returns a different value for `x` = 68 units·2^k. For the largest value, the printed form rounds up past `LDBL_MAX`, so strtold overflows and `string2ld` rejects the string `ld2string` wrote.

Bounds, and why they are enough:
- **Hash** (`HashMaxZiplistEntries = 2`, `HashMaxZiplistValue = 1`).
  - Three commands reach both conversions.
  - `LongBits = 3` gives the range −4..3. With increments {−4, −1, 2} the run reaches overflow at both ends, a zero result and a negative result.
  - `FloatBound = 5` lets HINCRBYFLOAT leave the long long range, so later HINCRBYs meet "not an integer".
  - `MaxArgs = 2` covers HSET of the same field twice in one command and HDEL of a repeated field.
- **Set** (`SetMaxIntsetEntries = 1`).
  - `{1, 2}` converts on size; `a` converts on type.
  - Counts {−2, −1, 0, 1, 2, 3} reach every SPOP and SRANDMEMBER branch for sets of up to 3 members.
  - `SPOP_MOVE_STRATEGY_MUL` is set to 1 in `set_replication` so that case 3 happens with 3 members next to the three-key set algebra. `set_refinement` checks the code's value of 5 with sets of 6 and 7.
  - `MaxArgs = 2` covers `SINTER k k` (the `sets[j] == sets[0]` paths), a missing operand next to a string operand, and stores onto an operand.
- **Replication** (`MaxBacklog = 1`). The master runs a command only when the stream is empty (this holds for hashes and sets alike), but one SPOP count appends up to three SREMs, which the replica then applies one per step while the master waits. The replica's handlers are deterministic and the stream is in order, so a longer lag repeats the same replay. With `MaxBacklog = 2` the state space grows past ten minutes of checking.
- **Width of the count casts.** `LongBits = 3` with `UIntBits = 2` keeps every count of the passing run representable, and adds `LONG_MIN` = −4. `SRANDMEMBER k -4` negates it with overflow, giving 4 draws, the magnitude the abstract spec asks for. The truncation run uses `LongBits = 4` for the count 4 = 2^UIntBits.
- **Long double** (`MantBits = 14`, `Prec = 2`, `UnitExp = 16`, `ExpSpan = 10`, `BufLen = 256`). The x87 long double has a 64-bit significand, printed with 17 digits; the model has a 14-bit significand printed with 2. In both, the significand holds a few more digits than the format prints (19.3 vs 17, 4.2 vs 2), so the same rounding cases occur: two values that print alike, a carry into a new digit (9.99 prints `10`), a switch between `%g`'s fixed and exponential styles, and rounding past the largest value. The inputs take every significand near 0, near 2^13 and near 2^14 at each of 11 binades. Typed decimals cover -3.00 to 3.00 in steps of 0.01, plus values at the top and bottom of the range. With `BufLen = 256` every string fits, so `sds_helpers` never takes the `No room` branch. `MCHashFloat` scales the buffer to 6 bytes: `%.2Lf` then runs out of room from 100 up, below the model's `LDBL_MAX` of about 256, as the real `%.17Lf` runs out of 256 bytes from about 10^237, below 1.19·10^4932.
- **sdstrim** (`MaxLen = 4`). Four bytes over three characters give every arrangement of kept and trimmed bytes at both ends, including a kept byte between trimmed ones. Two 33-byte strings add type-8 headers. Lengths above 2^31 are out of TLC's integer range, so the 32-bit boundary `0xffffffff` is not checked.
- **Dict** (`DICT_HT_INITIAL_SIZE = 1`, `HashtableMinFill = 50`, `CursorBits = 3`, `MaxIterators = 1`).
  - The code's initial size of 4 and minimum fill of 10% would need 5 keys to grow at all, and a shrink would need an almost empty table of 16. With 1 and 50%, three keys grow the table 1 → 2 → 4, and with resizing disabled they reach 8. A remove then shrinks 4 → 1 or 8 → 4.
  - The hashes 001, 100, 110 collide in small tables and separate in large ones, so a rehash really splits buckets.
  - TLC confirms these cases are reached: a table of 8, a shrinking rehash holding keys in its target, a scan call made mid-rehash, and a completed scan whose three keys stayed present throughout.

State-space reduction:
- **`VIEW`.** In the MC modules, `VIEW` identifies states that differ only in the write-only variables: `cmd` and `reply`, the replica's `rcmd` and `rreply`, and the dict's `last`. These variables are written by every step and read by none, so such states have the same successors. Every transition is still checked against the abstract spec.
- **Run times.** Every run finishes in under two minutes. `set_replication` takes about 85 s (the refinement check of the master's keyspace is most of it), `dict_refinement` about 80 s and `hash_replication` about 40 s. With `MaxArgs = 3`, the set runs take several minutes.

Fairness:
- The hash and set runs assume none. They check safety properties: invariants, or refinement of an abstract spec with `[][Next]_vars`.
- For a keyspace dict, `dict_rehash_liveness` assumes `FairSpec`'s fairness (in `OwnedSpec`, restricted to keyspace dicts). It assumes two things.
  - Weak fairness of `dictReleaseIterator`. A command that takes a safe iterator releases it before it returns (design document §5).
  - Strong fairness of `RehashMilliseconds`. The cron runs between commands, so while iterators keep being taken and released it keeps finding the count at zero. Weak fairness is not enough: TLC finds a behaviour that holds an iterator at every tick.
  - `MaxIterators = 1`: the model has no command boundary, and two overlapping iterators could otherwise keep the count above zero forever. No single command does that.
  - `FairSpec` leaves out `ScanCall`, which changes only `scan`, a variable no dict step reads.
  - A set's own dict is not rehashed by the cron, only by its own operations (see the hazards in `PROJECT.json`). For it, completion needs client traffic, which no fairness can assume.
- Clients may stop sending commands, so no command is ever required to happen. `ClientDrivenRehashCompletes` therefore assumes no fairness: it is an implication whose premise is that operations on the set keep coming (`[]<><<SetOpStep>>_vars`).
- Deadlock is checked in every run. The only way to stop is a `serverPanic` (the `panic` encoding of `HashType`), and TLC would report it.

## Findings

1. **HINCRBY / HINCRBYFLOAT and the ziplist length limit** (`t_hash.c:645`, `:686`). Neither command calls `hashTypeTryConversion`. Long field names and long results can therefore stay in a ziplist, contrary to the promotion rule of the design document (§3).
2. **SINTERSTORE and operand type checks** (`t_set.c:889`). SINTERSTORE returns at the first missing operand and deletes the destination before type-checking later operands. SUNIONSTORE / SDIFFSTORE reply WRONGTYPE in the same situation.
3. **SPOP count truncation** (`t_set.c:459`). `count = (unsigned) l` truncates a count of 2^32 or more. SPOP then pops nothing instead of emptying the set. SRANDMEMBER (`:693`) does the same.

4. **`sdstrim` and NUL bytes** (`tests/sdstrim.c:198`). An sds is binary-safe, and `sdsnewlen` copies NUL bytes into it. `sdstrim` tests `strchr(cset, *sp)`, which is non-NULL for `'\0'`. A NUL byte at either end is therefore trimmed even when cset does not contain it. The comment at line 197 says only characters in cset are skipped.
5. **`ld2string` is not lossless** (`tests/ld2string.c:94`). The comment at line 104 says `%.17Lg` is lossless for a long double. 17 digits do not distinguish all 64-bit significands, so `string2ld(ld2string(x))` may return another value. At `LDBL_MAX` the printed form rounds up beyond it, and `string2ld` fails on it with `ERANGE`.
6. **HINCRBYFLOAT stores an empty string or NaN** (`t_hash.c:712`). The return value of `ld2string` is ignored, and the sum is not tested for NaN. A sum too wide for `buf` (about 10^237 and up) sets the field to the empty string, which later reads as 0. `inf` followed by `-inf` stores `nan`, which no later HINCRBYFLOAT accepts. Both reply with success.

## Not modelled, and the plan

- **Not modelled, and why.**
  - SSCAN and HSCAN as commands (`scanGenericCommand`, `db.c`): `Dict` models the `dictScan` calls they make.
  - The unsafe iterators of `setTypeInitIterator` / `hashTypeInitIterator` and their fingerprint check, and `dictGetRandomKey` (SetType abstracts random picks to a choice).
  - `getLongDoubleFromObjectOrReply` (`object.c`, absent): `HashFloat` parses the increment with `string2ld`, which has the same checks.
  - HMSET's `+OK` reply: it is HSET with another reply.
  - The AOF, the replication backlog, partial resync and replica reconnection: `SetReplication` has one replica on one unbroken link.
  - `str_trim` in `tests/sdstrim.c`: the same two loops as `sdstrim`, over `strlen(s)`, which stops at the first NUL.
- **Plan, most important first.**
  1. Done: `Dict`.
  2. Done: `SetReplication`.
  3. Done: `SdsTrim`.
  4. Done: the code's SPOP / SRANDMEMBER multipliers (`set_refinement`).
  5. Done: `LdString` (`ld2string` / `string2ld`).
  6. Done: `HashReplication`, and HMGET / HKEYS / HVALS.
  7. Done: `HashFloat` (HINCRBYFLOAT over `LdString`).
  8. Next: compose `HashFloat` with `HashReplication`, so that the replica stores the string of a NaN or overflowing sum too; HSCAN over `Dict` once `db.c`'s scan loop is available.
