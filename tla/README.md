# MemKey in TLA+

A verification project for MemKey, a Redis-like key-value server in C
(`src/src/*.c`). Paths below are relative to `src/`: `htable.c:89` is line 89 of
`src/src/htable.c`, `examples.md` is `src/examples.md`.

## 1. The system

| component | code | state it keeps | operations |
|---|---|---|---|
| helpers | `helper.c` | none | `next_prime`, `hash_func` (double hashing: `djb2 + i*sdbm`), `ndigits`, `is_number`, `strtoi`, `intostr` |
| hash table | `htable.c:1-213` | `size`, `used`, `items` (NULL, tombstone or item) | search, set, del, item-by-item copy in `htable_resize` |
| set | `set.c` | `size`, `used`, `members` | add, rem, ismember, members, resize |
| list | `list.c` | `len`, `head`, `tail`, the nodes' links | push, pop, index, set, pos, rem, range, free |
| typed keyspace | `htable.c:215-422` | one hash table whose items are strings, hash tables, lists or sets | `htable_hset`, `htable_push`, `htable_sadd`, `htable_hdel`, ... |
| interpreter | `interpreter.c` | none between commands | one `exec_*` per command |
| replies | `interpreter.c:6-80`, `client.c:32-80` | none | `reply_string`, `reply_integer`, `reply_array`, ..., and `parse_resp` in the client |
| parser | `parser.c` | none between requests | `parse` |
| server | `server.c`, `MemKey.c` | the client being served, the message read | accept, read, respond, QUIT, SHUTDOWN |
| client | `client.c`, `MemKey-cli.c` | its socket | connect, type a request, show a reply |

The server is one thread. It accepts a connection, reads a request, parses it,
runs the `exec_*` function on the one `HashTable` of the process, writes the
reply and reads again until QUIT; only then it accepts the next connection.
A command calls the typed layer, which calls the hash table, the set or the list;
a hash is itself a hash table stored in a hash table. Nothing is persisted.

Where it is hard: (1) open addressing with tombstones and a resize in the middle
of a call; a key is found or not depending on everything that happened to the
slots of its probe path. (2) A zero probe step, `sdbm(key) % size = 0`, which makes
`htable_insert` give up without telling anyone, during an insert or during a resize.
(3) `used`, which survives a resize unchanged and then decides when a
collection is empty and how large a reply array is. (4) Commands of many keys or fields,
whose loops see what their earlier iterations did. (5) Pointers: loops that free
what they walk on. (6) Two walks over one message, of which the second trusts the count of the
first. (7) Buffers sized by `ndigits`. (8) The connection: no framing, no look at the results
of `read` and `write`, no SIGPIPE handler.

## 2. Modules

| module | models | abstract counterpart |
|---|---|---|
| `CInt` | C's `int` with its width, wrap-around and `%` | |
| `Hashing` | `helper.c`: primes and `hash_func`, with int wrap-around | `NextPrimeAgrees`, `ProbeCoversTable` in the same module |
| `Replies` | numbers as texts, the formatting of replies and the client's reading of them, with the sizes of the buffers | what was sent is what is shown (`TextsSurvive`) |
| `OpenAddressing` | what `htable.c` and `set.c` share: slots, free slots, load | |
| `HashTable` | `htable.c`, slot by slot | `Dictionary` |
| `HashSet` | `set.c`, slot by slot | `Membership` |
| `HashKey` | HSET, HDEL and HGETALL of one key on the slots of `HashTable` (EXTENDS it) | |
| `List` | `list.c`, pointer by pointer, and the index commands | `ListContents` |
| `Keyspace` | the typed `htable_*` functions over exact maps | |
| `Interpreter` | the `exec_*` functions (EXTENDS `Keyspace`) | the commands of one item, for those of several (`ArraysAgree`) |
| `Parser` | `parser.c`, token by token | `TokensOf` in the same module |
| `Server` | server, clients and their connections | |
| `MC...` | constants for TLC; `MCHashing` and `MCReplies` are about the operators of `Hashing` and `Replies`, whose arguments `MCArguments` enumerates; `MCHelpers` joins the two | |
| `NaturalFacts`, `OpenAddressingProofs`, `HashTableProofs`, `HashSetProofs`, `ListProofs`, `InterpreterProofs`, `ParserProofs`, `ServerProofs` | theorems, section 4 | |

**State and actions.** Variables have the names of the C fields and locals:
`size`, `used`, `items`; `newSize`, `newUsed`, `newItems` are `new_ht` in
`htable_resize` and `scan` is its `i`; `pos` and `dup` are the two parsers of `parse`. A call is one
action, because nothing runs concurrently with it, except where the code loops over something whose
intermediate states matter: the resize loops, `list_rem`, `list_free`, the tokens of a message
and the loops of commands with several items take one action per iteration. While such a loop is under
way `pc` allows no other action. `ret` (`reply` in `Interpreter`) is the last call
with its answer, so that answers can be compared with effects. A NULL-terminated probe
loop is written as "the index where it stops" (`Hit`, `FirstFree`, `Accepts`).

**How the modules meet.** `Keyspace` and `Interpreter` are about commands: which keys, fields
and elements there are after each iteration, and what is answered. There a table is an exact map, and
`used` is the number of its elements. This is an assumption and no result: in the code `htable_resize` leaves
`used` as it was when it loses something (`htable.c:69`), and `set_add` may store and count a member twice (`set.c:68`).
How far a table is from an exact map is what `HashTable` and `HashSet` find: it may refuse a
key whose step is 0, lose one in a resize, hold a member twice. `HashKey` then runs the commands on
hashes once more on such a table: refusals, losses and resizes in the middle
of an HSET of several fields, the deletion of the key by `used`, and HGETALL's array of
`2 * used` entries. `List` works at its own level: whether a key has a list, and
its type, is decided before. `Server` knows of commands only whether they quit, shut
down, or have a short or a long reply. `Replies` has texts character by character. `Keyspace` only tells them apart as far as
`is_number` and `strtoi` do: words, the text that `intostr` writes for an int, the same with a leading zero, "" and "-";
the last two and "0" are three texts and one number.

**Broken variants.** Operators such as `htable_del_null` or `Rehash_stuck`, each with a
comment that says so, are not part of any specification. Each is what a bug would make of the
definition that follows it, and substituting it violates one property: it
shows that the property is about the code.

## 3. Runs

`tlc -config X.cfg M`. All bounds are constants of the configurations.

| run | module, cfg | bounds |
|---|---|---|
| helpers | `MCHelpers` | arguments 0..181 (beyond 13^2 = 169, so that trial division needs a divisor of 13, and past `next_prime`'s longest gap below 200); 49 keys made of pairs of hash values; an int of 16 bits; numbers near 0 and near both ends of the range, and squares; texts of up to 4 characters |
| parser | `MCParser` | every message of up to 5 characters over two letters, a blank and the two quotes |
| hash_table | `MCHashTable` | five keys, two values, sizes 2, 5, 11, 23, an int of 16 bits |
| hash_table_set_is_stored | `MCHashTable` | violation: see section 6 |
| hash_set | `MCHashSet` | five members, sizes 2, 5, 11, 23 |
| hash_set_unique | `MCHashSet` | violation |
| hash_key | `MCHashKey` | five fields, two per command, sizes 2, 5, 11, 23 |
| hash_key_empty | `MCHashKey`, `MCHashKey_empty.cfg` | violation |
| list | `MCList` | three nodes, two values, the indices -4, -3, -1, 0, 2 and 3, counts -2..2 |
| interpreter | `MCInterpreter` | two keys, two names (either interchangeable: symmetry), ints -2..1, two items per command, two elements in a list; what SET, MSET and HSET are given (`Given`) is a word, "1", "01", "" or "-", INCR and its kin compute the other numbers |
| interpreter_crash | `MCInterpreter`, `MCInterpreter_crash.cfg` | violation |
| server | `Server`, `MCServer.cfg` | two clients of four requests and then QUITs, one of them asks for long replies; backlog 1; three cells in a long reply against reads of two; either client may be interrupted at any time |

Why the bounds are enough. The hash values are those that `helper.c` computes for the
one-letter keys named in the configuration. Among them are keys whose step is 0 in tables of 2, 5 or 11 slots
and keys that collide, so the tables grow over three sizes and shrink again, with
tombstones, refusals and losses on the way. Three list nodes give a head, a middle and a tail, and every
boundary index. Two cells per read against three per reply is the smallest case
in which a reply is cut and the next one begins in the middle of a buffer. Integers of two bits reach
both ends of the range in two steps. Five characters make two tokens with quotes around one of them,
an empty token between quotes, a quote inside a word, the other quote inside a string, and an unterminated string.
The numbers that are tried as texts have from
one to five digits, with a sign and without, and the smallest has no positive counterpart.

What the properties say, beyond the comment at each:

* `LookupFindsStored`, `MembersAreFound`: no history of inserts, deletes and
  resizes cuts the probe path to something stored.
* `RefinesDictionary`, `OnlyZeroStepsAreLost`: a set or a delete has the effect and
  the answer of a map's; the exceptions are keys with a zero step, and no others.
* `UsedBounds`: `used` may be too large (after a loss), never too small, and the load
  limit leaves a free slot and no resize starts another. `UsedIsExact` says by how much: by the fields that resizes lost.
* `HgetallAllOrNothing`: the array that HGETALL allocates from `used` is filled exactly or not answered;
  `EmptyHashIsDeleted` fails because `used` never reaches 0 after a loss.
* `RepliesAccount`: what HSET and HDEL answer is what the hash gained or lost, up to refusals and losses.
* `DuplicatesReuseTombstones`, `MembershipChanges`: how far the set deviates from a
  set: only by reusing a tombstone, and not in what SISMEMBER answers.
* `OneOwner`, `NoUseAfterFree`, `WellLinked`: ownership of heap objects.
* `RefinesMembership`: the set is a bag. SREM answers 1 as long as a copy is left and takes one, `used` counts
  what SADD accepted and SREM did not take back, and each resize leaves one copy of a member at most.
* `RefinesContents`: all list commands against sequences, with negative indices and
  both directions of LREM.
* `RepliesCount`, `TypeIsKept`: what a command answers is what its whole loop did, also if items repeat or keys
  appear and vanish on the way, and no loop gives its key another type. Both are about exact maps: what refusals and losses do to the answers of
  HSET and HDEL is `RepliesAccount`'s subject, and an SADD or SREM of a member that is there twice is `RefinesMembership`'s.
* `ArraysAgree`: an item of MGET, HMGET or SMISMEMBER is the reply of the command of one item, except that a string that
  reads as a number comes as the integer it reads as ("25" as 25, "007" as 7, "" and "-" as 0),
  and that MGET shows what is not a string under any but the first key.
* `WalksAgree`, `TokensAreRight`: the loop that copies arguments takes as many as were counted without
  a look at what it gets; they are there, and they are the message's.
* `TextsSurvive`, `BuffersSuffice`: a number or a text comes back as it was sent, and every buffer
  holds its text and terminator, except for INT_MIN.
* `InStep`: without framing a client and the server stay in step as long as a reply fits the client's buffer, and
  while a client waits its request or its reply is under way: the two never wait for each other.
  `KilledOnlyByItsClient`, `EveryClientIsServed`, `EveryWaitEnds`: who can harm whom, and who waits for whom.

**Fairness.** Weak fairness on the resize loops, `list_rem`, `list_free` and the steps of `parse`: they are
straight-line code of the only thread. In `Server` weak fairness on the server's steps and
on each client's connecting, typing and reading; typing includes the QUIT that ends
a session, and `EveryClientIsServed` depends on it. This is an assumption about users and nothing that the code ensures: an idle client that
never quits starves the others, by design of the code, and no run catches that. No fairness on `Interrupt`. The runs `helpers`, `server`
and `interpreter` turn the deadlock check off: the arguments of the helpers come to an end, the server really stops
after SHUTDOWN or SIGPIPE and clients stop when they have nothing more to type, and the crash of the
interpreter (section 6) ends everything. The other passing runs check it.

## 4. What is proved

By TLAPS, for every value of the constants that the assumptions allow:

| module | theorem | statement |
|---|---|---|
| `OpenAddressingProofs` | `ProbesStayInTable` | `hash_func` stays in the table |
| | `SizesAreLeastPrimes` | `NextPrimeAgrees(x)` for every x up to `2 * MaxSize` |
| | `ProbesCoverPrimeTables` | `ProbeCoversTable(k, n)` for every key and every prime size |
| | `TableSizesAreRight` | `Arguments => []SizesAreRight`, for arguments up to `MaxSize \div 2` |
| | `ProbesCoverTables` | `Arguments => []ProbesCoverAll`, for the same |
| `HashTableProofs` | `TypeCorrectness` | `Spec => []TypeOK` |
| | `LookupCorrectness` | `Spec => []LookupFindsStored` |
| | `UsedIsBounded` | `Spec => []UsedBounds` |
| | `OwnershipIsUnique` | `Spec => []OneOwner` |
| | `Refinement` | `Spec => RefinesDictionary` |
| | `LossesHaveZeroSteps` | `Spec => OnlyZeroStepsAreLost` |
| | `UsedCountsFieldsAndLosses` | `SpecKey => []UsedIsExact` |
| | `RepliesAreTrue` | `SpecKey => RepliesAccount` |
| | `HgetallIsAllOrNothing` | `SpecKey => []HgetallAllOrNothing` |
| `HashSetProofs` | `TypeCorrectness` | `Spec => []TypeOK` |
| | `EveryMemberIsFound` | `Spec => []MembersAreFound` |
| | `UsedIsBounded` | `Spec => []UsedBounds` |
| | `SecondCopiesReuseTombstones` | `Spec => DuplicatesReuseTombstones` |
| | `MembershipIsJustified` | `Spec => MembershipChanges` |
| | `Refinement` | `Spec => RefinesMembership` |
| `ListProofs` | `TypeCorrectness` | `Spec => []TypeOK` |
| | `ListStaysLinked` | `Spec => []WellLinked` |
| | `NothingIsUsedAfterFree` | `Spec => []NoUseAfterFree` |
| | `CommandsImplementSequence` | `Spec => RefinesContents` |
| | `LoopsAreBounded` | an iteration leaves less to walk, `len + 1` steps at most |
| `InterpreterProofs` | `TypeCorrectness` | `Spec => []TypeOK` |
| | `LoopsAnswerTheirEffect` | `Spec => RepliesCount` |
| | `ArraysAnswerEachItem` | `Spec => ArraysAgree` |
| | `TypesAreKept` | `Spec => TypeIsKept` |
| `ParserProofs` | `TypeCorrectness` | `Spec => []TypeOK` |
| | `CountMatchesWalk` | `Spec => []WalksAgree` |
| | `ParserFindsTheTokens` | `Spec => []TokensAreRight` |
| | `ParseIsBounded` | a step leaves less to do, `2 * Len(string) + 5` steps at most |
| `ServerProofs` | `TypeCorrectness` | `Spec => []TypeOK` |
| | `OnlyItsClientKills` | `Spec => KilledOnlyByItsClient` |
| | `ConversationsStayInStep` | `Spec => []InStep` |
| | `NumbersSurvive` | `NumberSurvives(y)` of `Replies` for every int y |
| | `StringsSurvive` | `TextSurvives(s)` for Nil and every string whose length is an int |
| | `NumbersFit` | `NumberFits(y)` for every int y but INT_MIN, and not for INT_MIN |
| | `RepliesFit` | the other buffers hold their text |
| | `TextsComeBack` | `Arguments => []TextsSurvive` |
| | `BuffersAreLargeEnough` | `Arguments => []BuffersSuffice` |

**The hash table.** All theorems of `HashTableProofs` follow from one inductive invariant, `IInv`
(`InitEstablishesIInv`, `NextKeepsIInv`, `Invariance`). It adds to the properties what makes them
inductive: `Counted` (what was
moved and what still waits fit in the occupied slots of the old table), `LoadLimit` (the old
`used` already respects the limit of the *new* size, which is why the new table can never be
resized while it is filled) and `MovedFromBelow` (what the new table holds came from a
slot below `scan`, so no key is inserted twice). The heart of it are three
lemmas on tables: `InsertKeepsReachable`, `DeleteKeepsReachable` and
`UpdateKeepsReachable`. They need no assumption on the hash function except that probes stay in
the table.

The second part of `HashTableProofs` says what each step does to the slots; the refinement, the losses and the
proofs about a hash rest on it. The refinement maps a table to the dictionary of the keys that a lookup finds, during a resize to those of
the new table and those that still wait in the old one; every probe, tombstone and move is then a step of `Dictionary`
or a stutter.

**The zero steps.** That a key is refused or lost only if its step is 0 needs arithmetic. Trial division by the odd
numbers up to the square root finds the textbook's primes (`TrialDivision`: a composite number has a divisor that is no
larger than its root), so tables have prime sizes (`SizesPrime` is an invariant beside `IInv`). A prime divides no product
of two smaller numbers (`PrimesDivideNoProduct`, by the least multiple of the one that it divides, as in Euclid's
algorithm), so the probes of a non-zero step are pairwise different (`ProbesDiffer`), and an injection of a finite set into
itself is onto: they cover the table (`NonZeroStepsCover`). The load limit leaves a free slot (`TablesAreNotFull`),
which such a key must meet. `OnlyZeroStepsAreBlocked` is the conclusion, for the table and the set.

**A hash.** `KInv`, in the last part of `HashTableProofs`, is `UsedInv` (the table's `IInv`, and `used` is what is live plus what was lost,
while a resize runs what was moved plus what waits plus what was lost), `KeyShape` and `Balance`: a running HSET has
`used + refused = before + oks`, a running HDEL `used + refused + oks = before`. `HgetallIsAllOrNothing`
needs the least slot at which `used` fields are collected; `LeastNatural`, from the well-foundedness of
the naturals, provides it.

**The set.** `MembersAreFound` alone is not inductive: `set_add` stores a member in the first tombstone it
meets without looking for a copy further on, so two slots may hold a member, a removal takes the first copy, and the second must be found from then on. The inductive `PathKept` says
that no NULL slot cuts the probe path to any copy. `GInv` adds that the set that a resize fills is `Fresh`: it has
no tombstones and each of its members once, because what `set_add` stores in a NULL slot was nowhere in the set
(`NothingBehindNull`: copies before the slot stop the loop, and none is behind it). Hence a second copy needs a tombstone, and a
resize ends with one of each. The refinement maps a set to the number of copies of each member, during a resize
those in the new set and those that still wait; an iteration then changes nothing or drops the copy that it does not
store again.

**The list.** `IInv` of `ListProofs` says that some sequence `p` of nodes enumerates the nodes the list owns, that the
links of the nodes go along it in both directions, and that `head` and `tail` are its ends. While `list_rem` runs,
`Removing` adds where `cur` is in `p` and a map `g` from the nodes left to the positions they had before:
those that are gone are exactly the equal elements on the walked side, as many as were counted, so that the
final state is the one that `ListContents` computes at once. While `list_free` runs, `Freeing` says that `cur` leads to all that is
not yet freed. `WellLinked`'s walk from the head is a recursive function; that it agrees with `p` is shown by its
defining equation and the least position where the two differ.

**The commands.** The theorems are about commands over exact maps. `IInv` of `InterpreterProofs` says that every entry is good (counted, not empty, its elements a
sequence), which holds of such maps only and is used to conclude about replies, not stated as a result; and that the type the loop looked at before its first iteration is still its key's or the key is
gone. While a loop runs, `Sums` says what its
iterations have added up (for HSET the size now less the size before, for EXISTS the items so far that have an entry, for DEL the keys
that are gone, ...) and `Fills` that each place of the array holds what its own item finds; `Rest` says that nothing is left of a loop
when it has ended. `LoopsAnswerTheirEffect` and `ArraysAnswerEachItem` compare the reply of the last iteration with the whole
command by them. `Change` describes what every writing function does: one entry becomes none or a good one
of the same type.

**The parser.** `Reading(m)` is the automaton that the comments and examples describe, after each
character: between two tokens, in a plain or in a quoted one, with the tokens closed so far. `get_next_token` does not go character by
character: it searches for ends. `Boundary` is a position where a token may end, and the heart of the proof is that
from a boundary `get_next_token` goes to the next one and takes exactly the one token in between (`QuotedIsToken`, `NameIsToken`).
`IInv` then says that both walks stop at boundaries: `argc` is the number of tokens before `dup` while one counts, and `argv` holds
the tokens but the first before `pos` while the other copies.

**The server.** `ServerProofs` builds layers: `Types`; `Ends` and `Queue` (a client has its end of a connection
while it runs, an end is reset only after the other was closed, the connections that wait are open and
differ), which give `OnlyItsClientKills`; and `Talk` (one message of a client is under way at most, it is the
last that was typed, and it asks for no long reply), which gives the first part of `InStep`. The second needs
one more, `Debts`: a client that waits on an open connection has its message on the way, in the server's hand or
answered, and is served or in the queue.

**The replies.** The last part of `ServerProofs` is about what `Replies` puts into a message and reads in it. The
text of a number has a digit more than that of its tenth (`PrintLength`: as many digits as `ndigits` counts, one for 0), and
reading it gives the number (`PrintReads`), by strong induction over the number; -INT_MIN does not exist, but its digits wrap to INT_MIN when they are read, and so does the negation: the number
survives, while `ndigits` says 0. A reply is read up to its first CR, which the digits before it are not, and a
string is taken by its length, so that it may hold line ends itself (`PrintedIs`, `IntFieldIs`, `IntIsParsed`).
For an array the items' texts are put together one by one (`FlattenIsText`, `ItemIsText`). The theorems
about `Arguments` follow; `MaxText` may be any length that is an int.

Induction. The library's induction theorems take an operator and cannot be used. `NaturalFacts` has what replaces
them: a non-empty set of naturals has a least element (from the well-foundedness of the naturals), and a set that holds 0 and, with a
number below a bound, its successor holds all up to the bound. Where a proof needs induction, the set of the numbers for
which the claim holds (or fails) is named and given to one of these. A recursive function is given by its equation, and that
a function with this equation exists has to be shown before anything can be said of it: `RecursionDefines` does it for functions
on the naturals whose value is that of a base or comes from the value of a smaller number, as the loops over digits have it.

Assumptions (`HashAssumption`, `TableAssumption`, `PrimeAssumption`, `ItemAssumption`, `HashKeyAssumption`,
`ArgumentAssumption`, `TextAssumption`, `IntAssumption`, `KeyspaceAssumption`, `InterpreterAssumption`, `ListAssumption`, `ParserAssumption`, `ServerAssumption`):
hash values are naturals; an int has at least two bits; `MaxSize * MaxSize` and `MaxSize * 100` fit in an int (for 32 bits:
up to 46340 slots; above that `i * sdbm` can overflow and nothing is claimed);
Bertrand's postulate up to the bound, so that `next_prime` is defined by a bounded
search; NULL and the tombstone are no items, members, nodes or messages; the kinds of texts and of characters are told apart;
bounds are natural numbers; nodes and the names of fields and members are finitely many. TLC evaluates all of them in the runs.

Only model-checked:

* liveness (`ResizeEnds`, `LoopsEnd`, `ParseEnds`, `EveryClientIsServed`, `EveryWaitEnds`), which is out of the
  prover's reach together with ENABLED. Their safety halves are
  proved where they are not obvious: `LoopsAreBounded` and `ParseIsBounded` bound the steps that are left (`Left` in either module; a
  resize and a loop over items count up to a limit), and the second part of `InStep` says that something is under way as long as a
  client waits;
* Bertrand's postulate up to the bound, which the theorems about table sizes assume and TLC evaluates in every run with tables.

## 5. What is not modelled

* Memory exhaustion (the allocators exit) and leaks (a popped node, types freed with plain `free` on
  error paths, the values of lost items).
* `data_storage_example.c`, a stand-alone program that prints the data structures, and `connect.sh`: not part of the server.
* `init_server`'s socket calls, which exit on failure.
* Messages longer than 1024 bytes, and requests that arrive split over two reads.
* What `fgets` leaves in the client's buffer at the end of its input: `repl` sends the
  buffer of `malloc` again and again.
* `parse_err` (`client.c:67-69`): the byte for the terminator is allocated but never written, and `puts` reads on until there is a zero
  byte. What the block held before is outside the model.
* Texts that are numbers as names: keys, fields, members and the elements of lists are words in `Keyspace`, so that LRANGE and SMEMBERS
  meet no number there, and a text has one leading zero at most (`Padded`). `ArrayItem` is the same for all arrays.
* The numbers of arguments: a command with a wrong one, SET with more than two among them (`interpreter.c:112`), is answered by
  `exec_argc`, which the model has once for all commands, because it changes nothing.
* Tables of more than 46340 slots, where `i * sdbm` may leave a 32-bit int (`helper.c:60`): assumed away, see section 4.
* `sprintf(token, "%s%c", tmp, c)` with `tmp == token` (`parser.c:36`): undefined in C; in the build that the
  repository's `Makefile` makes (`CFLAGS=-g -Wall`, no fortification) it appends one character, and so does the model.

## 6. Where code and documents disagree

With a run:

* `SetIsStored` (`htable.c:89`): SET answers OK for a key it did not store;
  `examples.md:20-25` shows SET followed by GET. On a fresh server `set b x`, `set d y`, `get d` is nil.
* `NoDuplicates` (`set.c:68`): a member in two slots; `internal-structures.md:79` "Uniqueness guaranteed".
* `EmptyHashIsDeleted` (`htable.c:336`, run `hash_key_empty`): a hash without fields keeps its key;
  `internal-structures.md:356`.
* `NoCrash` (`interpreter.c:210`): INCRBY of a missing key by a non-number ends the
  server; `examples.md:440-441` shows an error reply.

Contained in the models as the code has them, without a run of their own:

* `used` is not the "number of occupied slots" (`internal-structures.md:31`) nor the
  "number of members" (`:73`) once a resize has lost something or a member is there twice; HGETALL
  then answers an empty array (`HgetallAllOrNothing`).
* LINDEX out of range is an error, not null (`examples.md:227-229`), and LRANGE past the end is
  an error, not clamped (`examples.md:600-601`): `ListContents`, and so `RefinesContents`, has them as errors.
* SET without arguments answers OK (`examples.md:405-406` shows an error).
* MGET takes a value of any type for a string after its first key (`ArraysAgree`).
* MGET and HMGET answer an integer for a string that reads as a number: `examples.md:43` and `:587` show strings in quotes in the
  array, and GET answers them so; "25" comes as 25, "007" as 7, "" and "-" as 0. `ArraysAgree` says so for every text.
* DECRBY of a missing key stores the amount, not its negation.
* Command names are compared with lower-case ones (`parser.c:115`); the documents write them in upper case.
* A string in quotes ends at a quote of either kind, and one that is not closed goes on to the end of the message
  (`parse_string`).
* `ndigits(INT_MIN)` is 0, so `intostr` and `reply_integer` allocate too little for it (`BuffersSuffice` leaves it out;
  `NumbersFit`: for every other int they allocate enough).
* The client shows nothing for an array (`parse_resp` has Nil).
* After QUIT the server closes the connection, and `repl` goes on: it shows nothing, prompts
  again and is killed by SIGPIPE at the second write (`examples.md:386-387` "Connection closes gracefully").
* A client that leaves without QUIT makes the server parse its stale buffer and
  die of SIGPIPE on the second write (`KilledOnlyByItsClient`); a reply longer than
  1024 bytes leaves the client one reply behind.

## 7. Plan

Done, in the order of importance: the hash table (model, refinement, proofs), the set and the bag it implements, the
list, the commands, the server, the parser, the replies, a hash on its real table; the theorems of section 4, which are
about every safety invariant and every action property.

Left, in the order of what it would add:

1. A set under a key on the slots of `HashSet`, as `HashKey` does for a hash: when SREM deletes a key whose `used`
   still counts members that a resize has merged or lost.
2. Requests that arrive in two reads, in `Server`, and what `ServerProofs` says of them.
