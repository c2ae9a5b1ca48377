# cxx-libs in TLA+

A verification project for cxx-libs (C++23, header only): TLA+ modules for the
parts that keep state, TLC configurations that check them on small instances,
and proofs, checked by TLAPS, of what matters most. `PROJECT.json` lists the
runs, the source lines each definition stands for, the mutants that show that
each property can fail, the hazards of the code and what was found.

Paths below are relative to `src/src/cxx/`.

## The system

| part | state | operations | what is hard about it |
|---|---|---|---|
| `ref/Ref.h` shared pointer | a pointer per handle; an atomic count, an object and a deleter per block | copy, move, clear, make, dereference | handles in many threads share a block; deleters destroy more handles, nested; assignment clears before it takes |
| `algo/LinkedList.h` | `front_`, `back_`; nodes with `data_`, `next_`, all `Ref` | pushFront, pushBack, copy, iterate, compare | copies share nodes; an iterator outlives changes; size is never set |
| `string/*.h` String | `size_`, `data_`: literal, small or shared | construct, copy, move, assign, destroy, compare, concat, split | three representations in the same sixteen bytes; assignment constructs over a live object |
| `json/*.h`, `JSON.h` | the parser's position and its call stack; values are immutable trees | parse, write, compare | recursion with gotos over a text whose end is not known to the parser |
| `gen/Generator.h` | a coroutine frame, shared by generators and iterators | call, begin, test, dereference, advance, destroy | begin() resumes; one coroutine drives another; exceptions are stored |
| `prog/DWARF.h` | registers of a line-number machine, a map of rows | interpret an operation | rows overwrite rows; a program may end early; unknown operations |
| `StackTrace.h`, `stack/*.h` | known binaries, the accumulated map | findBinaries, findLocation, resolve | lookups at the edges of the map; rows of one binary found for another |
| `io/Cursor.h` | a window on a file, a read offset | decode integers and LEB128, skip, copy | no bounds are checked; signed and unsigned shifts |
| `prog/MachO64.h`, `ObjectFile.h`, `io/File.h` | a mapped file | open, walk the load commands to the sections | sizes and counts are read from the file |
| `exc/Exception.h`, `Exception.h` | a message buffer, the previous terminate handler | throw with a trace, dump, terminate | copies share the buffer; the handler does not call the previous one |
| `algo/Expected.h` | a tag and a union | construct, access | none that changes state |
| `test/Test.h`, `init.py`, `Makefile` | a list of tests | register, run | none |

How they interact: `Ref` is under everything. List nodes, shared strings, JSON
values, coroutine frames, binaries and stack frames are all owned by it. JSON
arrays and objects keep their items in a `LinkedList`, and objects can be built
by a loop over a `Generator`. `String::split` is a generator over a string's
characters. `Exception` takes a `StackTrace`, whose resolver runs the DWARF
interpreter over the sections of an object file, read through `Cursor`.

What makes each part correct:

- **Ref**: the count is the number of owners at every instant; an object is
  destroyed exactly once, after its last owner and before its memory goes;
  nothing touches it afterwards; an assignment delivers.
- **LinkedList**: following `next_` ends; a list holds what was pushed; an
  iterator neither skips nor repeats.
- **String**: both words always agree on the representation; a block outlives
  the strings that show it, and not longer.
- **JSON**: what is written is read back; nothing is invented; parsing ends,
  within the text.
- **Generator**: each value reaches the caller once and in order; frames live
  as long as somebody may resume them; nothing finished is resumed.
- **Line table**: a number reads as what was written; an address is located in
  the row its code belongs to, or nowhere.
- **Object files and the resolver**: every section is found; a frame is located
  by the debugging data of its own image, whatever was looked up before.

## The modules

| module | models | built on |
|---|---|---|
| `SharedOwnership` | what a shared pointer promises, without a count | |
| `Ref` | `ref/Ref.h`, step by step, all calls interleaved | implements `SharedOwnership` |
| `RefProofs` | theorems about `Ref` | extends `Ref` |
| `LinkedList` | lists, iterators, nodes, `operator==` | ownership as proved for `Ref` |
| `ListProofs` | theorems about `LinkedList` | extends `LinkedList` |
| `String` | the three representations and their ownership, `operator+` | blocks as counted by `Ref` |
| `Split` | `String::split`, a coroutine over a string that goes on changing | extends `String` |
| `StringProofs` | theorems about `String` and `Split` | extends `Split` |
| `JSONParse` | `JSON::parse` | |
| `JSONProofs` | theorems about `JSONParse` and `JSONRoundTrip` | extends `JSONRoundTrip` |
| `JSONRoundTrip` | the writer, as the inverse of the parser | extends `JSONParse` |
| `Generator` | frames, generators, iterators, loops, coroutines that relay | ownership as proved for `Ref` |
| `GeneratorProofs` | theorems about `Generator` | extends `Generator` |
| `Cursor` | windows and positions; LEB128 numbers | |
| `LineTable` | `DWARF::evalLineProg` and the lookup in its map | extends `Cursor` |
| `LineProofs` | theorems about `Cursor` and `LineTable` | extends `LineTable` |
| `MachO` | the walk from a file's load commands to its sections | extends `Cursor` |
| `Resolver` | `StackResolver` over several binaries that share a map | composes `LineTable` and `MachO` |
| `ResolverProofs` | theorems about `MachO` and `Resolver` | extends `Resolver` and `LineProofs` |

`NaturalFacts` holds what the proofs of several modules rest on: least and
greatest members of sets of numbers, and that a function defined step by step
has the value its steps give it. In the modules with theorems recursion is
written as a recursive function, which the latter is about.
Each `MC...` module extends one of these with the values a `.cfg` cannot write.
Every wrong variant in the modules (a definition introduced by "Wrong:") is a
plausible bug in the definition that follows it; no specification uses one.

### Ref

State: `block` is `block_` of every handle, `refs` is `refs_` of every block,
`life` how far a block and its object have come (unused, building, live, dying,
gone, freed). A member-function call is named by its `this` handle: `at` says
which line it is about to run, `call` which function it is in, `src` its rhs.
`Clear`, `CopyFrom`, `MoveFrom` and `MakeBlock` begin calls (the destructor,
the copy and move constructors and assignments, `make`); the other actions are
their steps, one per access that another thread could notice: the decrement
with its test, the deleter's entry, the destruction of each member handle (a
call of its own, nested), the deleter's end, `delete block_`, `block_ =
nullptr`, reading `rhs.block_`, the increment. `MakeThrow` is the object's
constructor throwing, and unwinding.

The code owes its callers nothing if they race on a plain field, so the model
has their contract: a call begins only on a handle that no other call is using
as `this`, and reads an `rhs` no call is changing (several may read one rhs at a
time); a member handle is reached through local handles that keep its object
and hold still meanwhile (`Ways`). `HomeAssumption` says which handles are
members of which object. `AliasedSpec` adds the two assignments this contract
forbids and the type invites: `r = r`, and `r = r->member`.

Left out: the order in which the atomics become visible to other threads (they
are sequentially consistent in the code), `check()`, whose by-value `self` is a
copy and a clear, the type-punning conversions, and the deeper nests of members
reached through members. The array form of `make` differs in the deleter and in
returning a copy of its local: a make, a copy and a clear. A block address that
the allocator hands out again counts as another block. Constructor arguments
that are stored in member handles are moves into members after `make` returns.

### LinkedList

`front`, `back`, `cursor`, `data`, `next` are the fields. `Ref` is used as
proved: a node lives exactly while a handle leads to it, so each operation ends
with `Settle`, which clears the nodes it orphaned (and lets `make` use their
addresses again). A list's copy constructor and assignment copy two handles.
An iterator's `++` assigns to `node_` from a member of the node it holds;
`Advance` requires somebody else to keep the node, as a list in a loop does:
without one it is the aliased assignment of `ref_alias`. A list modified through
a copy that shares its nodes (`shared`) has no promised contents.

### String

`size` and `data` are the two words, `data` being zero bits, a literal's
address, characters or a `Ref`; a text is a model value with a length. The
constructors write into raw storage, and `operator=` is a constructor run over
the old object, as in the code. `Literal` is what a constant evaluation leaves
in the program image. `Concat` is `operator+`: it reads both texts by a loop
from `begin()` to `end()` (`Read`) and constructs a string of the result; `Plus`
says which texts make which, so that the instance stays finite. `operator==`
and `operator<` change no state and are left out.

### Split

`Split` composes `String` with the coroutine that `split()` is. The coroutine
keeps `this` from its call to its first resume, and from then on the address
`data()` gave, `size()` and where the next part begins; the variable `split` is
just that. All the actions of `String` may happen between two resumes
(`StringStep`), the string being split among their targets. What the coroutine
relies on meanwhile is `Relies`, and `intact` records whether it was kept: until
the first resume, the string itself; then, the string for a SMALL one, any
holder of the block for a SHARED one, nothing for a literal. A read of what is
not there leads to "lost", where the code's behaviour is undefined and the
model stops following it. Texts are sequences here, so that the parts can be
put together again. The strings that the coroutine yields are not among the
modelled ones: each is made by `String(char const*, size_t, size_t)` as in
`Construct`, and is the caller's own afterwards.

### JSONParse

The stack of `parseArray` and `parseObject` calls is explicit, and so is the
place in the innermost one; each action is a stretch of code up to a call or a
return. A text is a sequence of symbols, one for each character that the code
tells apart, with one for all digits; space stands for all white space. The
words `null`, `true` and `false` are read letter by letter, up to the first that
is not the expected one (`ParseWord`). A number is named by the characters it
was computed from: `Num(t)` is whatever double the arithmetic of `parseNumber`
makes of t. `end` is what `end_` happens to
hold, which is any position of the text or none, because the constructor never
sets it. A text is followed by a NUL, as that of a `cxx::String` or a
`std::string` is; what lies beyond is undefined, and so is the result of a parse
that gets there. `JSONRoundTrip` adds texts that were written from a value, with
`wanted` remembering which, and `TripSpec`, which is the specification the runs
check; it changes nothing about the parser.

A JSON value is a pair of its kind and what it holds. `Nested` gives the values
that nest up to n deep, `Write` what is put out for each of them; both are
functions of the depth, since each `write()` calls that of the values one level
down. What is put out for a number is what `operator<<` prints of the double,
and that is not what the number was read from: it prints six significant digits,
rounded, without trailing zeros, and with an exponent where six digits do not
reach. `Printed` is that function, any function at all in the proofs; the run's
has two digits in place of six, with one number that is rounded and one that gets
an exponent.

`RoundTrip` speaks of `Plain` values: strings without a quote or the byte 0xFF,
since the writer escapes nothing (`JSON.h:137`), and numbers t for which
`Printed[t] = t`, that is, numbers whose printed form is the text the double was
computed from, with no exponent in it. Only these come back as they were for
certain. `JSON(3.14159265)` is written `3.14159` and comes back as that, and
`JSON(1000000)` as `1e+06`, of which `1` is read. Where `end_` chances to lie
inside the text the parser stops there, and `RoundTrip` says nothing either.
`NothingInvented` compares what was read with `Recite`, which spells each number
as it was read.

`OverrunNeedsOpen` says what it takes for `it_` to get past the terminator: `end_`
lies nowhere in the text, and the text has a string that is opened and never
closed, where the quotes are paired off from the left (`InString`): the quote that
opens it has an even number of quotes before it, and neither a quote nor the byte
0xFF comes behind it.

### Generator

A coroutine's body is a sequence of statements: yield a value of its own, run a
loop over the generator it was given and yield what that gives, throw. `active`
is the chain of coroutines that are running, each resumed by the one before.
`at` is where each range-for loop stands, in the caller or in a frame. A value
is a pair of its coroutine and statement, so that losing or repeating one shows.
`begin()` resumes without asking, so the caller must know that it may: `Ready`
is that contract: not finished, no other loop at it, and the same for whatever a
resume will resume unasked, which is the chain of generators that coroutines
about to begin their loop were given. Frames are owned by `Ref<Coro>`, used as
proved. Frames and loops are numbered and taken in order, since their numbers
are only names. `heard` has, for each coroutine, the values of its own that
reached the caller, through whichever relays. `Generator::to()` is a range-for
loop that pushes.

### LineTable

A program is the sequence of operations its bytes decode to, with their sizes,
since the end of the loop is decided in bytes. It is that of one unit:
`evalLineProg` reads the first unit of a `.debug_line` and stops at its end, and
so the code of every other unit in the section has no location. `reg` is the four
registers, `out` the map, a function from addresses to rows, `FindLocation` the
lookup. The registers have the widths of the code: an address is taken modulo
the word, line and column modulo 2^32 (`RegMod`), and a file number becomes an
`int32_t`, so that one may be negative, which is no file, or beyond the table,
where what is read is undefined (`Unread`).

Two operations are not what the standard has. The operand of `set_isa` is not
read with its opcode (`DWARF.h:148`; `opSize` is not used), so each byte of it is
executed as the next operation: `TakenFor` says as which. Where that operation
takes the bytes behind it for its own operand, the code reads operations that
were never written, and the model stops following it (`Astray`). The number of
`set_discriminator` is 4, and the code has 3: the operation throws like any that
is not known. The properties about locations ask that the code follows the
program (`Followed`): no operand of `set_isa` that does anything, and files of the
table; `ListedIsRead` says what the list of operations in the code promises
instead, and fails.

An operation with a LEB128 number has the groups of bits that are in the file,
and `Arg` decodes them as `Cursor` does. `Matrix` is what the program means by
the DWARF standard, from the numbers that were written and without the map, the
limit or the code's arithmetic on special opcodes, and `Located` the row whose
code an address belongs to. Because the limit is four bytes short, the last
`end_sequence` is never executed; `Finish` puts a sentinel where it would be, as
the code does. An operation of one byte before it is not executed either:
`LocatesEvery` and `NeverMisplaces` are about programs that have a longer one
there (`TailRead`), as compilers write them, and `TailUnlocated` about the rest.
Decoding of the header and the file names is abstracted to its results.

### Cursor, MachO

A cursor is a base, a size and an offset, with the arithmetic the code has:
`operator+` counts from the base, a copy begins at the offset. `Uleb` and `Sleb`
are the two rotations and shifts of the code on a word of `WordBits` bits; the
code's word is nine groups of seven bits and one bit more, and the instance's,
of seven bits, three groups of two and one more (`WidthAssumption`); `Pow2` is
a shift by so many bits. A number of ten bytes is
undefined in the code (`Fits`).

A file is a function from the positions where something is kept. `Command` is one
turn of the loop in `MachOBinary64::sections()` with the turns of the loop inside,
`Sections` the whole walk. `FileBytes` lays a list of load commands out as the
format says, to compare with: `Begins` is where each command is, `CommandBytes`
what is kept where in it.

### Resolver

State: the files on disk, the slides of the images, the trace; the names of the
binaries opened, the index of the one looked in, and `LineTable`'s state, whose
map is never emptied. `FindBinaries` opens the image's file and the one in its
`.dSYM`; `GetLocations` walks to the debugging sections and starts their line
program; `EvalLineProg` runs `LineTable`'s actions; `Lookup` looks the address
up in the map, with the slide of the main program taken off, and goes on to the
next binary if there is no location. `--it` at the first row is undefined, so
any row, or none, may come of a lookup below every row; `defined` records that
it happened. `WellPlaced` says when an answer can be right at all: every line
program is read to its end for what it is (`ReadWhole`) and ascends, no frame's
address, slid back by the slide of the main program, falls in the code of
another image, and no image has a row between the row a frame belongs to and its
address. So `LocatesOwn` does not say what becomes of a frame in a library whose
own slide puts it into somebody else's code: it is given a location there. A file
has one line program, that of the first unit of its `.debug_line`.

## The runs

| run | result | shows | bounds |
|---|---|---|---|
| `ref_core` | pass, 67,286 states | the count is exact at every step; one deleter; no dangling use; no lost object; assignments deliver; freed in the end; implements `SharedOwnership` with its liveness | three local handles, one member handle of the first of two objects |
| `ref_alias` | violation | `r = r` and `r = r->next` | two locals, one member |
| `list` | pass, 13,708 states | chains end, lists hold what was pushed, iterators miss nothing | two lists, one iterator, three nodes alive at a time, two items |
| `list_equal` | violation | a list equals a longer one | the same |
| `split` | pass, 409,175 states | strings show their text; blocks outlive them; the destructor finds a `Ref` where there is one; `split()` reads what is there, and its parts make the text | three strings, two blocks, texts of length 0 to 3 with the boundary at 2, a separator first, in the middle, last and doubled |
| `string_leak` | violation | assignment over a SHARED string leaks | texts of length 0, 7, 8, 9 with the boundary at 8 |
| `parse` | pass, 698,991 states | round trip; nothing invented; one result; no overrun but by a string that is never closed; termination | all texts `[` and `{` followed by up to five of six symbols, all of up to four of nine others, and the words broken off at each letter, going on as another and in an array; 340 values nested up to two deep, 229 of them plain; every `end_` |
| `parse_end` | violation | reading past the end is not an error | the same |
| `generator` | pass, 201,210 states | each value once and in order; loops keep their frames; nothing rethrown from `noexcept`; only suspended coroutines are resumed; a resume returns | three variables, two loops, three coroutines, three bodies: one that fails after a value, one that relays, one that yields and then relays |
| `lines` | pass, 198,515 states | numbers read as written; addresses are located in their rows, in order, out of order, cut short, and in what was read before a failure | one sequence of up to four of thirteen operations; two sequences at any of five addresses; every number of each length, columns wider than the register among them; files in the table, beyond it and negative; addresses that wrap; ten operands of `set_isa`, at least one of each kind |
| `lines_listed` | violation | a program with a discriminator is broken off | the same |
| `resolver` | pass, 624,355 states | all sections are found; a frame is located by its own image's rows, or not at all | a program and two libraries, seven layouts of their code (touching on either side, apart, overlapping, one that fills the gap of the other, missing), four sets of slides, traces of up to three frames; load commands of every kind around the sections |

Why these are enough. `Ref`: a race on a count needs two owners and a third
handle that copies; a nested destruction needs a member handle and a second
object for it to hold; a cycle is a member that holds its own object. The proofs
cover all other sizes. Lists: three nodes have a front, a back and a middle; a
node address is used again as soon as it is free. Strings: one length on each
side of the boundary, and the boundary; splitting needs one string that is
split, one that shares its block and one to overwrite either. Parser: depth two
is the least at which a return goes to a frame that is not the last, and five
symbols after the opening one hold a nested list, a comma and both closings.
Generator: three coroutines make a chain in which the middle one is both resumed
and resuming, and three variables let the caller keep each of them apart from
the chain. Lines: two sequences touch, overlap, leave a gap and come in either
order; in a word of seven bits every number is tried in every length, and with
registers of four bits most do not fit their register. Resolver: the third frame
is the first that can meet the rows of two other lookups.

`MaxRefs` in `String` bounds the owners one block may count, leaked ones
included. The other bounds are sizes of constant sets. A coroutine frame and, in
`Ref`, a block are used once. `SYMMETRY` is used where only safety is checked.
Deadlock is checked, except in `parse` and `lines`, where a run ends; in
`resolver`, `Resolved` lets a finished trace rest, and only that.

Fairness. `Ref`: weak fairness on the steps of each call, for a call that has
begun waits for no other, and its thread keeps being scheduled; no fairness on
beginning calls. `JSONParse`: a single sequential call keeps running.
`Generator`: a coroutine that was resumed runs on; the caller need not do
anything. It is stated once for all coroutines, since only the innermost one can
step. `LinkedList`, `String`, `Split`, `LineTable` and `Resolver` claim no
liveness.

## What is proved

Every safety property that a passing run checks, but for `TailUnlocated`, is a
theorem for every value of the constants.

| module | holds for | assumed of the constants |
|---|---|---|
| `RefProofs` | every finite set of handles, any blocks, any members | `NoBlock` is no block, `Home` is a function, the count's modulus is above the number of handles (for 2^64, no program has as many) |
| `StringProofs` | every finite set of strings, any blocks, any texts | texts have lengths, and one only has length 0; for `Split`, texts are sequences |
| `ListProofs` | any lists, iterators, nodes and items | `Null` is none of them |
| `JSONProofs` | texts of any length and depth, values of any width and depth, `end_` anywhere in the text or nowhere | texts are sequences of symbols; values are words, numbers, strings, arrays and objects that nest up to `Deepest`; `Printed` puts out symbols (`PrintedAssumption`) |
| `GeneratorProofs` | any variables, loops and coroutines | their names differ; a body loops over its generator at most once, since a second `begin()` would resume what is done (`BodiesAssumption`) |
| `LineProofs` | any widths, headers and programs | the header's divisor is not 0, a register's width divides the word's and there are no more files than it counts (`HeaderAssumption`); numbers fit their word; a program ends with its last sequence and has special opcodes that exist, and operands of `set_isa` behind it (`ProgramsAssumption`) |
| `ResolverProofs` | any files, slides and traces | load commands are as long as what is read of them (`WellFormed`), line programs are those of `LineTable`, addresses are the machine's |

TLC evaluates these assumptions on each run.

| theorem | property |
|---|---|
| in `RefProofs`: | |
| `TypeCorrect` | `TypeOK` |
| `Invariance` | the inductive invariant `IInv` |
| `CountIsExact` | `ExactCount` |
| `DeletedOnce` | `SingleDeleter` |
| `NothingLost` | `NoLostObject` |
| `HandlesAlive` | `HeldAlive` |
| `NoUseAfterFree` | `NoDanglingUse` |
| `AssignmentDelivers` | `AssignDelivers` |
| `Refinement` | `SafeSpec => Shared!SafeSpec` |
| in `StringProofs`: | |
| `Invariant` | the inductive invariant `IInv` |
| `TypeCorrect` | `TypeOK` |
| `TextShown` | `ShowsText` |
| `BlocksOutlive` | `BlockOutlivesStrings` |
| `DestroysRight` | `DestroysWhatItHolds` |
| `SplitIsString` | `SplitSpec => Spec` |
| `ReadsOnlyLive` | `ReadsLive` |
| `PartsAreTheText` | `PartsMakeText` |
| in `ListProofs`: | |
| `TypeCorrect` | `TypeOK` |
| `NeverARing` | `Acyclic` |
| `ListsHoldPushed` | `HoldsPushed` |
| `LoopsSkipNothing` | `IteratesAll` |
| in `JSONProofs`: | |
| `Invariant` | the inductive invariant `IInv` |
| `TypeCorrect` | `TypeOK` |
| `ReturnsOne` | `OneResult` |
| `OverrunsOnlyOpen` | `OverrunNeedsOpen` |
| `MadeOfText` | `NothingInvented` |
| `ReadBack` | `RoundTrip` |
| in `GeneratorProofs`: | |
| `Invariant` | the inductive invariant `IInv` |
| `TypeCorrect` | `TypeOK` |
| `ResumesOnlySuspended` | `ResumesSuspended` |
| `FramesKept` | `LoopsKeepFrames` |
| `NeverRethrown` | `NothingRethrown` |
| `ValuesDelivered` | `DeliveredOnce` |
| in `LineProofs`: | |
| `Invariant` | the inductive invariant `IInv` |
| `TypeCorrect` | `TypeOK` |
| `NumbersRead` | `OperandRead` |
| `LocatesAll` | `LocatesEvery` |
| `MisplacesNone` | `NeverMisplaces` |
| `PartLocated` | `PartLocates` |
| in `ResolverProofs`: | |
| `ResolverTypeCorrect` | `ResolverTypeOK` |
| `SectionsAllFound` | `SectionsFound` |
| `LocatesItsOwn` | `LocatesOwn` |

The argument for `Ref`. `ExactCount` alone is not inductive: to know that a
decrement to 0 leaves no owner one must know, of every half-finished call,
whether its handle still counts; that a copy's source keeps its block between
the read and the increment; and that a member handle is not touched after its
object. `IInv` adds just that: which steps a call may be at with which function
and rhs, that a rhs in use and the handles on the way to members hold still and
own what they hold, that a block in the hands of a deleter has no other owner
and no other deleter, and that members are at rest unless their object lives or
is being destroyed by a call that waits for them. The main lemmas are about
counting: removing or adding one handle changes the cardinality of the holders
by one (`FiniteSetTheorems`), and every other step leaves the holders of every
block as they were. The invariance proof goes action by action, and the rest
follows from `IInv`; the refinement maps the increment to `Share`, the decrement
to `Release`, `MoveTake` to `Transfer`, `MakeObject` to `Create`, the entry of
the deleter to `Destroy`, and everything else to a stutter.

For `String`, the properties are inductive only together. That a new block has
no holders, so that writing its characters changes no string's text, follows
from its count of 0 and `BlockOutlivesStrings`; that a decrement stays within
the type, from the same; that copies count where they should, from
`DestroysWhatItHolds`. One lemma for each of the four ways to fill or release a
string counts holders before and after, and the actions follow from those.
`ReadsLive` adds what the coroutine stands on (`Footing`): the string exists
until the first resume, and afterwards as many characters as it was promised
are at the address it keeps. That holds through a step of `String` because no
allocated block is written again (`CharsStay`), and for that a holder is needed.
For `PartsMakeText` the invariant says that the parts so far, with a separator
behind each, are the text up to where the next part begins, and that no
separator lies between there and where the coroutine reads.

For `LinkedList`, `Acyclic` needs to know that a new node is not reached from
where it points: the invariant adds that a node nobody owns points nowhere.
`Reached` is a least closed set, so each step shows a set that is closed after it
and leaves the node out. `HoldsPushed` and `IteratesAll` speak of what is read
along a chain, however long. `HInv` adds that each node has a rank, one more than
its successor's; that `back_` is the one node of its list without a successor;
that lists without shared nodes do not meet; and that an iterator's node is on
its list's chain, with what was met behind it.

For `JSONParse`, two facts make the properties inductive. `InText`: `it_` is never
beyond `end_`, nor beyond the terminator. A step over a character the parser
knows keeps it, since that character is neither at `end_` nor the NUL
(`StepOver`), and so does skipping, which stops at the first character of another
kind (`PastInText`). For `OverrunNeedsOpen` the quotes have to be counted as well:
`Paired` says that wherever a call stands, the quotes before it are paired off,
so that a quote it meets there opens a string. Every step but that over a whole
string passes characters that are no quotes (`StepsUnquoted`), and that one passes
two. `Collected`: below nested calls, and until the first value is
in, the vector of the outermost `parse()` is empty. That a comma alone pushes
nothing and yet returns would break `OneResult`; it is `depth` that refuses it at
the top (`ParseComma`), and in an array it is passed over. These hold of `Spec` and
of `TripSpec`, whose steps are the same.

`NothingInvented` and `RoundTrip` look at the same calls from two sides. Each call
under way has read part of the text and expects the rest of its value.

For `NothingInvented` the invariant keeps an account of what was read
(`ReadSoFar`). Between the place where a call began and the place where the next
one began, or where the parser stands, lies exactly what `Recite` makes
of what it holds so far, up to spaces and commas (`Account`). A step adds one
character or one finished value to the innermost call, and a return adds the
value of the call to that of its caller: what the callee has read, and what the
caller had, are then one stretch of the text. That the essence of two texts put
together is that of each put together (`EssenceConcat`) is proved by a shortest
counterexample, since the prover has no induction. That a value is in the
range of `Recite` at all needs a bound on its depth: it nests no deeper than the
characters that were read for it (`AllTyped`).

For `RoundTrip` the invariant looks ahead (`OnWay`). Beginning from the value
that was written, each call under way waits for one value and knows which items
come behind it (`Waits`); the chain of them is `Pending`, from the outermost
call, which waits for the whole value, to the innermost. What is left of the
text is then what is still expected: the innermost value, what ends it, and so
on outwards. One lemma for each kind of value says that `parse()` recognizes it
by its first character and reads all of it, and no more: the first letters of
the words differ (`FirstLetters`), so that where a word is written no other can
be expected; a number ends where no digit or dot follows, which is why what
comes behind any value begins with a comma, a closing bracket or nothing
(`Stops`), and a string ends at the first quote, which is why it may hold none.
`SkipSpace` skips nothing there, because the writer puts out no space outside
strings.

For `Generator`, nothing is inductive by itself. A coroutine that is about to
begin its loop resumes what it was given without asking, so the invariant says
that the whole chain it may come to resume is suspended and that nobody else
loops over any of it: the caller that began the outermost loop saw to that, and
`Ready` keeps later loops away. Chains are least closed sets here too, and end
because a parameter is older than its coroutine. For `DeliveredOnce`, each value
that was yielded and not yet heard is under way in one loop, as the last that its
coroutine yielded. The attempt at the proof changed the model: `Ready` used to
ask about one generator behind another, where a relay of relays needs the chain;
TLC then showed the counterexample with two relays and three variables.

For `LineTable`, three arguments. Numbers: after k groups the word holds the
lowest k groups of the number in its highest bits (`Partial`), and the shift down
by the bits that were not used leaves the number, modulo the word. Registers: a
special opcode has one decomposition into a line and an address advance
(`MovesIs`), so that the registers are those the standard gives, at their width,
as long as each operation is taken for what it is (`Followed`, which the invariant
has as a premise). The map:
it keeps, for each address, the newest row emitted there (`Keeps`); a lookup
therefore finds the newest of the nearest rows below (`Nearest`), which is the
row that covers the address, or the end of a sequence.

For `Resolver`, `SectionsFound` follows from where things are laid out: commands
begin where the sizes before them add up to, nothing is kept at one position
twice, and by induction over the commands the walk stands at the beginning of
each with the sections before it found. `LocatesOwn` is about a map into which
the rows of all files come, each overwriting others. The invariant says of each
row there whose it is (`Traced`), that the file last read has its rows as it
means them (`Loaded`), and that the frame's own file is still to come or has
nothing (`Pending`). The row nearest below an address is then one of its image,
for no other image has one in between. That last clause of `WellPlaced` was
missing until the proof asked for it: an image that lies between two rows of
another takes the code behind it from the first of them.

Only model-checked: `EventuallyFreed`, the fairness part of `Implements`,
`ResumeReturns` and `Terminates`, since liveness and ENABLED are out of the
prover's reach; and `TailUnlocated`, about programs that no compiler writes.

## What was found

Each is a run that expects a violation, with the line it contradicts in
`PROJECT.json`: `Ref` assignment is not safe against aliasing though the type is
asserted semiregular; lists of different sizes compare equal; assignment leaks
the block of a SHARED string; the parser never knows where the text ends; a line
program with a discriminator, which the code lists as an operation to ignore, is
not read to its end, as `DW_LNE_set_discriminator` is 4 and not 3.

Not judged by a property, for no line of the repository says otherwise, but
modelled or listed under the hazards: `make` leaks its block when the object's
constructor throws; the operand of `set_isa` is executed as an operation, and
may misplace whatever comes behind it; only the first unit of a `.debug_line` is
read; the line program's limit is four bytes short, so that an operation of one
byte just before the last `end_sequence` is lost; when a line program is broken
off, addresses behind its last row are located in that row; the end of a
sequence may hide the start of one read earlier; a lookup below every row steps
back from the first row; every address is slid by the slide of the main program,
so a library that is slid otherwise has no locations, or another's; the `.dSYM`
of a program named without a '/' is looked for under its name less a letter; a
coroutine's exception ends a loop silently; a constant `String("")` is taken for
a small string; `[,]` parses and `[1 ]` does not, and what follows the first
value is not looked at; a number is written with six digits, so that most come
back as another, and those with an exponent as an error or as what stands before
the `e`; a LEB128 number of ten bytes shifts by a negative amount.

## Not modelled

- The comparisons of `String` and of JSON values: pure functions of two values,
  which a table of examples tests as well. By reading: `operator==` of `String`
  stops at the end of the shorter text, so that a string equals its extensions,
  and `operator<` goes on behind a greater character, so that "ab" and "ba" are
  each less than the other; `String.h:168` asserts `std::regular<String>`.
- The arithmetic of JSON numbers in both directions: `Num(t)` and `Printed` name
  its results. The line and column of a parse error.
- The operations that a line program is taken for once the code has lost its
  place in it (`Astray`), and the units behind the first.
- The header of a line program, the file table and the names: fixed layouts
  read in order.
- The rest of `Cursor`: integers put together from bytes, C strings, and the
  expectations that throw, which no caller catches on the way.
- `Expected`: a tag set by the constructor and tested by the accessors.
- `Exception` and the terminate handler: formatting, and three calls in a row
  without a branch that returns. `dump()` resolves a trace, as in `Resolver`.
- `File`: `open`, `mmap`, `close`. `Frame`, `Trace` but for `resolve()`: printing.
- The walk over the machine's stack frames in `StackTrace()`: it reads memory
  that the compiler lays out.
- The test runner, the concepts and the build files.
