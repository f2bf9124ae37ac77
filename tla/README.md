# Fudge-C in TLA+

Fudge-C is a C library for the Fudge messaging format: reference counted
messages made of named and typed fields, strings, envelopes, and a codec to and
from bytes.  These modules specify the parts of it where the order of things
matters, check them with TLC on small instances, and prove the most important
ones with TLAPS.  Line numbers are those of `src/src/` (the implementation) and
`src/include/fudge/` (the documented interface).

## The system

| Component | State it keeps | Operations | Used by |
|---|---|---|---|
| Reference counts (`reference_*.c`, `atomic.h`) | a counter; in the pthreads build a mutex next to it | create, increment, decrementAndReturn, destroy | messages, strings, envelopes, string pools |
| Messages and fields (`message.c`) | count, field vector (top, capacity), cached encoded width | create, retain, release, 25 addField functions, getters, setWidth/getWidth | client, encoder, decoder |
| Envelopes (`envelope.c`) | count, three header values, one message | create, retain, release, getters | client, encoder, decoder |
| Strings (`string.c`) | count, immutable UTF-8 bytes; one pointer per static string | create from ASCII/UTF-8/16/32, retain, release, compare, copy out, `fromStatic` | field names and string payloads, pools |
| UTF conversion (`convertutf.c`) | none | six converters, a test of legal sequences | strings |
| String pools (`stringpool.c`) | count, list of strings it owns | acquire, create and acquire, clear, retain, release | client |
| Encoder (`codec_encode.c`, `header.c`, `prefix.c`) | one call: output buffer and write position; fills the width caches | encodeMsg | client |
| Decoder (`codec_decode.c`, `header.c`, `prefix.c`) | one call: a recursion of half-built messages | decodeMsg | client |
| Type registry (`registry.c`, `types.c`) | a table of type descriptors | init, registerType, getTypeDesc | messages, codec |
| Coercion (`coerce.c`, `message_ex.c`) | none | numeric conversions, addFieldIntegers with downcast | client, message getters |
| Dates and times (`datetime.c`) | none | validation, construction, comparison | messages, codec |
| Initialisation, memory manager (`fudge.c`, `memory.c`) | an initialised flag, function pointers | Fudge_init | everything |

Components interact by plain calls on the caller's thread.  There are no
library threads and no callbacks but the type codecs and the memory manager.
What is shared is the heap: a message may be a field of many messages, a string
the name of many fields, and each of them may also be held by the client.
Reference counts alone say when one goes.  In the multi-threaded builds the
counters are safe to use from any thread; everything else in an object belongs
to one thread at a time (`message.h:33-38`).  Strings never change, so that many
threads may hold one, and a static string is made by whichever of them comes
first.  This is why there are threads in the two RefCount modules and in
`StringUse` and in no other.

What is hard here:

* **Two threads releasing at once.**  The decrement, the test of its result and
  the destruction are separate steps; in the pthreads build the last release
  also destroys the mutex others have only just unlocked.
* **Recursive destruction** through a graph of shared submessages, strings and
  envelopes, of which each object knows only its own count.
* **Additions and decodings that fail half way.**  Several functions on the
  stack each undo what they did, and must not undo what another already has.
* **A cache that is trusted for an allocation.**  The encoder allocates by the
  width cached in a message, which nobody resets when a submessage changes.
* **Lengths of lengths**, at 256 and 32768, and bytes that are sometimes signed.
* **A pointer that several threads see null.**  Each makes a string for it and
  one of them must not stay, while a caller may already have it.
* **Three loops over the same string**, each with its own end, its own treatment
  of byte-order markers and of what is incomplete; and lengths in bytes that are
  sometimes in units.
* **Times that are compared in another zone than the one they are kept in**,
  unsigned, and possibly on the day before.
* **Arrays whose size in bytes is not a number of elements**, measured by the one and
  written by the other.
* **Coercions that depend on how a sender happened to keep an integer.**

Correct means: an object lives as long as somebody has a reference to it and
goes, once, when nobody has; an addition or a decoding that fails leaves
everything as it was; an encoding that succeeds has filled exactly the buffer it allocated and
every length in it is right; what is decoded is what was encoded, and what a client made it from; and
retains, releases, additions and encodings return.

## The modules

| Module | What it is |
|---|---|
| `RefTokens` | identities for outstanding references, shared by the next three |
| `SharedObject` | abstract: what any reference counted object promises, with no counter in it |
| `RefCountAtomic` | retain and release by any number of threads, built on compiler atomics |
| `RefCountPthreads` | the same built on a mutex, with the counter's read and write apart |
| `RefCountAtomicProofs`, `RefCountPthreadsProofs` | theorems about both |
| `ObjectHeap` | pointers, counts and recursive destruction in the whole heap; no `Next` of its own |
| `FudgeMsg` | EXTENDS `ObjectHeap`: the client's calls, and the addField functions step by step |
| `ObjectHeapProofs`, `FudgeMsgProofs` | what the heap's operations keep true; theorems about `FudgeMsg` |
| `MsgDecoder` | EXTENDS `ObjectHeap`: who owns what while a message is decoded |
| `MsgDecoderProofs` | theorems about `MsgDecoder` |
| `MsgEncoder` | measuring, caching, allocating and writing, by sizes |
| `MsgEncoderProofs` | theorems about `MsgEncoder` |
| `FieldSizes` | how many bytes a field takes, for the two modules that count them |
| `FieldCodes` | integers, prefixes, lengths, dates and times as bytes, and back |
| `WireFormat` | EXTENDS `FudgeStrings`, `Registry`: whole messages as bytes, and back |
| `Results` | statuses, output arguments and pointers that may be null |
| `Unicode` | the converters of `convertutf.c` |
| `FudgeStrings` | EXTENDS `Unicode`: making, reading and comparing strings, and what a string stands for |
| `DateTimes` | EXTENDS `FieldCodes`: validation, rounding, time zones, comparison |
| `Registry` | EXTENDS `FieldCodes`: the table of types, and registering in it |
| `Coercion` | EXTENDS `Registry`: reading a number as another type |
| `Values` | EXTENDS `WireFormat`, `DateTimes`, `Coercion`: a client that makes values, sends them and reads what arrives |
| `StringUse` | who holds which string: clients, pools, static strings, threads |
| `Library` | EXTENDS `StringUse`, `Registry`: the same in a program that initialises the library and registers types |
| `StringProofs` | theorems about `StringUse` and `Library`, and about what is in a string: `Unicode` and `FudgeStrings` |
| `ValueProofs` | EXTENDS `StringProofs`: theorems about `FieldCodes`, `DateTimes`, `WireFormat` and `Values` |
| `MCMsgEncoder`, `MCMsgDecoder`, `MCWireFormat`, `MCValues`, `MCLibrary` | values of constants a `.cfg` cannot write; symmetry |

Names ending in `_Something` next to a definition (`Retain_NotCounted`,
`NeedsGrow_Late`) are plausible mistakes in it.  They are not part of any
specification; each of them breaks a property that a run checks.

### RefCountAtomic and RefCountPthreads

The code stores a number; `owner` is a ghost that says which thread will have
to release each reference, so that the number has a meaning to be compared to.
In the atomic build `FudgeRefCount_increment` and `decrementAndReturn` are one
step each (`Retain`, `Decrement`), the test of the returned value is another
(`Check`), and so are `FudgeRefCount_destroy` and the free of the object.  In
the pthreads build a call locks (`Lock`), reads (`Load`), writes (`Store`) and
unlocks (`Unlock`); destroying the mutex while somebody holds it is the failure
`MutexOutlivesUsers` excludes.  The only rule for the client is that a thread
calls retain or release only on a reference it owns; it may hand references to
other threads.  `SharedObject` has no counter: an object is live while it is
referenced, and is reclaimed afterwards.  Both modules implement it, with
`object <- objMem` as the refinement mapping.

`reference_default.c`, the single-threaded build, is `++` and `--` on an int:
`ObjectHeap` uses its counts that way.

### ObjectHeap and FudgeMsg

`ptr` maps every place that can hold a pointer to what it points at: variables
of the client, the data and name of each field, the message of an envelope,
and the local variables of the library call in progress.  `count` is what the
code sees of that.  `raw` are the fields whose data `FudgeField_destroy` hands
to `free` instead of releasing it.  `stack` is the recursion of destructors:
`DestroyNextField` gives up one pointer of the innermost object, which may push
another, and `FreeObject` returns from one.

`FudgeMsg` adds the client.  An addition is several steps: `AddCounted`,
`AddOpaque`, `AddPrimitive` and `AddData` are the beginnings of the public
functions, by what they do with their payload (retain it, copy it, keep it in
the field, take it from the client).  `CheckName` is the check and the retain of
the name in `FudgeMsg_addFieldData`; `AppendField` and `AppendFails` are
`FieldVector_append`; `DestroyField` and the `Undo` actions are the two layers
of clean-up, each with its own idea of what there is to undo.

### MsgEncoder

A field is its sizes: bytes of data, bytes of an element, bytes of name, ordinal or not, and the
width of its type if that is fixed.  Measuring and announcing count the bytes of data; writing
counts whole elements (`WholeElements`), as the array encoders do (`codec_encode.c:230-241`), so
an array that ends in part of an element is announced longer than it is.  `MessageLength` reads the caches exactly as
`FudgeCodec_getMessageLength` does, and `Measured` fills them.  `EncodedLength`
is the definition to compare with: it looks at the fields only.  Writing keeps a
stack of the messages being written; each submessage remembers where it started
and what length was announced in front of it.  `room` is the allocation, and
nothing in the code stops a write beyond it.

### MsgDecoder

The bytes are abstracted to a choice at each step: another field, the end, or
something that does not decode.  A frame is one `FudgeCodec_decodeMsgFields`;
its locals `data` and `name` are places in the heap.  That a decoded header has
a name is the flag `named`.  After the second release in `FudgeCodec_decodeMsg`
the result is `"undefined"` and the model stops.  The array types share one
action with strings and values held in the field: they differ in who owns what
and in nothing else that matters here.

### FieldCodes and WireFormat

A byte is a number from 0 to 255, and becomes a signed one where the code reads
it through a `fudge_byte`.  Shifts and masks are division and remainder, so the
32-bit values are the code's own.  `FieldCodes` has the codes of single values,
`WireFormat` whole messages.  Its state is the envelope, the message the client is building
(`message`) and the messages that have been put into others so far (`inner`): `Enclose`
makes the current message the only field of a new one, `AddMessage` adds one of `inner`
again, both as `FudgeMsg_addFieldMsg` does.  A message is encoded by a function on the
messages there are (`MessageLength`, `EncodeMsgFields`) and decoded by one on sequences of bytes
(`DecodeMsgFields`), each recursive as the code is.  `DataOf` gives the data a
field of each type can have.  Encoder and decoder
are the operators `EncodeMsg` and `DecodeMsg`, with the encoders and decoders the
registry gives each type in `EncodeValue` and `DecodeValue`, and the tests of
`header.c` and `codec_decode.c` in the order of the code.  Two of those tests let
through an index that is one too high: the result is then `"MALFORMED"`, which
stands for anything, and no encoded message or part of one gets there.
`FudgeMsg_addFieldI32` keeps a value in the smallest type that holds it, as
`PickIntegerType` does.

`WireFormat` takes its strings from `FudgeStrings` and its types from `Registry`,
as the decoder does.

### Unicode and FudgeStrings

A text is a sequence of unsigned code units.  `Convert` is the loop the six
converters share; `TakeTurn` is what each of them does in one turn of it, with its
tests in their order and the room left in the target.  `string.c` only ever asks
for the lenient conversion, so the strict branches are not here; nor is the
position in the source at which a conversion stopped, which no caller looks at.
The second byte behind 0xED and 0xF4 has no lower bound in
`isLegalUTF8` (`convertutf.c:308,310`), and `isLegalUTF8Sequence` looks at one
sequence only; both are as in the code.

`FudgeStrings` has the functions of `string.c` under their names.  `GetLength`,
`ConvertToASCIIZ`, `CopyToASCII` and `CompareBytes` are the four loops, each with
its own idea of the end, which is why they are four definitions.  A copy into a
buffer of bytes writes whole units as long as one byte is left.

### DateTimes, Registry and Coercion

These have no state.  `Rem` is the remainder of C, which keeps the sign of years
before 0.  `AdjustedSeconds` is unsigned where the code is: an offset that leads
back more than a day wraps around, and `UnsignedSign` compares it so.
`RegisterType` returns the table as it will be.  In `CoercesTo` are the cases of
the seven coercers of `coerce.c`.  Floating point is an integer times a power of
two, which is enough for floats made from integers of 32 bits; larger integers and
fractions are not in the model.

### Values

What a client does around the codec.  `MakeValue` makes one value from arguments the
run enumerates: a string from characters or from bytes, two strings to compare,
a date and time at a precision and in a zone, two times to compare.  `Send` adds
what was made to the message of `WireFormat`, which then goes through
encoder and decoder with the fields `WireFormat` adds itself.  `GetFieldByName`
and the other getters read the decoded message.

### StringUse and Library

`ptr` says what every holder of a reference points at: the clients' variables, the
nodes of the pools, the static strings, and the local variable of each thread
inside the library.  `FudgeString_fromStatic` is one action per access to what
threads share: `FromStatic` (the first look, `string.c:534`), `CreateStatic`,
`Exchange`, `ReleaseOld` and `Return` (the second look, `string.c:547`).  `build`
is `"pthreads"` where `AtomicExchangePointer` is the plain store of `atomic.h:35`
that returns 0.  A failed allocation in there is an assertion, with which the
program is over, so it has no action.  A pool is cleared node by node
(`ClearNode`), and while it is nobody else uses it, which is the rule for every
object that is not a string.  `CreatePooled` and `AcquireFails` are
`createStringFromASCII` when there is memory for the string and none for its node;
an `acquire` that fails by itself changes nothing and has no action.  The
order of the nodes makes no difference to who holds what, so `Contents` is a set.
A client retains a string that it knows somebody holds (`Known`): one in a
variable, in a pool that is there and not being cleared, or one that
`fromStatic` returned to a thread when no first use was in progress.

`Library` puts `Fudge_init` before all that, as often as the program likes, with a
manager of its own or the default one, and `FudgeRegistry_registerType` before and
after.  Registration before the initialisation is overwritten by it.

## What the runs show

| Run | Bounds | Distinct states | Shows |
|---|---|---|---|
| `refcount_atomic` | 3 threads, 4 references | 81,713 | type, exact count, memory pinned by references, one destroyer, implements `SharedObject` (reclaiming included) |
| `refcount_pthreads` | 3 threads, 4 references | 116,147 | type, no lost update, mutex outlives its users, implements `SharedObject` |
| `messages` | 2 messages, 2 strings (one too long for a name), a block, an envelope, 2 client variables, 2 fields | 546,782 | counts exact, nothing dangles, destroyed once, no leak, vector has room, fields keep their contents, calls return |
| `encode` | 3 messages of up to 2 fields, any sharing, 4 leaves, one an array of 16-bit integers with 3 bytes | 1,622,761 | cached widths exact, writes fit, announced lengths exact but where an array ends in part of an element, the final check fails for those messages and no others, encoding returns |
| `decode` | 3 messages nested or side by side, 2 strings, a block, 2 fields | 107,728 | counts exact, nothing dangles, one reference each, a failure leaves nothing |
| `wire` (`MCValues`) | messages: 2 fields at each of 2 levels, 11 fields of different types, 4 integers, 3 names, 1 envelope; texts of up to 3 characters from 12, byte strings of up to 7 from 14 bytes, strings of up to 3 chunks to compare, 11 precisions, 90 times to compare in pairs | 74,163 | what is written is bytes, every message is decoded to itself, the measured length is exact, truncations are reported as such; texts are kept, the loops over a string agree, strings and dates are ordered, times by their seconds with the offset added, rounding composes, numbers are read back as whatever can hold them |
| `library` | 3 threads, 3 strings, a static one, a pool of up to 2 nodes, a variable, 2 managers, 2 types; symmetric | 251,964 | every reference is counted and every string goes with its last, borrowed strings stay, later initialisations change nothing |
| `add_without_memory` | as `messages` | violation | finding 1 |
| `user_submessage_type` | as `messages` | violation | finding 2 |
| `encode_after_edit` | as `encode` | violation | finding 3 |
| `decode_fails` | as `decode` | violation | finding 4 |
| `wire_long_names` | as `wire`, with a name of 128 bytes | violation | finding 5 |

Why the bounds are enough.  A race over the counter is between two releases,
with a third thread retaining or receiving; four references let two threads
have more than one.  Two fields make a message that has the same submessage or
the same name twice, that shares one with the client or an envelope, and,
starting from a capacity of 1 instead of 16, a vector that grows.  Leaves of
250 and 1 byte put a submessage at exactly 256 bytes, where its length takes a
second byte and so changes all the lengths around it; the array of 3 bytes is as incomplete as
one can be, and may be in the outermost message or two levels down; three messages make
chains, diamonds and duplicates.  The step from 2 to 4 bytes at 32768 is the
same comparison.  In the decoder three messages make a failure two calls deep.
In the byte-level run a string of 120 bytes and a block of 130 lie on both sides
of the largest signed byte, and submessages with them on both sides of 256; the
integers are the least byte, the first past the greatest byte, the first below the
least short and the least of all, so that each width a value is narrowed to occurs;
dates and times have the ends of their ranges.  Lengths from 32768 on, which take four
bytes, are left to the theorems, which hold for every length below 2^31.  The characters and bytes of the
texts lie on both sides of every constant the converters compare with; three
bytes are enough for every short sequence and what follows it, and four-byte
sequences are there whole.  The offsets of the times are those at which the
adjustment changes sign, leads to the day before, or further.

In `library` two threads can race for the static string while a third uses what
one of them has borrowed, and the pool and a variable can each hold it as
well; the third string lets the static one be made twice beside another.
A second static, pool or variable repeats the first, as a thread is in one
call at a time; for any number of them there are the theorems.
Exchanging strings, threads, nodes or managers changes nothing the module tells
apart, and its properties are safety properties, so the symmetry is sound.

Addresses are not used again after they are freed, so that using one again is
visible; a client that has used all of them stops, which is why those runs do
not check for deadlock.

What a passing run leaves out, the violation run next to it shows: `messages`
lets only those additions find no memory whose clean-up is right, and has no
user type for submessages; `encode` has a client that does not add to a message
once another that contains it has been encoded; `wire` has names below 128 bytes, and sends
only dates the encoding has room for and strings the decoder accepts (`DataOf`);
`decode` lets a name fail to be
made only where the field holds its value itself, as `codec_decode.c:57` leaks a
string, a block or a submessage otherwise (`FailureLeavesNothing` is violated
with `"object_name"` in `FailsIn`).  `BorrowedLive` leaves out one case, named below.  Cycles of messages are left out
everywhere: the code does not refuse them, cannot free them and never finishes
encoding them.

**Fairness.**  Stated in `RefCountAtomic`, `RefCountPthreads`, `FudgeMsg` and
`MsgEncoder`: weak fairness on the steps of calls in progress, and on nothing
the client starts: a thread inside a library call is scheduled, and the library
never waits for anything but the counter's mutex, whose holder is itself such a
thread.  A thread waiting for a contended mutex may starve under this fairness.
That does no harm to `SharedObjectSpec`, whose fairness is about reclaiming only:
when no reference is left nobody else contends.  That a decoding comes to an end is not
among the properties: it does because each field takes bytes away, and `MsgDecoder` has no bytes.

## Findings

1. **An addition for which the field vector has no memory is undone twice.**
   `FudgeMsg_addFieldData` destroys the field (`message.c:203`), payload
   included; `addFieldMsg` (343), `addFieldString` (413) and `addFieldOpaque`
   (372) then give the payload back again.
2. **A user type with a submessage payload is freed as bytes.**  The registry
   accepts it (`registry.h:50`), `FudgeField_destroy` (`message.c:61`) does not
   know it.
3. **A width cached in a parent outlives a change of its submessage.**
   `codec_encode.c:96` trusts it, the allocation is made by it, and more than
   that is written.
4. **A decoding that fails in its outermost message releases it twice.**
   `release_envelope_and_fail` falls through to `release_message_and_fail`
   (`codec_decode.c:339-343`), although the line under "Envelope now has a
   message reference" gave that reference up.
5. **A name of 128 bytes or more cannot be decoded.**  `message.c:177` allows up
   to 255, and the encoder writes them; `header.c:72` reads the length into a
   signed byte.

More disagreements, met while modelling.  The models do what the code does here,
and where the properties of the passing runs would be affected they
say so in their statements:

* `types.h:102` allows years up to 8388607; `DateYearLost` proves that none from
  4194304 on survives its encoding.
* A string that `FudgeString_fromStatic` returns is meant to stay
  (`string.h:47-49` has the count of releases).  Where two threads use it for the
  first time together and a third comes in between, the third may get the string
  that `string.c:540-544` then releases.  `BorrowedLive` without its `early` is
  violated by that: the first thread publishes its string, the third borrows it,
  the second exchanges it for its own and releases it.  The theorem
  `BorrowedStayLive` says that it takes a first use in progress at the moment
  the string is borrowed.  In the pthreads build a static made twice is
  lost, which leaks and nothing else.
* `string.h:38-40`: "byte-order markers are skipped" in comparisons.
  `FudgeString_compare` tests for the end before it skips (`string.c:505`), so a
  marker at the very end counts; `CompareIsOrder` says exactly when.
* `string.h:28-29`: a string is "always stored as (non-modified) UTF8".
  `FudgeString_createFromUTF8` looks at the first sequence only (`string.c:123`),
  and half of a pair in UTF-16 or UTF-32 becomes three bytes that cannot be
  converted back (`HalfPairRefused`) nor, at the beginning of a string, decoded.
* `FudgeString_copyToUTF16` and `copyToUTF32` with a buffer that does not
  hold a whole number of units write the last one partly outside
  (`string.c:442,458`).
* `message_ex.h:28-31` promises `FUDGE_INVALID_TYPE_COERCION`; for a field of a type
  nobody has registered `message_ex.c:32` calls a null pointer, where
  `FudgeMsg_getFieldAs` (line 65) looks first.
* `types.h:127-130` defines `timezoneOffset` as the offset from UTC, 4 for UTC+1H, so that
  9:00 at offset 48 is 21:00 of the day before in UTC, and one would subtract it to compare.
  `FudgeTime_compare` adds it (`datetime.c:234-251`): to it, this is 21:00 of the same day,
  and `tests/test_datetime.c:104-123` expects that, where `datetime.h:76-77` says only that it
  "adjusts".  Either the header is wrong, or the code and its tests are.  `WithOffset` is the sum and
  `TimesOrdered` says what is ordered by it; neither says that this is the order of time.
* In `FudgeTime_compare` an offset of more than a day back wraps around;
  `TimesOrdered` and `ComparesWithOffset` exclude it.
* `datetime.h:38`: values are "rounded to their nearest precision".  `datetime.c` cuts
  them off, years before 0 towards 0.  `RoundedToPrecision` holds of what it does and does not
  decide which was meant.
* An array that ends in part of an element can be added (`FudgeMsg_addFieldOpaque`) and
  decoded (`codec_decode.c:29,67` keep the width as `numbytes`), and then cannot be
  encoded again: `FUDGE_OUT_OF_BYTES`.  No document mentions such arrays, so this is a
  case of `AllBytesWritten` rather than a finding.

## What is proved

**Codes.**  `ValueProofs` has the round trips of 16- and 32-bit integers, of
the prefix byte, of lengths (with the number of bytes the prefix announces), of
dates and of times, for every value; none has an assumption beyond the ranges
its statement names.  All rest on two facts: taking off the last byte of an
integer leaves its quotient by 256, and the byte on top carries the sign; dates
and times are then sums of parts that do not overlap.  What the statements
exclude is what the format cannot carry: years outside 23 bits, the offset -128
and 2^30 nanoseconds, although the initialise functions accept them.

**Conversions.**  In `StringProofs`: one turn of the converter from UTF-8
undoes one turn of the converter to it, for every character that is not half of a
pair (`UTF8RoundTrip`); half of a pair is written and then refused
(`HalfPairRefused`); UTF-16 is undone for every character
(`UTF16RoundTrip`).  These statements are about single turns of the loops.
The proof has a lemma for each length, all of them on `SixBits`: taking six bits
off and putting them back.

**Whole strings.**  Also in `StringProofs`: what the loops do with strings of any length.  From
that `ValueProofs` has three theorems of the client of `Values`, from `ValuesAssumption`.

* `PairsInOrder`: `FudgeString_compare` is an order of texts, decided by trailing markers
  where the texts are the same.  `ComparedStepByStep` goes through two strings chunk by chunk.  The
  assumption about the chunks (`Unmarked`) makes the markers of a string the chunks that are
  markers, and no others.  Every string of whole characters can be cut that way, one chunk to a
  character; what it leaves out is a part of a marker before a marker or at the end.
* `TextsKept`: any text of characters is legal UTF-8 and comes back from it, through every
  converter and into a buffer of any size.  A text in an encoding is cut into the pieces of its
  characters (`Pieces`).  `PiecesConvert` says that a converter which turns each piece into its
  counterpart, wherever the piece is, turns the text into the whole of the counterparts, or
  stops at the first for which there is no room; the six converters do
  (`TurnsOfUTF8toUTF16` and its like).
* `LengthsOfStrings`: the three functions that walk a string, and the conversion to UTF-32,
  agree on any string of bytes, legal or not.  From each place of the string on there is something
  to be shown, and the sequences are whole or they are not (`Walks`).  That exists by `Recursion`;
  each of the three loops computes it (`LengthWalked`, `TextWalked`, `CopyWalked`), by `Determined`,
  the uniqueness of what is defined from a place further on.  The conversion, as long as it
  reads legal characters (`LegalCharacter`, `ReadsOn`), has written what is shown of the part it has
  read (`SoFar`).

**Dates and times.**  Also in `ValueProofs`: rounding to a precision and
then to a coarser one is rounding to the coarser one at once, for every input the
functions accept (`RoundingInSteps`, by one lemma for each of year,
seconds and nanoseconds); and times are compared by their seconds with the offset added
(`ComparesWithOffset`, by `AdjustedIsSum`), for all offsets that do not lead back
more than a day.  That is the order the code and its tests have, not the one of `types.h`
(see Findings).  `RoundedOnce` and `MomentsInOrder` carry both to the client of
`Values`, for whatever it makes and compares, from `ValuesAssumption`: what it has made keeps
the arguments it was made from (`MadeOK`).

**Who holds a string.**  Also in `StringProofs`, for any number of threads, statics, pools and strings,
from `StringUseAssumption` (the places are finitely many and of one kind each):
`TypeCorrect`, `CountsCorrect`, `BorrowedStayLive`.  That the count of a string is the
number of places that hold it is inductive once it is known which threads hold one
in their local variable (`CallsOK`).  A borrowed string has no place, so
`BorrowedLive` needs to say who keeps it live instead (`BorrowedKept`): a static
that holds it and that no thread is using for the first time any more, which
nothing writes to again; or, in the pthreads build, a count that is higher
than the number of its holders, because the static was overwritten without a
release.  `Make`, `Drop` and `Move` have a lemma each on what they do to the
counts, and every action is one of them or `Exchange`.  The same theorems hold of
`Library`, whose other steps touch no string; and `SetUpStays` of what those
steps do: initialising again changes neither the memory manager nor any type.

**Reference counts.**  For every finite set of references and every set of
threads, from `RefTokensAssumption` alone (finitely many references, and `Nobody` none of the
others):

* `RefCountAtomicProofs`: `TypeCorrect`, `CountCorrect`, `MemoryPinned`,
  `OneDestroyer`, `ImplementsSharedObject`;
* `RefCountPthreadsProofs`: `TypeCorrect`, `CountCorrect`, `MutexLifetime`,
  `ImplementsSharedObject`.

The argument.  That the count is the number of references is nearly inductive:
the lemmas at the beginning of both modules say how that number changes when a token is
taken, dropped or handed over.  It does not say enough about memory: once a decrement has
returned 0 the count stays 0, and nothing in it forbids two threads from
believing they were last.  The inductive invariant adds that a destroying
thread excludes every reference and every other destroyer, and says what it
has freed so far.  A thread can only get there by dropping the last token, and
no token can be taken by a thread that owns none.  In the pthreads build it also
relates the mutex to the program counters: at most its holder is between lock
and unlock, the local copy of the counter is the counter while it is in there,
and every call in progress that still needs the mutex pins a reference.
`ImplementsSharedObject` is the safety part of the refinement: every step of the
implementation is a step of `SharedObject` or leaves its two variables alone.

**Messages.**  `FudgeMsgProofs`, for any number of messages, strings, blocks,
envelopes and client variables, any capacity and any depth of nesting, from
`ObjectHeapAssumption` (addresses and places are finitely many and of one kind
each) and `FudgeMsgAssumption`: `TypeCorrect`, `CountsCorrect`, `NothingDangles`,
`DestructionOnce`, `NothingLeaks`, `RoomForFields` and `FieldsStay`.  All of them are
about a client that is `Careful`: none of its own types holds a submessage, and additions
run out of memory only where the clean-up expects it.  Findings 1 and 2 are what
happens otherwise.  `CountsExact` is not inductive.  That a release takes the right
branch needs `HeapOK`: every live object is pointed at as often as its count
says (a block of bytes once), only live objects own pointers, blocks are known as
such, and an object without references is on the stack of destructors.
`ObjectHeapProofs` has a lemma for each way in which a step changes the
heap (create, retain, release, move, free), resting on how each changes the number of
places that point at an object.  The rest of `IInv` is about an addition in
progress: what its locals hold at each step for each kind of payload, so that
whoever cleans up finds exactly what it is going to undo; and that slots above the top
of a vector are empty, so that an append overwrites nothing.  `NothingLeaks` needs
the order of messages besides: of the live messages, the greatest could only be held by
one greater still.

**Decoding.**  `MsgDecoderProofs`, for any number of messages, any depth of nesting and
any number of fields, from `ObjectHeapAssumption` and `MsgDecoderAssumption` (a local for
each message, and one for `decodeMsg`): `CountsCorrect`, `NothingDangles`,
`OneReferenceEach` and `NothingLeftBehind`.  They assume `NamesMade`, which is that making the
name of a field that owns its payload does not fail: `codec_decode.c:57` loses the
payload otherwise.  Everything else may fail, at every depth.  `HeapOK` and the lemmas of
`ObjectHeapProofs` serve here too.  What is new is the recursion: the
calls of `decodeMsgFields` form a chain, the outermost building the message
of the envelope and each other one the message in the data of the call around it
(`FramesOK`), and the locals of a call are empty except at the steps where the code has still
to hand on or release what is in them (`LocalsOK`).  It follows that the message of a call
outlives the call, and that no clean-up releases twice or forgets.  Everything is
referred to once but at two moments (`OnceHeld`), so what is put into a message cannot
contain that message, and messages form no cycle (`Rooted`): that is
why a failure, which releases the outermost, leaves nothing.  `ReleasesOnlyOwned` is not
among the theorems: finding 4 is that it is false.

**Encoding.**  `MsgEncoderProofs`, for any number of messages and fields and any depth of
nesting, from `MsgEncoderAssumption`: `CachesRight`, `NothingOutside`, `AnnouncedRight`
and `NoneMissing`.  The last two say what becomes of arrays that end in part of an element: what is
announced for a message is what is written of it if there is none in it, at any depth, and more
otherwise; and the final check of the encoder refuses exactly those.  Lengths are defined by
recursion, over messages that hold only messages below them (`Layered`).  `Recursion` shows that such a definition has what it
defines: take the functions that are right up to n, and a least n for which
there is none.  The inductive invariant (`IInv`) adds to the properties
that each message being written is between its start and the end that was announced for
it, inside the one around it, and short of what was announced just where a part of an element has
been left out (`FramesOK`, `WrittenTo`); it follows that measuring with
the cached widths gives the length that is written (`MeasuresOK`).  Two hypotheses are the client's part of it.
`~EditsSubmessages`: nothing is added to a message once another that holds it has been
encoded; finding 3 is what happens otherwise.  `WidthsAsRegistered`: a field of a type of
fixed width has that width, which `FudgeMsg_addFieldOpaque` (`message.c:349`) leaves to its
caller.  `AnnouncedRight` is about room for less than 2^31 bytes, as a length is written in 32
bits with a sign.

**Whole messages.**  `ValueProofs` goes on to messages of any depth, of any number of
fields of every type, from `WireFormatAssumption`: `LengthExact` (the length measured is the
number of bytes written), `NoPartTaken` (no proper beginning of a message is taken for the whole),
`SentAndReceived` (what is encoded is decoded to the same message) and `WireTypes` (what is written
are bytes).  They hold of the clients of `WireFormat` and of `Values`.  The argument has three
layers.  A field is read back from what is written of it, and with it the place where the next
begins (`LeafReadBack`, `FieldReadBack`), by the theorems about codes.  The messages a client has
put together hold only those from before them (`NestOK`, the inductive invariant), so they
can be ranked (`RankThem`), and the lengths, the bytes and the decoding of a message
are what their recursive definitions say, by `Recursion` again.  Then what holds of the
messages of lower rank holds of the next.  Along a message the argument
goes from its last field to its first, with what is in front of a field and behind it (`Cut`,
`Downwards`).  That no part is taken for the whole needs none of this: the decoder compares the
length announced in the header with what it has been given.  Hypotheses: `LengthFits`, the
length is below 2^31; and for `SentAndReceived` alone `NamesShorter(128)`, without which finding 5
refutes it.

**Reading a message.**  `NumbersRead`, in `ValueProofs`: in whatever type `FudgeMsg_addFieldI32`
keeps an integer, the receiver reads it as every type of number that can hold it, as no other, and as the nearest
float; by a name or an ordinal it finds the first field that has it.  The message that arrives is the
one sent (`EncodedReadBack`).  Its fields have the names the client gives, at most one
ordinal, and integers are in the smallest type that holds them (`ReadIInv`, inductive:
`FudgeMsg_addFieldI16` and `addFieldI32` see to that).  `IntegerReadsBack` goes through the coercers
of those types, `NearestFloat` through the rounding to 24 bits.  A string compares equal to
itself (`ComparesToItself`, by `Recursion`), so a name is found by itself.  That no other is
found by it is a hypothesis, `NamesApart`, besides the two of `SentAndReceived`:
`FudgeString_compare` skips byte-order markers, so of two names that differ by them alone the getter finds
the first.

Model-checked only: all liveness, as the prover does no fairness here.  Every invariant and
every action property of the passing runs is stated by a theorem, and `SharedObjectSpec` by its
safety part.  No induction theorem of the library can be used by the provers, as each takes an
operator as its parameter; where induction is needed, a least counterexample does the same, at
some length, as for `Recursion`.

## What is not modelled

* **Creation that fails after its first allocation** (`string.c:71`,
  `stringpool.c:46`, `message.c:225`, `envelope.c:57`).  The first two hand to the
  allocator an address it never returned, and what comes of that is not
  defined by the code; the other two forget the counter, which is lost.  The modules
  let a creation fail before its first allocation only, where it changes nothing.
* **Lengths beyond 32 bits** (`codec_encode.c:105`): the integers of the models have no
  width there, and no run comes near.  The theorems about lengths say where the models end: they
  assume room for less than 2^31 bytes (`AnnouncedRight`) or a length that fits (`LengthFits`).
* **Two threads that encode messages with a common submessage** (`message.c:530`).
  `message.h:33-38` forbids it.
* **A header whose length is not that of its message** (`codec_decode.c:331`):
  `DecodeFrom` goes by the length of the input, as the code does, and the run
  gives it the message or a part of it, never more.
* **Arrays that end in part of an element, byte by byte.**  Those of `WireFormat` are
  sequences of whole elements (`DataOf`).  `FudgeMsg_addFieldOpaque` takes others, and the decoder
  makes one of any width it reads (`codec_decode.c:29,67,222`), of which `DecodeArray` has the
  elements and not the rest.  They cannot be encoded (`codec_encode.c:230-241,330`);
  `MsgEncoder` has that, by sizes.
* **Opaque fields of a fixed width type with another number of bytes** (`codec_encode.c:409`,
  `message.c:349`), in `WireFormat`, and in the runs and theorems of `MsgEncoder`
  (`WidthsAsRegistered`).
* **That a decoding ends**, which needs the bytes: `MsgDecoder` counts fields only.
* **Integers of 64 bits and floats that are not made from integers of 32**, in
  `Coercion`.  On the wire (`WireFormat`) they are pairs of 32 bits.
* **`reference_default.c`**, the single-threaded build.  `ObjectHeap` uses its
  counts as `++` and `--`; that no two threads share an object is its contract.
* **`FudgeRefCount_count`**, which only the tests call.
* **Memory that is used again after it is freed.**  Every object has an address of
  its own, so that a stale pointer is seen to be one.

Left out for good: `platform.c` and `pstdint.h` (macros), `status.c` (a table of
texts), the examples and the tests.
