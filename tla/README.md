# Formal verification of Upa URL

Upa URL is a C++ library that parses, edits and serializes URLs as the WHATWG
URL Standard says. This directory holds a TLA+ model of it, the TLC runs that
check the model, and theorems about it that TLAPS proves. The code is the
reference: every definition that stands for code is listed in `PROJECT.json`
("map") with the lines that it models.

## The system

| component | state | operations | what makes it correct |
|---|---|---|---|
| `url` object (`url.h`, `url.cpp`) | `norm_url_` (the whole URL as one string), `part_end_[11]` (where each part ends, 0: not set), `scheme_inf_` (cached pointer to a scheme row), `flags_` (null, opaque path, valid, host type), `path_segment_count_`, `search_params_ptr_` | getters, `clear`, moves, `swap` | the ends are in order and end with the string; the caches agree with the string; `href` is the serialization of the parts |
| `url_serializer` / `url_setter` (`url.h` 699-862, 2490-3010) | `last_pt_`; `strp_`, `curr_pt_`, `use_strp_`, `path_seg_end_` | `start_part`/`save_part`, `replace_part`, `append_parts`, path and host operations | an edit of one part moves the others and changes none |
| parser and setters (`url.h` 1381-2437) | `state`, `pointer`, `state_override`, `base` | `url_parse`, `parse`, `can_parse`, `href`, nine setters | consistent URL records; a parsed `href` parses to the same URL; failure is atomic; `can_parse` agrees with `parse` |
| host parser (`url_host.h`) | none; `url_host` keeps a text and a type | `parse_host`, `parse_ipv4`, `parse_ipv6`, `parse_opaque_host` | the ASCII short cut and the early failures give what the long way gives; a serialized host is parsed to itself; writes a host exactly when it succeeds |
| IP addresses (`url_ip.h`, `url_ip.cpp`) | none | parse and serialize | serializing is the inverse of parsing; nothing overflows |
| IDNA (`url_idna.cpp`) | one ICU object (`uidna_ptr`) | `domain_to_ascii`, `domain_to_unicode`, `idna_close` | gives ICU's answer, whatever room the output buffer had at first |
| percent encoding (`url_percent_encode.h`) | none | encode sets, encode, decode | encode then decode is the identity |
| UTF (`url_utf.h`) | none | UTF-8, UTF-16, UTF-32 conversion | every ill-formed sequence becomes U+FFFD, nothing is read past the end |
| `url_search_params` (`url_search_params.h`) | a list of pairs, `is_sorted_`, a pointer to its url | append, del, remove, set, sort, parse, clear, serialize, copies and moves; `update()` of the url | list and query are two views of one value; the pointers of list and url agree |
| file paths (`url.h` 3010-3300) | none | `url_from_file_path`, `path_from_file_url` | inverse of each other on absolute paths; no path leaves its root |
| `simple_buffer` (`buffer.h`) | size, capacity, where the characters are (inline array or a block of the heap) | append, push_back, reserve, resize, clear, move, grow | stays within the block that it alone owns, also when an allocation fails |
| string arguments (`str_arg.h`) | none | templates that give a pointer range to the parser | types only |

The parts call each other: a setter builds a `url_setter` on the url and calls
`url_parse`; `url_parse` reads the url back through the serializer
(`is_special_scheme`, `port_int`, `get_part_view`) and writes it through
`start_part` and `save_part`; the host parser writes through the same object,
which is its `host_output`. The list of a url's search parameters and the url
point at each other. Conversions by ICU write a `simple_buffer` through its
pointer and then resize it. Nothing is concurrent, nothing is persisted. What
is hard is the *sequence*: one string and eleven offsets are edited in place by
ten entry points, a list and a query update each other, and an edit is right
only for what earlier calls left. The conversions are hard at the boundaries of
their tables and limits. `PROJECT.json` lists these hazards at their lines.

## Modules

| module | models | role |
|---|---|---|
| `UrlText` | character classes, searching, drive letters, schemes, encoding | text as sequences of characters |
| `UrlRep` | the members of `url`, its getters, `replace_part`, path prefix | representation |
| `UrlSerializer` | `url_serializer`, `url_setter` | every write |
| `UrlHost` | `host_parser`, for the hosts of the parser's inputs | failure, text and type of a host |
| `UrlParser` | `url_parse`, `parse`, `can_parse`, `href`, the setters | the state machine: variables, actions, `Spec` |
| `UrlCorrect` | | the properties |
| `UrlInvariant` | | `IInv`, the inductive invariant of `UrlParser`: `ShapeInv`, `RecordInv` and `PathInv`; of the first two, `WorkShape` and `WorkRecord` are the parts that also hold while `href()` runs on a url that was moved from |
| `UrlMoves` | move construction and assignment, `swap` | composes `UrlParser` with a second url |
| `UrlStringBase` | `parse` and `can_parse` of two texts | composes four runs of `url_parse` |
| `UrlParams` | `url_search_params`, `url_search_params_ptr`, the calls between list and url | extends `UrlMoves` (url, parser, moves) by the lists of two urls and a list without one; takes the list format from `FormCode` by `INSTANCE` |
| `UrlQuery` | | abstract specification: lists only, as the caller sees them; `UrlParams` implements it |
| `FilePath` | `url_from_file_path`, `path_from_file_url` | extends `UrlCorrect`: paths become file URLs through the modelled parser |
| `Utf` | `url_utf.h`, `url_utf.cpp` | reading and writing characters, on bytes |
| `PercentCode` | percent encoding and decoding of byte strings | on `Utf` |
| `FormCode` | the form parser and serializer | on `PercentCode` |
| `IpAddress` | `url_ip.h`, `url_ip.cpp`, `unsigned_to_str` | IPv4 and IPv6, 32-bit arithmetic |
| `HostParser` | `url_host.h`, ICU on a few characters | on `IpAddress`: `host_parser` and `url_host` on bytes |
| `CodecCorrect` | | what these five compute, stated a second time and independently |
| `SimpleBuffer` | `simple_buffer` | a state machine; growth takes one step for each doubling |
| `BufferText` | | abstract specification: a text, and calls that add all or nothing; `SimpleBuffer` implements it |
| `Idna` | `url_idna.cpp`, ICU as a constant | extends `SimpleBuffer` by the handle and the retry loop |
| `MCUrl`, `MCUrlMoves`, `MCUrlStringBase`, `MCUrlParams`, `MCCodec`, `MCFilePath`, `MCIdna` | | the inputs of the runs |
| `PositionTheorems` | | lemmas: a first or last position, functions that are defined from earlier or later positions, loops |
| `UrlParserTheorems` | | theorems of `UrlParser` about ends, flags, asserts and the order of the blocks; before them, what each operation of `url_serializer` and `url_setter` leaves of ends and flags |
| `UrlPieceTheorems` | | lemmas: what each operation leaves of the texts of the parts |
| `UrlRecordTheorems` | | theorems about the record, the `href` and the getters, and about what a call leaves as it was |
| `UrlPathTheorems` | | theorems about the segments of paths, `InvariantHolds`, which joins the three layers, and theorems of `FilePath` |
| `UrlLinkTheorems` | | theorems about the pointers of urls and lists, the order of lists that are marked as sorted, and what moves leave of urls |
| `CodecTheorems` | | theorems about reading, writing and converting UTF-8 |
| `BufferTheorems` | | theorems of `SimpleBuffer` and `Idna` |

How code and model correspond:

* The blocks `if (state == ..._state)` of `url_parse` are the actions, `pc` is
  the variable `state`, `ptr` what is left of the input. One iteration of the
  loop of `parse_path` is one action (`PathState`); what follows the loop is
  `PathEndState`.
* `urls` is the serializer with the url object in it (`urls.u`, abbreviated
  `url`). `urls.setter` says whether it is a `url_setter`, `urls.save` is
  `need_save()`.
* Offsets are those of the code; a text is a sequence of characters, and a
  character that needs more than one byte (`"%40"`, or a run such as `"http"`
  that nothing looks into) is one element. Offsets then count elements. The
  arithmetic on them does not depend on how long an element is.
* An `assert` of the code clears `urls.sane`: a release build goes on.
* A constructor and `href()` parse into a new object and assign it when they
  succeed, so `ParseReturns` gives back `old` when they fail; `parse()` leaves
  what it has written in the object.
* When a call is over `pc` is `"done"` and `op`, `arg`, `old`, `res`, `can`
  hold what the caller can compare; `Resume` forgets them.
* `parse` is preceded by `can_parse` with the same arguments, so that `can`
  holds its answer. `Reparse` is `u.parse(u.href())`.
* In `UrlParams` a step of a call of the url carries its list along
  (`Carried`): the list is parsed or cleared in the same step in which the code
  calls `parse_search_params` or `clear_search_params`. An edit of a list is
  one action with the `update()` it ends in. `search_params_ptr_` and
  `url_ptr_` are the fields `made` and `owner`.
* `Utf`, `PercentCode`, `FormCode`, `IpAddress` and `HostParser` have no state:
  they are functions of byte sequences, and a loop of the code is a recursive function
  of its index. A 32-bit number is a pair of base 65536, since TLC's integers
  have 32 bits.
* In `FilePath`, one action converts a path and another constructs a url from a
  text; `Edit` is any call of `UrlParser` on the url that there is, setters
  included, and the steps of the parser that follow are those of `Spec`. `path`
  is the path that the url was made of, until it is edited.
* In `SimpleBuffer`, `cells` is what `data_` points to, `heap` the blocks that
  were allocated and not deallocated. Each allocation may fail. What was not
  written holds `Unset`.
* A definition whose comment says *Mutant* stands before the definition that
  it changes. Each property is shown to fail when its mutant replaces that
  definition.

## Runs

| run | what it explores | what it checks |
|---|---|---|
| `special` | every sequence of `parse`, `href`, `clear` and setter calls on `http:`/`ws:` URLs | `HrefIsSerialization`, `GettersAgree`, `OtherPartsAreKept` |
| `nonspecial` | the same for URLs of another scheme: no host, empty host, opaque path with trailing spaces, `/.` prefix, failing hosts | `EndsInOrder`, `FailureIsAtomic`, `RoundTrip` |
| `file` | the same for file URLs, with relative references and scheme changes | `IInv` |
| `parse` | every text of up to 4 or 5 characters after `http:`, `ws:`, `a:` and `file:`, and every short relative reference with bases of six kinds, parsed and parsed again | `AssertsHold`, `CanParseAgrees`, `RecordIsConsistent`, `RoundTrip`, `SegmentsAreCounted`, `StatesGoForward` |
| `string_base` | thirteen base texts, some bad, with every short url text | `CanParseStringsAgrees`, `HalfBaseIsEnough`, `CallsReturn` |
| `params` | two urls with parameter lists and a list without a url: edits, calls, copies, moves, swaps and assignments in every order | `LinksPointBack`, `ListIsTheQuery`, `SortedFlagIsTrue`, `RoundTrip`, `WholeUnlessMovedFrom`, `QueriesAreLists` |
| `codec` | strings of every kind, put together from chunks at the boundaries of tables and limits | `DecodesAsUnicode`, `ConversionsAgree`, `WideBecomesUtf8`, `ComparesAsUtf16`, `PercentDecodes`, `FormParses`, `FormRoundTrip`, `Ipv4IsStandard`, `Ipv6IsStandard`, `HostIsStandard`, `HostRoundTrip` |
| `filepath` | every short POSIX and Windows path, every short file URL, and what `protocol()`, `hostname()`, `pathname()`, `href()` and reparsing make of them in any order | `DotDotIsRefused`, `FilePathRoundTrip`, `PathsAreAbsolute` |
| `idna` | conversions into buffers with and without inline storage, between other uses of the buffer, with allocations that fail | `BufferInv`, `ConversionIsRight`, `BufferIsText`, `ConversionsEnd` |
| `host_failure`, `moved_parse`, `host_escape` | the findings below | one property each, violated |

The properties, in short. `EndsInOrder`: in every state of every call
`part_end_` is ordered, has no gap, and ends where `norm_url_` ends.
`HrefIsSerialization`: the string is the standard's serialization of the parts
that the getters return. `GettersAgree`: the getters of several parts agree
with those of single parts. `SegmentsAreCounted`: the cached number of path
segments, which decides what `..` removes. `RecordIsConsistent`: what the standard demands of a URL record.
`OtherPartsAreKept`, `FailureIsAtomic`: what a setter does not touch.
`RoundTrip`: parsing the `href` gives the same URL. `CanParseAgrees`:
`can_parse`, which skips all that need only be written, gives the answer of
`parse`. `StatesGoForward`, `CallsReturn`: the blocks of `url_parse` stand in
an order in which no transition goes back, and every call returns.
`IInv` holds in every state of a call and says what the block of `url_parse`
that comes next finds: `ShapeInv` of the ends, the flags and the cached
`scheme_inf_`, `RecordInv` of the delimiters and of the record as far as it is
written, `PathInv` of the segments of the path and of the buffer in which a
setter gathers them.

`LinksPointBack`: however urls are copied, moved and swapped, a list that a url
owns points to that url. `ListIsTheQuery`: list and query say the same,
whichever was changed last. `SortedFlagIsTrue`: the flag that lets `sort()` do
nothing never outlives the order. `WholeUnlessMovedFrom`: a url has leftovers
of an old value only after it was moved from. `QueriesAreLists`: the abstract
specification `UrlQuery`, with each list mapped to what its url's query parses
to; edits change it as they change the list, the calls of the url that set the
query replace it, and nothing else changes it.

`DecodesAsUnicode`, `ConversionsAgree`, `WideBecomesUtf8`, `ComparesAsUtf16`:
decoding against Unicode's table of well-formed sequences and maximal
subparts, the four conversions against each other; UTF-16 and UTF-32 that are
ill formed, by surrogates or by numbers above U+10FFFF, become well-formed
UTF-8 from which every other character is read back. `PercentDecodes`,
`FormParses`, `FormRoundTrip`, `Ipv4IsStandard`, `Ipv6IsStandard`: parsers
against the definitions of the URL standard, which are stated without indices
and loops, and serializers as their inverses. `HostIsStandard`: the short cut
of `parse_host` for ASCII domains and its failures at the first character give
the host that decoding, ICU and the later checks give. `HostRoundTrip`: a host
or an address that was serialized is parsed to itself, with the same type.
`NormalizedHostsPass` (violated): what fails at the first character has no
host.

`FilePathRoundTrip`: an absolute path that becomes a URL and comes back is the
same file. `DotDotIsRefused`, `PathsAreAbsolute`: no path with a `..` segment
becomes a URL, and what comes out of a file URL is absolute, also of one that
only setters make: `protocol("file:")` keeps the host `localhost` and the
segment `C|` of `http://localhost/C|/x`, and `hostname("")` then takes the host
away.

`BufferInv`: also within a call the text and what is added to it are within
the capacity, and the block is the only one that is allocated. `ConversionIsRight`: what `domain_to_ascii` and
`domain_to_unicode` leave in the buffer, and the code that they return, are
ICU's answer, although ICU was called with too little room before.
`BufferIsText`: the abstract specification `BufferText`. `ConversionsEnd`: no
conversion asks for more room for ever.

### Bounds

The state space of the runs `special`, `nonspecial` and `file` is finite without a bound: the setters
replace parts by members of `Input`, so that TLC explores call sequences of
every length. `Input` holds for each setter the empty text, a text that the
parser keeps and one that it changes or refuses; together they make every
combination of present and absent parts, which is what `replace_part` and
`start_part` branch on. The run `parse` takes every text up to a length over the
characters that the states of the parser test: five characters after `http:`
reach each block between the slashes and the path. The cut-offs are
the lengths in `After` and `SeqOf` in the `MC` modules; the alphabet
of each scheme has the characters that matter there.

In the run `params` a list has up to `MaxParams` = 2 pairs: two are enough to
be out of order, to have a name twice and to lose one of two. `Lean` in
`MCUrlParams` keeps the run small: a call of the url reads neither the other
url nor the list without a url, so calls start, and lists grow to two, where
these hold nothing; otherwise one of them holds something, and lists have at
most one pair. Names and values are one byte, one of which is no UTF-8.

In the run `codec` a string has up to `MaxChunks` chunks, four or five for most
kinds: UTF-8 sequences have at most four bytes, and the bytes are those at
which the table of well-formed sequences changes; UTF-16 has the units next to
the limits of the surrogates, UTF-32 the numbers next to those and to each
limit of `append_utf8`, 10FFFF, 110000 (hexadecimal) and 2^31 - 1, the largest number of TLC:
`read_code_point` only compares, so that higher ones are taken alike; the pieces of IPv4 numbers
are those around the limits 2^8, 2^16, 2^24, 2^32 in three radices; IPv6
addresses grow by pieces, `::` and dotted tails until they are too long. A host
has up to three chunks, among them escapes of `.`, `%`, `<` and of the
characters that ICU removes, maps to ASCII or composes: a shorter one has not
room for a character, the escape that changes it and a label behind it. ICU is
the function `UidnaNameToAscii`, which has a mapping, a composition and a rule
about labels for six characters that are not ASCII, and writes a letter for
each character where Punycode would be. `CHECK_DEADLOCK` is off in this run and
in `host_escape` only: a string that has all its chunks stays as it is. In the
run `filepath` a path is a prefix that selects a branch of the code (drive,
share, `\\?\`, UNC) and two to seven characters at most, where `"UNC"` is one. The
urls are edited with two schemes, four hosts and three paths, which are enough
for each host and start of a path that `path_from_file_url` tests to be met in
a file URL that was an `http:` URL before; calls follow each other without a
bound.

In the run `idna` the inline capacity is 0 or 2, `MaxSize` (the allocator's
`max_size()`) and `Int32Max` are 5, and `kMinBufferLen`, 16 in the code, is 2,
so that one character more than fits, a second doubling and both limits are
reached by short texts. The theorems below hold for every value of these.
`IcuVersion` is 67, the last one whose output the code searches for characters
that are not ASCII. Before a conversion the buffer is not larger than
`Int32Max`, as the callers in the library have it.

Some inputs have a tab, at an end or within, for all that `do_trim` and
`do_remove_whitespace` remove; a username has one that is kept. The inputs of
the parser have no ill-formed UTF, which only the byte-level modules read; its
hosts are domains, opaque hosts, the IPv4 forms "one decimal number" and "four
numbers" and three IPv6 addresses.

### Fairness

`Spec` has `WF_vars(Step)`, `StringSpec` and `IdnaSpec` the like: a call that
was made goes on. The library is single-threaded and has no callback, lock or
wait, so that the only thing that could stop `url_parse` or a conversion is the
process. There is no fairness for making calls: a caller may never call again.
`CallsReturn` (run `string_base`) and `ConversionsEnd` (run `idna`) use the
assumption; ICU, which is called by the latter, is assumed to return.

## Findings

1. `host()` with a good host and a port that is out of range returns `false`
   and has changed the host (`url.h` 1928 writes, 1960 and 1968 fail). The
   comment at `url.h:310` says that host and port are unchanged on failure.
   Run `host_failure`. `FailureIsAtomic` has this one exception, and
   `OtherPartsAreKept` shows that nothing but the host changes.
2. A moved-from url keeps `part_end_`, `flags_` and `path_segment_count_`, and
   `new_url()` clears an object only when `norm_url_` is not empty. `parse()`
   on a moved-from url leaves old ends and flags in a URL that is valid, which
   the comment at `url.h:1377` excludes. Run `moved_parse`. `clear()`, `href()`
   and assignment are safe: `WholeUnlessMovedFrom` in run `params`.
   `is_valid()` of a moved-from url tells nothing: the flag stays (`url.h:541` says that a
   valid URL is not empty).
3. The host parser fails at once at a character that no domain may have, but
   for `<`, `=` and `>` before a character that is not ASCII, which may compose
   with it; the comment at `url_host.h:208` says that no error is reported
   "if there is a possibility to normalize them". The test reads the next
   character of the input, not of the decoded host: `<%CC%B8` fails, although
   ICU would make a letter of it, as it does of the same host without escapes
   (`src/test/data/my-toascii.json:8`). Run `host_escape`; `HostIsStandard`
   names this case (`EscapeBehindAngle`).

Two things that are no disagreement but that a reader of the properties meets:
`protocol("file:")` keeps a host `localhost` and a first segment `X|`, which
the parser would have changed; `RoundTrip` names this case
(`KeptFromOtherScheme`). And `origin()` of a special URL whose parse failed
after the scheme reads ends that are not set; the getters are stated for valid
urls only.

## Proofs

### The url

For every set of characters with `CharAssumption` (it holds the characters
that the code writes) and every `Input` with `InputAssumption` (texts for each
call), so for texts of every length and call sequences of every length, and
also within a call:

| theorem | states |
|---|---|
| `ShapeIsKept`, `InvariantHolds` | `Spec => []ShapeInv`, `Spec => []IInv` |
| `TypesAreKept`, `AssertsNeverFail`, `EndsStayInOrder` | `TypeOK`, `AssertsHold`, `EndsInOrder` |
| `BlocksGoForward` | `Spec => StatesGoForward` |
| `SegmentsAreCountedAlways` | `SegmentsAreCounted` |
| `HrefIsTheSerialization`, `GettersAgreeAlways`, `RecordsAreConsistent` | `HrefIsSerialization`, `GettersAgree`, `RecordIsConsistent` |
| `FailedCallsAreAtomic` | `FailureIsAtomic` |
| `OtherPartsStay` | `OtherPartsAreKept` |

The argument goes in four layers.

*Shape.* `ParserInv` is `ShapeInv` with `urls.sane`, that no assert failed. It
is needed because every operation relies on its asserts: `start_part` fills the
ends between the last part and the new one, and the ends stay in order only if
the new one comes later. `ShapeInv` therefore says for each block which part
was written last (`ParsingOK`), and that a setter has a complete URL
(`SettingOK`). Three of its conjuncts look odd and are needed: `pc = "idle" =>
~hasBase` (a setter that is called next leaves `hasBase` alone, and the file
blocks would then read a base that nobody gave), that a path which was begun
is the last part (`PATH` is the one part that may be started twice), and that
`old` and `base` are resting urls, since a failing call gives `old` back and
`append_parts` copies from `base`. `UrlParserTheorems` proves how ends move
and what each operation does with them, and
then goes through the blocks: `MayEnter` and `MaySet` say when
a block may be entered, by a parser and by a setter, and `MayReturn` when the
call may end, so that each block is proved by showing what its transitions
enter. `BlocksGoForward` uses the same invariant: that `path` goes to itself
only with less input, and nothing goes back.

*Record.* `RecordInv` says what stands between the ends. Its unit is the
*piece* of a part, with its delimiter: `UrlPieceTheorems` shows for each
operation which piece it writes and that all the others stay, so that an edit
in place of one string is reasoned about as eleven texts. `Framed` (each
delimiter stands where the serialization has it) holds from the host on;
`PrefixFits` and `PathConsistent` only when the path is over, because the
`/.` before a path depends on the segments that are still to come, and
`shorten_path` empties a path for a while. `UrlRecordTheorems` has one
predicate for each kind of block, `EnterRecord` and `SetRecord`, and one lemma
for each action. The properties of the getters then follow without a further
induction: the string of a valid url is the concatenation of its pieces, and
each getter returns some of them.

*Segments.* `PathInv` says that `path_segment_count_` is the number of `/` in
the piece of the path, and that a path which is not opaque starts with one:
only so does the last `/` that `shorten_path` looks for exist when the count
says that there is a segment. It is said of `old` and `base` too, since
`append_parts` copies a path and its count from `base` and may shorten it. A
setter gathers the new path in its buffer while the url still has the old one,
so that `PathInv` has a second half: `BufferCounted` says that each of the
`path_seg_end_` is an end of that many segments, so that the one that
`shorten_path` cuts back to leaves exactly the segments before it. Neither half
is of use without `ShapeInv` and `RecordInv`, which say where the path is
(`PATH` is the last part, or a part of a complete url) and what its prefix is.

*Calls.* A property of a call compares its end with its start, several steps
before. `CallInv` says of each block that while a setter runs in one that can
still fail (`scheme_start`, `scheme`, `host`, `hostname`, `file_host`, `port`)
the url is `old`, except after a host was written in `host()` and its port is
next. `KeptInv` says which parts differ from those of `old` when a block is
entered (`ChangedBefore`): none, but for the host before a port. Parts are
compared by piece and by whether they are null. It also says that a setter
which comes to the end of the path has no input left, so that `pathname()`
does not go on to the query.

### Lists and urls

For all texts, pairs, lists and bounds, `UrlLinkTheorems!LinksAlwaysPointBack`:
`ParamsSpec => []LinksPointBack`. `ParamsSpec` is what `LeanSpec` of the run
restricts. `LinkInv` adds to the property that each list is a record with its
four fields, and says it of all three objects.

`UrlsAreWhole`: `MoveSpec => []WholeUnlessMovedFrom`, and `LinkedUrlsAreWhole`,
the same of `ParamsSpec`. Neither follows from `IInv`: a move
leaves a url whose flags and ends are those of the value that went away and
whose string is empty, so that no conjunct about its parts holds of it, and the
caller may clear it or call `href()` on it all the same. `MoveInv` splits the
invariant of the url by who knows of it:

* `Intact` is what a url has that no call is working on and that was not moved
  from: it rests, and its record is consistent if it is valid.
* `Working` is the invariant of the blocks of `url_parse` (`WorkShape` and
  `WorkRecord`, which say nothing of `old`), with `old` intact, unless the url
  was moved from; then the call is `href()`, which parses into a new url, so
  that what is left is in `old` only, until the call replaces it or gives it
  back.
* `Apart` is what is left between calls when the url was moved from: its
  variables have their types, and no call has left a base or a setter behind
  that the next one would use.
* `OtherInv` says `Intact` of the second url.

The lemmas about the blocks are stated for `WorkShape` and `WorkRecord`, so
that the theorems of `Spec` and those of `MoveSpec` cite the same ones.

`LinkedUrlsAreWhole` has a hypothesis, `[]ListsAreTexts`: the queries that the
two lists are written as are texts over `Char`. `Char` is a set of characters
that a run chooses, and what the recursive form serializer writes is not
derived here from what is in the list; that the alphabet has these
characters is therefore said outright. The alphabet of the run `params` has
them: TLC writes every list there by looking its characters up.

`SortedFlagsAreTrue`: `ParamsSpec /\ []QueriesAreTexts => []SortedFlagIsTrue`.

* *The order.* `sort()` orders names with `compare_by_code_units`, a loop over
  two positions that reads characters and stops at the first that differ.
  `LessIsTransitive` and `LessIsIrreflexive` say that this is a strict order on
  all byte strings, also on those that are no UTF-8, of which each ill-formed
  part counts as one U+FFFD.
* *The lists.* `SortedInOrder`: inserting each pair before the first one of a
  greater name gives a list in order. `SetInOrder` and `WithoutInOrder`: `set()`
  and `del()` keep the order, since they replace a pair by one of the same name
  or drop pairs; every other edit clears the flag or leaves a list that is
  empty.
* *The invariant.* `ListsOrdered` is `LinkInv` with the order for each of the
  three objects and with the type of lists, pairs of byte strings, for which
  `ParsedList` shows that the form parser makes nothing else. `HrefWhenStale`
  says that on a url that was moved from no call but `href()` is under way.

`ParamsAssumption` says that the pairs, texts and lists of the callers are
bytes. `QueriesAreTexts` is a hypothesis for the same reason as
`ListsAreTexts`: the bytes of a query are known to the model by a table of
characters (`CharBytes`), and that queries have no others is a matter of the
alphabet; TLC looks each one up in the run `params`.

### Paths of files

`FilePath` has two results in `UrlPathTheorems`, for paths of every length over
`Char`, and for urls that come from any texts and paths and are then edited by
any calls. `PathsAssumption` is that the paths and the texts of urls are texts and that `Char` has the
characters that the conversions write or decode. `FileInv` is the invariant
of the url with the types of `path` and `format`.

* `PathsAreAlwaysAbsolute`: `FileSpec => []PathsAreAbsolute`. `FileInv` has the
  whole invariant of the url, which every call of `Edit` keeps because it is one
  of `Next`, so nothing is assumed of how the file URL was made. That the path of a
  file URL begins with `/` is what `PathInv` says of it (`SpecialPathStarts`);
  the rest goes by the branches of `path_from_file_url`, and shows of each that
  `IsAbsolute` reads what the branch wrote: a share behind its host
  (`HostIsUsable`), a drive (`DriveIsAbsolute`), and a path of two or more
  backslashes, which is absolute only if it is a UNC path (`UncIsAbsolute`).
  `IsAbsolute` looks for the share's name with other searches than the code
  that wrote it, in a text that has been decoded since.
* `DotDotIsAlwaysRefused`: `FileSpec => []DotDotIsRefused`. `DotsFrom(s, slash, k)`
  says without a recursion that from position `k` on some component of `s` is
  two dots. `DotsAreFound` shows it of the search of the code, which goes on
  from behind a dot that it has judged, and `SplitAtDots` shows it of the
  components that `Split` makes. For POSIX the code looks at the whole path
  and the property at what is behind the root; that they find the same is
  `DotsBehindRoot`.

`HasDotDotSegment` and `Split` are recursive functions on positions, each
defined by its values at later positions. That there is such a function is
`DescentExists`; that it has a property at every position is `FromTheEnd`: of
the positions where it has not, the last one would be a counterexample to the
step. Both are in `PositionTheorems`, with `AscentExists` and
`FromTheStart` for functions of earlier positions and `LoopExists` for those
whose next position is computed.

### Texts

`DecodingIsUnicode` states `DecodesAsUnicode` for strings of bytes of any
length; `CodecAssumption` says that seeds and chunks are strings of the units
of their kind. The code decides by two tables of bits, `k_U8_LEAD3_T1_BITS` and
`k_U8_LEAD4_T1_BITS`, and by a chain of conditions; Unicode by nine rows of
ranges. `LeadBits` shows what the bits say of each pair of a lead byte and the
byte after it, `RowsAreTables` that the rows have the same lead bytes and as
many bytes after them, `BeginsIsFits` that what a row begins with is what the
conditions let through. Then `ReadIsUnit` says of every position of every
string that the code ends a character, or the part of one, where the standard
does, and not behind the end of the string, and `ReadIsWritten` that a code
point is no surrogate and is written as its bytes. The bounds of code points
are stated by `Between` and not as sets, and the bytes of a code point by
`LeadIs` and `TrailIs`: the provers list the members of a range of numbers one
by one, and rewrite an equation such as `128 + cp % 64 = b` without end.

`ConversionsAgreeAlways` states `ConversionsAgree`, also for strings of any
length. Four recursive functions on positions are compared: the standard's
decoder (`FixedFrom`), the two loops of `check_fix_utf8` (`Wells`, where the
first loop stops; `Rests`, what the second makes of what is left), the
conversion to UTF-16 (`UnitsFrom`, `WellFrom`) and that of code units to UTF-8
(`BytesFrom`). For each it is shown that there is such a function and what its
values are; then, from the end of the string, that they agree at every
position.

* `CheckFixIsFixed`: what the decoder makes of the string from a position on is
  the run up to where the loop stops and what it makes of the rest.
* `BackIsFixed`: the code units that stand for a code point are read as that
  code point whatever follows them (`FrontIsRead`), and a read looks forward
  only (`ReadIsShifted`).
* `SuccessIsFixed`: `convert_utf8_to_utf16` reports success exactly when nothing
  is replaced. For this the replacement must differ from what it replaces:
  it would be the bytes `EF BF BD`, and these are well formed
  (`IllFormedIsReplaced`).

### Buffer and IDNA

For every set of values and pieces, every inline capacity and every limit with
`BufferAssumption` (the first capacity is positive and at most half of the
allocator's limit, an inline array is not larger than that limit, pieces are
texts of the values):

* `BufferIsSafe`: `BufferInv` in every state. It is the
  conjunction of the type, `CopiesFit` (what a call adds fits into the block
  when it is copied), `HeapIsOwned` (the block is the one that was allocated,
  and no other is left) and `GrowInv` (in the loop of `grow()` the new capacity
  is positive, not below the old one, and can still be doubled while it is too
  small). `GrowInv` is what makes it inductive: that the loop ends with enough
  room, within the limit, follows from nothing else. The step lemma is stated
  for `AnyNext`, any use of the buffer by its owner, with the writes through
  `data()` among them, so that the next theorem can cite it.
* `BufferImplementsText`: the refinement of `BufferText`, step by step, from
  the same invariant.

With `IdnaAssumption` (ICU's limit is within the allocator's, and what ICU
makes of a domain is within ICU's limit) besides:

* `IdnaKeepsBuffer`, `IdnaImplementsText`: both results above for
  the composition with conversions: each step of `Idna` is one of `AnyNext` or
  leaves the buffer alone.
* `ConversionsAreRight`: `ConversionIsRight` in every state. The
  inductive invariant `IdnaInv` adds to `BufferInv` where a conversion is
  (`ArgumentInv`), that ICU's text is in the buffer before and while it is
  resized (`ResizeInv`), that the room that is asked for stays within ICU's
  limit (`ReserveInv`) and what the result says when it is over (`DoneInv`).

### Only model-checked

* Liveness (`CallsReturn`, `ConversionsEnd`): out of this prover's reach, as
  is `ENABLED`.
* `RoundTrip`, `CanParseAgrees` and the properties of `UrlStringBase` compare
  two runs of `url_parse` on one text. An invariant of one run does not see
  the other; a proof would have to say what the whole parser computes.
* The other properties of the run `codec`. They compare recursive functions on byte
  strings, most of which call one another, with a second definition.
  Induction with the property as a parameter is out of reach; what the proofs
  above do instead, to take the first or last position that has not the
  property (`Smallest`, `Largest`, `FromTheEnd` in `PositionTheorems`),
  needs a lemma of its own for each of these functions.
* `ListIsTheQuery` and the refinement of `UrlQuery`, which rest on what the form
  parser and serializer compute, and so on the same.
* `FilePathRoundTrip` compares a path with what the parser makes of its URL, so
  it belongs with `RoundTrip`.

## Not modelled

* The composition of the parser with `HostParser`: the parser's runs use
  `UrlHost`, which gives the result for the hosts of their inputs. Which error
  code an address parser fails with is left out.
* ICU and Punycode beyond the characters of `UidnaNameToAscii`, and conversions after `idna_close()`, which its documentation leaves to
  the caller.
* `origin()` of a url whose parse failed: the getters are stated for valid
  urls. Neither is that of `blob:` URLs (`url.h` 1127-1130), which parse their path
  as another URL: `GetOrigin` is the branch for special
  schemes other than `file`; what is left returns `"null"`.
* `swap` and move assignment of lists without a url, which only exchange them;
  allocation failure outside `simple_buffer`; the construction of a
  `code_point_set` by the caller.
* String arguments (templates that choose a pointer range), configuration,
  version and examples have no behaviour to check.

## Plan

1. Theorems: that lists are written as texts and queries keep to them, which
   are the hypotheses of `LinkedUrlsAreWhole` and `SortedFlagsAreTrue`.
2. `UrlHost` replaced by `HostParser`, with the characters of the parser's
   inputs as bytes, and its conversions by those of `Idna`.
