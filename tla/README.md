# A verification of StormByte-Config in TLA+

StormByte-Config is a C++ library for configuration documents: a tree of named
values, comments, groups and lists, read from and written to a text format and a
binary format. It runs in the caller's thread, starts none of its own and keeps
nothing on disk. What is hard about it is not concurrency but sharing: items are
reference-counted, copies are shallow, checks are made on insertion only, and a
call may stop half-way with an exception. This directory holds a model of the
library, what TLC checks of it, and what the TLA+ proof system proves of it.

All paths below are relative to the repository. `PUB` is
`lib/public/StormByte/config`, `PRIV` is `lib/private/StormByte/config`.

## The system

| Component | State it keeps | Operations | What makes it correct |
|---|---|---|---|
| Item tree (`PUB/item`) | an item: kind, name, payload; a container: `m_items` (references, in order), `m_on_existing_action` | `Add` (copy, move, pointer; own or given policy), `Remove` by index and by path, `Clear`, `operator[]`/`LookUp`, `Exists`, `Count`, `==`, `Clone`, `Move`, `Name`, `Value::operator=`, container and comment assignment | names unique in a group and valid, no two equal values in a list, a refused call changes nothing, nothing referenced is destroyed, no container inside itself |
| `Config` (`PUB/config.*`) | `m_root`, `m_on_existing_action`, two vectors of read hooks, an optional failure hook | the calls of its root, `OnExistingAction`, copy, move, `<<` from a Config, a stream or a string, `Text`, `Save`, `Load`, `AddHook*`, `OnParseFailure` | the two copies of the policy agree, an import delivers what it passed over and ends |
| Hooks (`PUB/hook.*`) | what the user keeps in them | called before a read, after a successful one, and on a parse failure | order, and which run when a read fails or is swallowed |
| Parser (`PRIV/parser/parser.*`) | position in the stream, the container being filled, one frame per nested container | read a document into a container | a prefix of the document is in the root when a read fails; every outcome is an error, an exception or success |
| Tokenizer (`PRIV/parser/tokenizer.*`) | position, line number | next token | every token is the longest of its type, no character is lost, lines are counted, the end of input is noticed inside a token |
| Binary format (`PRIV/binary`) | cursor over a buffer; output buffer | write a Config; read one back, by version | what was written is read back equal as far as `Add` allows; a cut buffer is an error, a damaged one brings an illegal tree only through a policy that is none (`stray_policy`) |
| Exceptions, type names, aliases | none | | |
| StormByte Base (external, not in the repository) | reference counts of `Safe::Shared` | | used as documented |

Interactions: a client calls a `Config`, which forwards to its root `Group`; a
container calls the virtual `BeforeAdditionActions` of `Group` or `List` before it
adds; a `Config` hands its root, policy and hooks to the parser, which asks the
tokenizer for tokens, calls hooks with the half-built tree, and adds through
`Container::Add`; the binary reader adds to a fresh Config in the same way.
There is no other process, no message and no timeout.

## Modules

| Module | What it is |
|---|---|
| `Items` | The tree as a heap (address -> item) and the operations on it as pure operators: reachability and destruction, `==`, the collision tests, `Add`, path lookup. No variables. |
| `Document` | Config objects and one client: one action per call. |
| `MCDocument` | Constant values and symmetry for TLC. |
| `ItemsProofs` | Lemmas about the operators of `Items`: what each way to build a heap preserves. |
| `DocumentProofs` | Type correctness of `Document`, uniqueness of names and values, that a name is found, and what calls leave behind: policies, refused calls, comments, removals, imports, cycles. |
| `TextRead` | Reading text into a Config: the client that registers hooks, the static `Parse` with its hooks, and the recursive `Parse`. |
| `Grammar` | The tokens the parser is given, and which of their sequences are documents, said without a parser. |
| `DocumentMeaning` | What a document means, as trees made from its brackets. |
| `ReadContract` | Abstract specification of `config << text`, as its client sees it, for any meaning that a text may have. |
| `TextMeaning` | That `TextRead` delivers what a document means and implements `ReadContract`. |
| `TextMeaningProofs` | That `TextRead` delivers what a document means, refuses only for cause, and implements `ReadContract`. |
| `Trees` | Items as trees, and which of several trees one container keeps. |
| `TreesProofs` | Lemmas about the operators of `Trees`. |
| `MCTextRead` | Constant values and symmetry for TLC. |
| `TextReadProofs` | Type correctness of `TextRead` and that reads keep names and values unique. |
| `TextReadGrammar` | That the parser accepts exactly the documents of `Grammar`, and that a read calls the hooks it should. |
| `Lexemes` | The classes of characters, the types of tokens, and what text a token of each type is, said without a tokenizer. |
| `TokenStream` | Abstract specification of a tokenizer: the tokens of a text, each as soon as it is certain. |
| `Tokenizer` | From characters to tokens, loop by loop; that it implements `TokenStream`. |
| `TokenizerProofs` | Type correctness of `Tokenizer`, that lines are counted, that nothing of a text is lost, and that `Tokenizer` implements `TokenStream`. |
| `TextFormat` | What `Serialize` writes, and the values of tokens. |
| `TextLoad` | `Config::Load` in text mode: `Tokenizer` and `TextRead` composed, and what the format can hold. |
| `MCTextLoad` | The characters, the texts and the documents for TLC. |
| `BinaryFile` | A document is made, saved in `Mode::Binary`, its file perhaps damaged, and loaded. |
| `BinaryRoundTrip` | What it is to load what was saved, said with trees. |
| `BinaryFileProofs` | Type correctness of `BinaryFile`, that a load keeps names and values unique (but in a root whose policy is none of the enum's), that a cut one is refused, and that a whole one gives back what was saved. |
| `MCBinaryFile` | Constant values for TLC. |

`Document`, `TextRead` and `BinaryFile` share `Items`: a client, the parser and the binary
reader all add through the same `AddTo`. `TextLoad` composes tokenizer and parser; on its own `TextRead`
takes any tokens, so that its runs reach documents whose text would be too long.

The two abstract specifications and what implements them:

| Abstract | Detailed | Refinement mapping |
|---|---|---|
| `TokenStream` | `Tokenizer`, alone and within `TextLoad` | its `text`, `ended` and `tokens` are those of the tokenizer; every step in the middle of a token stutters |
| `ReadContract` | `TextRead` | `contents`: the trees in the root, until the end of the parse those it began with; `stage`: the phase, the parse being part of "before"; `given`: the tokens read, once the parse is over |

### How `Items` and `Document` correspond to the code

- `heap` maps the address of every item to a record: kind, name, payload
  (`val`), `m_items` (`kids`) and `m_on_existing_action` (`policy`). The root of a
  Config is held by value in it, so its address is the Config.
- A `Shared<Base>` is an address. Every step ends in `Commit`, which sets to `Null`
  whatever neither a Config nor the client refers to any more: that is what the
  reference counts do, and it is recomputed rather than counted. Counting and
  reaching differ only for items in a cycle, which reference counts never free;
  the model frees them once unreachable, which no later call can observe.
- `policy` is `Config::m_on_existing_action`; the root's own copy is in the heap. A client gives
  one of the enum's three (`Policies`); only a binary file may bring another number, which `AnyPolicy`
  has as `"other"`. The switch of `BeforeAdditionActions` has no case for it, so that `PlaceIn` adds the item
  all the same, whatever it collides with.
- `hand` is the one item the client keeps outside any container: a local object or
  a `PointerType`. `AddPointer` shares it, `AddCopy` adds a clone, `AddMove` moves its
  contents into a new item and leaves it nameless and empty before anything is
  checked, as `Base::Move` does.
- `ret` is what a call answered: a reference, or the class of its exception.
  `Return` gives it to the client, which only then makes the next call.
- `import` is the loop of `Config::operator<<(const Config&)`. It takes a step per
  item, because an exception ends it between two items.
- `mutated` is a history variable: the containers that have held an item renamed or
  given another payload in place. The library re-checks nothing after such a
  change, so uniqueness is claimed of the other containers only. A container that
  takes the contents of another takes its mark with them (`Passed`).
- Every way to change an item in place is an action: `Rename`, `SetValue`, `SetText`, `Assign`, `AssignMove`
  and `SetOnExistingAction`. An item is not moved into itself: what that leaves of a vector or a
  string is the standard library's.
- Comments are items of kind `Comment`. Their three syntaxes are one kind, because no operation
  modelled here tells them apart. The C++ kinds `Integer`, `Double`, ... are `KindOf` of a payload.
- Names are of three classes: valid (`Names`), not empty but invalid
  (`OddNames`), and empty (`NoName`). A path is a sequence of segments that are indexes
  or names; segments that are numbers too large for `int` are out of bounds in the code
  and in the model.
- A moved-from value keeps its payload, as a number does; what is left of a moved
  string belongs to the Base library.
- `Exists`, `Count`, `Size`, `Items` and `==` change nothing and are not actions.
- Adding a null pointer throws before anything happens and is left out.

Preconditions the code does not check and the model assumes: a pointer or a moved
item is not added to itself or to what is below it (`NotUnder`); a client that
does so has asked for a cycle. Copies are different: their documentation promises
a copy, so whether they may be nested is the constant `MayNest`, and the run
`nested_in_itself` sets it. `config << config` is excluded (`c # d`): it appends to
the vector it iterates, which is undefined behaviour.

### How `TextRead` and `TextMeaning` correspond to the code

- `frames` is the C++ stack of the recursive `Parser::Parse`, the outermost activation
  first: the container it fills, its mode, and where its loop is (`want`: an item,
  the `=` after a name, or what the name stands for). `level` is `m_container_level`, which the code
  counts on its own; that the two agree is part of `TypeOK`.
- The code parses a nested container into a local `Group` or `List`, names it, and then moves it
  into an item of the tree. Nothing refers to the local one but the
  activation, so the model gives it its final address when its bracket opens and puts
  it into the container around it when a bracket closes. `Settled` keeps it
  alive as long as an activation holds it (`Locals`), and frees it when the read fails.
- The document is chosen token by token (`ReadToken`), so that every text is covered. `Value`
  stands for String, Binary, Integer, Double and Bool tokens, between which the parser does
  not tell; `Bad` for an Unknown token and for one that no value can be made of. Where the
  code asks for a token and cannot go on with what it gets is `Unexpected`. Either
  closing bracket closes whatever is open, as in the code.
- A comment where an item may start has no name; after `name =` it takes the name.
- A `ParseError` returns through all activations (`Fail`) and reaches the failure hook. An
  exception of `Add` is caught nowhere and leaves the read at once (`Deliver`): the failure hook does
  not hear of it. A failure hook answers whether the error is thrown or swallowed, or throws.
- A hook gets the root group. `HookBody` lets it do nothing, empty the root, set the
  root's policy, add a value by the root's policy, or throw, and no hook does two of these in one call. A
  null pointer among the hooks is skipped; a hook without a function does nothing.
- `action` is `c_on_existing_action`, copied from the Config before the hooks run; so a
  hook that sets the policy of the root does not change how the document is read.
- `read`, `origin`, `calls` and `reads` are history variables.
- `DocumentMeaning` says what a document means in another way than a parser does: it finds
  brackets by counting, makes a tree of each item, and keeps those that the policy
  keeps, all at once (`Kept`). `Viable` and `IsDocument` say in the same way which
  sequences of tokens begin a document and which are one.
- `ReadContract` is the read as its client may rely on it. The parse is one step there: it adds all of
  a document, or all before the first token that no document goes on with, or all before an item that
  `Add` refuses for cause (`Refuses`). What hooks do in between is theirs, but that each is called
  once and in order, that an after hook sees the whole document, and that no answer but a failure
  hook's hides an error, is the contract.

A hook that registers hooks on its own Config would grow the vector that is
being iterated; that is undefined behaviour and is not modelled.

### How `Tokenizer` corresponds to the code

- The stream delivers a character when one is needed (`Deliver`) or ends (`End`): `get` and `peek`
  wait until they can answer, and the tokenizer is never more than one character ahead.
- A step is an iteration of a loop, or the part of an iteration after a `peek`. `mode` names the
  loop: `after_b`, `after_slash`, `after_e` and `after_star` are the four places where the code
  looks ahead. Where it puts a character back, the character was not taken.
- A character stands for its class: `0` for the digits, `x` for a letter of no meaning,
  `n` for one that is also an escape, `?` for any other. `true` stands for the letters of a
  keyword; after a backslash it is the escape `t` and three letters more.
- A token is its type, its line and its span; a comment's type is its `CommentType`. `Unknown` is
  the error token of an unclosed string, binary literal or comment and of an invalid escape too. The
  parser asks for no token after `Unknown` or `EndOfFile`, so neither does the model.
- `text` and `tokens` are what has been delivered and returned since the beginning.

The header says that `line` is where a token starts. It is where it ends for strings and
binary literals of several lines and one more for a single-line comment; the parser
cites it in messages about the former. `TokenStream` promises what is true of all: a line that the
token touches, the one after a comment of one line included.

`TokenStream` knows no loops. A token there is the longest text of its type from the next character that
is not blank (`IsLexeme`), an error token is for a place where none begins, and none is handed over
before it is certain (`Settles`), which takes a character of lookahead for some types and none for
others.

### How `TextFormat` and `TextLoad` correspond to the code

- `Written` is the virtual `Serialize`, by class; `Text` is `Config::Text`, which the text mode of `Save`
  and the output operators write. A document is its items with their values as text: for numbers
  what `std::format` writes, for binary data its Base64, both the libraries' work.
- `ValueOf` is what the loops of the tokenizer gather in `value`: strings without their
  escapes, comments without what opens and ends them.
- A tab is a blank like any other. The loop over the lines of a comment puts back what
  `getline` takes, a line end at the end too, so it adds nothing to the text and is left out of `WrittenComment`.
- `TextLoad` takes the actions of `Tokenizer` and `TextRead` as they are. The tokenizer moves while the parser waits
  for a token; the step that returns one is the step in which the parser uses it (`Read`), through `Given`:
  an identifier brings its name, a value token the payload that `stoi`, `stod` or `Base64Decode` makes
  of it, or none (`Bad`). The new Config has no hooks and the policy `ThrowException`.
- A number is its text up to what two texts of one number differ in here: the forms of zero, and the
  `.0` of a double. `n` stands for the letters of `inf` and `nan`, `320` for the digits of an exponent that
  makes a double too small for `stod`, which throws. The exponent of a number is never `E`.
- The parser takes the free address that comes first (`SomeFree`): addresses do not show.

`Fits` says which documents the format can hold, and `SavedIsLoaded` that these and no others are
loaded as they were saved. Not held are strings with a quote or a backslash, which nothing escapes; comments that hold
their own end; infinite, undefined and subnormal doubles; items called `true` or `false`, which are valid
names; items whose name is invalid, missing or taken, as renaming may leave them; lists with a named item or with two equal ones; and
whole doubles whose name has an e in it, which become integers (`saved_doubles`). The name of a
comment is not written, and no document is refused for it.

### How `BinaryFile` and `BinaryRoundTrip` correspond to the code

- A file is a sequence of fields, one per `Serializable`: what it is and what it holds. The bytes
  within a field are the Base library's; the model assumes that it decodes what it has encoded
  and refuses a field that is not all there.
- `Written` is the recursion of `WriteContainer` and `WriteItem`. A comment's type and text are
  one payload.
- A saved file may be cut anywhere, between two fields or within one, be prolonged, or hold
  something else in one of its fields (`Instead`): another magic, version, name, container kind or
  count, another policy, a number that is none of the enum's included, another payload of the same kind, or an
  unknown type. The reader checks the kinds of items, containers and comments; the policy it takes as it is
  (`ReadRoot`), and with one that is none of the three the root keeps both items of a name:
  `LoadedNamesUnique` says that it does not, and `stray_policy` shows that it does. A container below the root
  is filled before it is given any policy but `ThrowException`, so `LoadKeepsUnique` claims uniqueness of all of those,
  of the root under the three policies, and valid names of all.
- `frames` is the C++ stack of `ReadContainerInto`: the container and how many items it still
  wants. A nested container is named when it is opened and added when it is complete, as in
  `ReadItem`, with the policy of the container it goes into. A leaf takes one step.
- Any error, an exception of `Add` among them, is the `DeserializeError` that `Load` returns
  (`Refuse`). What had been built is freed with the activations.
- The client makes the document with `Add`, `Remove`, renaming and assignment of what is in it;
  `Document` has the other calls, which make no other trees.
- The text modes of `Save` and `Load` are `TextFormat` and `TextLoad`.

## Runs

| Run | Question | Bounds |
|---|---|---|
| `groups` | Are names unique and found, is there no cycle, does a refused call change nothing, does `Remove` leave nothing under the name it removed, does no `Add` refuse, drop or reorder a comment? | one Config, three items, one name, values, comments and groups, two policies, two items per container, paths of two segments, each the name or the index 0: enough for a clone of a nested group, a shared child and a collision at once, or a comment beside a value that `Overwrite` replaces |
| `lists` | Are the values of a list distinct, NaN apart? Nested lists? | three items, two payloads |
| `import` | Is sharing sound, has an import delivered what it passed over, are names unique whatever is imported, do the two policies agree, and does an import end? | two Configs that share items, three values under a valid, an invalid and no name, all policies; no symmetry, which liveness does not allow |
| `read_document` | Which texts are accepted, what is in the root after every token, which items are refused and why? | every text of up to ten tokens that makes at most three items at a time, one valid and one invalid name, two payloads of which one is NaN, all policies, one read, no hooks |
| `read_hooks` | Which hooks have run when a read is over? Is a read what its client may rely on (`ReadContract`)? Does it end? | two reads of three tokens, two items, a before hook, an after hook and a failure hook, each there, null or missing; no symmetry |
| `tokens` | Does the tokenizer implement `TokenStream`, is no character lost, are lines counted, is every load answered? Is a saved document loaded as itself? | six beginnings (an item of the root or of a list, a number, a string, a binary literal, a comment, blanks) and up to four more characters of fifteen, with every class of which two loops differ; and some 740 saved documents: each kind of value and comment under valid, invalid and no names, every string and comment of up to two of the characters that matter, and pairs of items in groups and lists; four items, twenty tokens |
| `binary` | Does a load bring back what was saved, is a cut file refused, are names and values unique after a load whatever the file, the root under a policy that is none aside? | up to three items, two per container, one name, two payloads of which one is NaN, two policies; files of up to two items are damaged |
| `stray_policy` | The header says that a load answers a collision policy, which says what becomes of two items of one name. It takes any number for one, and keeps both. | up to two items, values and groups, two names |
| `saved_doubles` | The changelog says whole doubles keep a `.0`. Under a name with an e they do not. | the saved documents of `tokens` |
| `nested_policy` | The documentation says nested containers inherit the policy of the root. They do not. | as `groups` |
| `shadowed_key` | The README says an added item can be looked up. A comment of that name may answer. | values and comments |
| `nested_in_itself` | The README says `Add` copies. The copy of a group shares its children, so a group may come to contain itself. | as `groups`, `MayNest` |

`stray_policy`, `saved_doubles`, `nested_policy`, `shadowed_key` and `nested_in_itself` are expected violations; PROJECT.json
quotes the sentences.

One name is enough wherever uniqueness is the question: a collision needs two
items of one name, and names only ever meet in pairs. Two items per container are enough
for an `Overwrite` that removes one of two; that comments keep their order in longer
containers is what `CommentsSurvive` proves.
One payload is enough where no property is about payloads. Deadlock is checked in
every run but those of `MCTextLoad`: a client that holds nothing can always make another call.

Ten tokens hold a group in a list in a group, closed at every level, and two items of one name
with a nested container between them; three items are enough for a collision below the root. What hooks add to this does not depend on
how the text is nested, so `read_hooks` uses texts just long enough to add one item or to fail, and
reads twice: the second read meets what the first one and its hooks have left.

Seven characters hold the shortest comment of stars, `/***/`, one of two lines, an escaped
quote in a string, a number with a signed exponent, two tokens with a line end between
them, and an item of the root that is complete. No document saved makes more than four items or twenty tokens. Three items are enough for a list or group below the root whose two items have become equal, which
is what `Load` refuses; a file has then up to twenty fields, and the damage of one is met
already in those of two items. `tokens` and `saved_doubles` stop at the last token, so their deadlocks are not
errors. `groups` follows no index above 0 in a path; `RemoveIndex` takes any, and so do the
paths of the other runs.

Fairness: `WF_vars(Step)` in `Tokenizer`, `WF_loadVars(LoadStep)` in `TextLoad`, `WF_vars(ImportStep)` in `Document` and `WF_vars(ReadStep)` in `TextRead`, and no
more. A stream is not obliged to deliver or to end, and `LoadEnds` says
nothing unless it ends. The abstract specifications state no fairness: they say what may happen, and
`LoadEnds` and `ReadEnds` that it does. A call that has been entered runs to its end in the caller's thread; nothing
obliges the client to make another. Documents are finite: `MaxTokens` bounds
their tokens, and the tokenizer answers end of file from then on.

## Proofs

Everything below holds for any sets of Configs, items, names and payloads and any
bounds, from the assumptions named in `Items`, `Document`, `TextRead`, `Tokenizer` and
`BinaryFile` (addresses, names and payloads are disjoint from their null values; the client's
kinds, policies and hooks are the library's; the Configs named are Configs; the bounds are
numbers; addresses are finitely many; the tag of a value is not that of a container or a comment). `NothingHoldsItself` assumes one thing more, and says so.

The runs and the theorems are about the same definitions. A theorem needs a stronger invariant
than the property it states. Each was checked by TLC on a run of its component before it was proved,
`Delivering` and `Restoring` excepted: they say that there is a sequence of positions, or a document, and
TLC cannot look for one. What they are needed for, it has checked.

`DocumentProofs`:

- `Soundness`: the invariant `Sound` is inductive. `Sound` is: the heap is well typed
  (`WellTyped`), what an item refers to is allocated (`Closed`), so is the client's item, and
  the other variables have their types.
- `TypeCorrect`: `TypeOK` follows.

Type correctness alone is not inductive: following a path or copying an item reads
the item at an address found in `m_items`, which has a type only if it is allocated. So the two
are proved together. The argument has three layers: lemmas about sequences
(`RemoveAtIsErase`, `FirstClashFound`) and about reachability (`ReachClosed`);
lemmas that each way to build a heap keeps it sound (`PutItem`, `PutKids`, `CopySound`,
`MovedFromSound`, `EraseSound`, `AddToSound`) and that `Commit` does
(`SettledKeeps`, `CommitSound`): what is kept is closed under reference, so nothing
kept refers to something destroyed; and one lemma or case per action.
`AddToOutcome` says what `Add` can do to a heap and is where the rest starts: it leaves it as offered or
puts the item behind those that stay, whatever the policy (`Enlarged`), and under one of the three, none of those that
stay collides with it (`Grown`). The lemmas that files need are stated for `AnyPolicy`, the others for `Policies`.

On top of that, still in `DocumentProofs`:

- `Uniqueness`: `Unique`, that is `Sound` and `Neat(heap, mutated)`, is inductive. A
  container is `Tidy` if two different positions never hold colliding items and every item
  that is not a comment has a name the container accepts; a heap is `Neat` if every
  container not in `mutated` is.
- `NamesStayUnique`, `ValuesStayDistinct`, `KeysAreFound`: `UniqueNames`,
  `DistinctListValues` and `KeysResolve` follow.

The three properties are not inductive by themselves: they speak of positions, and an `Add`
that overwrites moves every item behind the erased one. `Tidy` is stated on
positions so that erasing (`TidyGrown`) and appending are separate facts. Whatever is
written to an item that no container holds disturbs no container (`NeatTouch`, `HeldByNone`);
whatever is written to a held one marks its holders first; the mark travels
with the contents (`NeatCopy`, `NeatMoved`), which is why `Passed` is needed; and `Add`
refuses exactly the items that would make its container untidy (`NeatAdd`). What
`Settled` destroys, no remaining container holds.

And from `Sound` and `Unique`, about what calls leave behind:

- `RefusalsLeaveNoTrace` (`RefusedCallKeepsContents`), `CommentsSurvive` (`CommentsSurviveAdds`) and
  `RemovedNamesAreGone` (`RemovedIsGone`) are action properties. They go by one fact per call: it
  either commits the heap that an `Add` to some container makes (`AddsItem`), or answers what the
  property is not about. What `Add` does was settled in `AddToOutcome`; `AddToAnswer` adds what each
  answer says of the heap. For comments the proof exhibits the map from old positions to new
  ones: the identity when an item is appended, one less behind an item that is erased (`CommentsMoveUp`).
- `RootsAgree` (`RootPolicyAgrees`): no call reaches the root of a Config but through the Config, since
  no item holds a root and the client's own item is none.
- `ImportsDeliver` (`ImportDelivers`) by induction on the loop: an `Add` of a later item keeps
  those delivered before it, for it erases only an item it clashes with, and two items of the source
  do not clash unless the source was changed in place.
- `NothingHoldsItself` (`Acyclic`) assumes `~MayNest`: that no copy of a container is added below
  the container itself. Without that the property is false, as the run `nested_in_itself`
  shows. The invariant is that no item is below itself (`Below`); an `Add` puts one item into one
  container and erases another, so a new cycle would run through that item, which is not above the container.

`TextReadProofs`, for documents of any length and depth:

- `ReadSoundness`: `ReadSound` is inductive. It is: the heap is well typed, closed and
  tidy everywhere (`Good`, for there is no change in place here); the activations are `Stacked`; and the
  rest of the state has its types, with an activation per open container (`Control`).
- `ReadTypeCorrect` and `ReadsStayUnique`: `TypeOK` and `ReadsKeepUnique` follow.

`Stacked` is what makes the induction work. An activation must find its container alive and of
the right kind after the inner ones have added to theirs, and closing a container
renames it and adds it: this is safe only because no item holds it
yet (`NameKeeps`) and no other activation fills it (`AddKeeps`). Hence the activations fill
distinct containers, and no container but the root is held by an item while an activation fills
it. `AddToKeeps` shows that `Add` brings nothing but the added item into a container,
and `SettledGood` that what is freed is never what an activation fills. The heap lemmas are those
of `ItemsProofs`, which `DocumentProofs` uses too.

`TextReadGrammar`, for documents of any length and depth and any number of hooks:

- `ParserDecides`: `GrammarDecides` follows from the inductive invariant `Grammatical`, which says of
  a parse that it has `Begun` what it read.
- `HooksFollowProtocol`: `HookProtocol` follows from `CallsInOrder`.

`Grammar` says of a whole sequence of tokens, by counting, whether it begins a document; the parser
knows one token and its stack. `Begun` relates the two: what was read is `Viable`; there is an
activation per bracket still open, in the mode that bracket is for (`Nested`); and the innermost
one waits for what the last token calls for (`Awaits`). From the grammar's side,
`ViableMore` shows that the conditions on the earlier tokens do not change when a token is added, so that
a document begun goes on with the tokens that fit (`Fits`), and `InListByMode` that the innermost
bracket by counting is the one of the innermost activation: a later one still open would make the depth too
large. `ExpectedFits` is then the heart of it: the tokens the parser expects there, with the two tests
of `m_container_level`, are exactly those that fit. `CallsInOrder` says which calls are due at
each position of the loops over hooks. `Called` is a recursive function over the hooks;
`RecursionExists` (see below) shows that it is the function its equation describes.

`TreesProofs` says what the operators of `Trees` compute. They are recursive functions, over depths or over
positions, and `RowsExist` and `InOrderUpto` show by `RecursionExists` that there are such functions.

- `TreeAtIs`: in a heap without cycles the tree of an item is the node of the item over the trees of its items. A
  tree is read to the depth of as many levels as there are addresses; a heap without cycles is one in
  which a rank goes down from every item to its items (`Descends`, `RanksBounded`), so deeper levels change nothing.
- `SameMeans`: there, two items are equal by `==` (`Same`) just when their trees look alike and have no NaN in them.
- `AllKept`: appending a tree to those offered to a container appends it to those kept, drops it, or takes
  one out, as the policy says.
- `AddTrees`: what `Add` does to the heap is, in trees, just that; and it throws just when it should (`Refusal`).

`TextMeaningProofs`, for documents of any length and depth, any number of hooks and all policies:

- `RootHoldsWhatIsRead`: `ReadDelivers`.
- `ReadsRefuseForCause`: `RefusedWithCause`.
- `ReadsKeepTheContract`: `Spec => ReadKeepsTheContract`, the refinement of `ReadContract`.

`DocumentMeaning` makes trees out of a whole document by counting brackets; the parser has a stack and
a heap. The invariant `Delivering` relates the two. The heap is without cycles, and a parse is `Underway`: the
brackets that are open have places in the document (`Spine`), one per activation; each activation
`Fills` the container for its bracket, that is, the container `Holds` exactly what is kept of the trees of the items that
are complete within that bracket; and the name that an activation holds is the one before its place
(`NamesNext`). A token then opens a bracket, completes an item, or is part of one: the lemmas on "one token later"
say how the meaning of a document grows with each (`Longer`, `MeaningsExist` and those that follow), and `DeliverStep`
that `Deliver` does the same to the container, by `AddTrees`. What is freed is nothing that an activation
fills or the root holds. `RefusesIs` puts the exception of the `Add` into the words of `Refuses`.

The contract follows from the two theorems and from `CallsInOrder`. A hook that is called is the one that is
due (`DueIs`, `HookMapped`); the client's calls map to the client's (`ClientMapped`); a token of the parse
stutters, unless it ends the parse, and is then `ReadText` (`TokenMapped`); the end of a read is the answer (`AnswerMapped`).
`StepMapped` collects them.

`TokenizerProofs`, for texts of any length:

- `TokenizerTypeCorrect`: `TypeOK` is inductive as it stands.
- `LinesAreCounted`: `LinesCounted` follows from `Counted`, which says the same in the middle of a
  token.
- `NothingIsLost`: `NothingLost` follows from `Gapless`, which adds where the token that is being
  read began and that no token ends after what has been taken: without these a token could begin
  inside the one before it.

All three go by `Shape`: a step takes one character or none, counts it unless it is the last of all,
and skips a blank, begins a token, goes on with it or returns it. `StepShape` shows it of each of the
sixteen actions; after that the character classes play no part.

Also in `TokenizerProofs`:

- `TokenizerKeepsThePromise`: `Spec => KeepsThePromise`, which is `TokenStream`'s specification with
  the identity as the mapping. Initial states map to initial states; a step that delivers or ends the stream
  is the same step there; a step that returns a token is `HandOver`; every other step stutters.

The work is in the step that returns a token: the text from its beginning must be the longest of its
type, and certain. The invariant `Reading` says for each loop what the characters taken so far are
the beginning of (`Reads`: a string without its closing quote, a number whose exponent has no digit yet, a
comment after a star, ...). Within a string it also carries whether the backslashes at its end
are even in number (`EscapedNext`), which is how `IsLexeme` says what the loop knows by skipping a
character. `ReadsKept` shows that what the stream delivers later changes none of this; after that there is
a lemma per loop. When no token begins at a place, `NoString`, `NoBinary` and `NoComment` rule out each
type by its first characters.

`BinaryFileProofs`, for files of any length, whatever has happened to them:

- `FileSoundness`: `FileSound` is inductive.
- `BinaryTypeCorrect` and `LoadsStayUnique`: `TypeOK` and `LoadKeepsUnique` follow.
- `CutsAreRefused`: `CutIsRefused`, from the invariant `Cutoff`.
- `LoadsRestore`: `LoadRestores`, from the invariant `Restoring`.

The plan is that of `TextReadProofs`: each activation of `ReadContainerInto` fills a live container
of its own that no item holds yet. Two things are different. The client of this module renames
items and assigns to them in place, so the heap is not tidy everywhere. `Good` therefore asks for a set
of items that covers what the loaded Config holds and what the activations of the loader hold, is
closed under reference, and is tidy together with that Config: a load adds to that set only. While the
client edits, the loaded Config is empty, so that the set may be too, whatever the client does.
The root is left out of what must be tidy when its policy is none of the three (`Beyond`), since `Add` then
checks names and nothing else; that they are valid is a conjunct of its own (`NamedFit`). This exception
cannot spread, because an activation below the root fills a container that still has the policy it was made with
(`Stacked`): `Add` changes the policy of the item it is given, which no activation fills any more (`AddTouches`).
And what is saved goes through `Written`, a recursive function:
`RecursionExists` builds, by a least counterexample among the numbers, the function that a recursion
over a number describes, and `WrittenPiece` shows in the same way that everything written is a field
with what belongs in it, so that what a load takes from an undamaged or damaged field has a type.

`CutIsRefused` needs to know when a file is complete, which no single state of a load shows. `Ledger` keeps
an account of a sequence of fields: a count adds the items it promises, and the last field of an item's own
takes one off. `WrittenPiece` also shows that the account of what is written of an item is never negative before
its last field (`Owes`), by concatenation (`OwesConcat`) and over the items of a container
(`FlattenOwes`). So a file that was cut owes at each of its fields (`CutOwes`), and `InStep` says that what
is owed where the cursor stands is what the activations still wait for (`Awaits`): when the root has all its
items nothing is, which a cut file never comes to. The other half, that nothing of a failed
load stays allocated, is `RefusedLeaves`; it is why `Control` says that no third Config holds anything.

`LoadRestores` compares the two ends of a load; `Restoring` says how far it has got in between. As long as
the client edits, the heap is `Proper`: well typed, closed, without cycles, and every item has the payload that its kind has. After
`Save` the file is that of the heap (`FileOf`). From then on there is a document that was saved: it is
still in the heap as it was (`Intact`), and no activation of the loader fills any of it (`Apart`). For a
whole file the load is `Loading` that document. Activation `k` fills the container for the container `y[k]` of the document
with exactly what is kept of the items of `y[k]` that have been read (`Filled`), and the items of `y[k]` behind the one the next
activation is at are `Laid` in the file, from where that activation will leave off (`Under`). At the end it is
`Restored`.

`WrittenIs` shows that the recursion of the writer, cut at as many levels as there are addresses, writes of an item its own fields
and then what it writes of its items; `LiesFlatten` and `ContainerLies` find these in the file.
So the next fields are those of the next item (`NextItem`; `RootItem` for the first of all), and each
step of the reader reads it: a lemma per step (`ReadRootReads`, `ReadLeafReads`, `OpenContainerReads`, `CloseContainerReads`,
`RefuseItemReads`, `EndLoadReads`). `DeliverLoads` is the addition, by `AddTrees`: if it succeeds the container
holds one item more of `y[k]`; if not, the document is not `Loadable` (`RefusedForCause`). In the other direction, a
load that comes to its end has refused nothing, so the document is `Loadable`. As the document is
intact, what is `Loadable` and offered is the same in the heap at the end (`IntactLoadable`,
`IntactOffers`).

Only model-checked:

- `SavedIsLoaded`. The text of a document and the meaning of a text are RECURSIVE operators over trees and
  characters in `TextFormat` and `TextLoad`, for which the prover has no backend. The proof would take the
  text of each lexeme through the tokenizer; its two halves are proved for themselves
  (`TokenizerKeepsThePromise`, `ReadsKeepTheContract`).
- Liveness under fairness (`LoadEnds`, `ReadEnds`, `ImportEnds`), which is out of the prover's reach.

## Plan

The models are complete, and every safety property and refinement that a run checks is proved, `SavedIsLoaded`
excepted. To prove that as well, `TextFormat` would have to be stated without RECURSIVE operators, as `Written` of
`BinaryFile` is.

Not modelled: how numbers and Base64 are formatted, printable type names, the wording of messages,
`Value` conversions, calls that fail for want of memory, and the Base library beyond what is said above. `config << config` and a hook that
registers a hook on its own Config are undefined behaviour and excluded. The README of the
repository, its tests and its build files are read as statements of intent.
