# TLA+ models of opcua-asyncio's custom structures, tools, crypto helpers and example server

These modules model four parts of `src/`:
- the part that turns a server's type dictionaries into Python classes at run time: `src/asyncua/common/structures.py` and the `uageneratestructs` tool;
- the command line tools of `src/asyncua/tools.py`: `uawrite` and `uals` each in detail, and `uaread`, `uasubscribe`, `uaclient`, `uadiscover`, `uahistoryread`, `uacall`, `uageneratestructs` and `uaserver` in one module for their shared try/except/finally skeleton;
- the certificate and key-derivation helpers of `src/asyncua/crypto/uacrypto.py`: `x509_from_der`, `p_sha1`/`p_sha256`, `load_certificate`, `load_private_key` and `check_certificate`;
- the threads of `src/examples/sync/server-example.py`.

The README also surveys the rest of `src/` and plans the modules still to come.

## The system and how its parts interact

| Part | Code | State | Operations |
|---|---|---|---|
| Schema model builder | `StructGenerator._make_model`, `EnumType`, `EnumeratedValue`, `Struct`, `Field` | `self.model` (list of EnumType/Struct) | `make_model_from_string`, `make_model_from_file` |
| Code emitter | `EnumType.get_code`, `Struct.get_code`, `save_to_file`, `_make_registration`, `set_typeid` | the Struct objects (get_code changes them), the output file | as named |
| Dynamic class loader | `_generate_python_class` | the namespace dict it execs into (`structs_dict`, or `ua.__dict__` itself) | helper injection, one `exec` per element |
| Remote loading | `load_type_definitions`, `load_enums`, `_get_enum_values`, `_get_enum_strings` | locals `structs_dict`, `generators`, `model`, `c`; shared `ua` module and the extension-object registry | asyncio coroutines with awaits on remote browse/read calls |
| Registry | `ua.register_extension_object` (outside `src/`) | name→typeid, typeid→class, `ua.<name>` | register |
| Defaults | `structures104.get_default_value`, `clean_name` (outside `src/`) | none | pure |
| CLI tools | `tools.py` | argparse namespace, a client connection | one coroutine per tool |
| Crypto helpers | `crypto/uacrypto.py` | none (pure functions over bytes and keys) | certificate load/parse, key derivation, sign/encrypt |
| Example server | `examples/sync/server-example.py` | server, a `VarUpdater` thread | start, update loop, stop |

They interact as follows:
- `load_type_definitions` reads each dictionary node's XML.
- It builds a `StructGenerator` for each node and execs the classes into one `structs_dict` that is shared by all the nodes.
- It binds each child descriptor that has a `HasDescription` reference to the class of the same name. It registers that class and calls `set_typeid`.
- It exposes the enums in `ua`.
- `load_enums` browses the Enumeration type's subtypes. It skips the names `ua` already has, builds EnumTypes from the EnumStrings/EnumValues properties, and execs them into `ua`.
- `uageneratestructs` calls `load_type_definitions([node])`, then `save_to_file(path, True)`.
- In the same process these coroutines can run as concurrent asyncio tasks. They interleave only at their awaits.

## Modules

- **`StructModel`**: pure operators for the data side.
  - The schema document is a sequence of records. Field names are abstracted to `[form, base]`, where the form is the prefix/suffix class that `_is_array_field` tests. A type name is `[prefix, local]`.
  - `FieldStep` is one iteration of the field loop. `MakeStruct` folds it over a struct (`FoldLeft`), and `MakeModel` does the two passes of `_make_model`.
  - `GetCode`/`EmitField`/`StructAfterGetCode` model `get_code`. The generated text becomes one record per field, with name, annotation, optional flag and default.
  - `MakeRegistration`, `AddHelpers` (the helper guards of `_generate_python_class`) and `SetTypeid` model the rest.
  - `GetDefaultValue` is the only definition modelled from the spec (4.2), because `structures104.py` is not under `src/`.
- **`StructGenerator`**: one generator object. A client may call `make_model_from_string`, `get_python_classes` (an exec may fail at any element), `save_to_file(register)` and `set_typeid` in any order, with the number of calls bounded. The variables are `model`, `env`, `file` and `raised`, plus the ghost `parsed`.
- **`TypeLoader`**: concurrent asyncio tasks, each a `load_type_definitions`, a `uageneratestructs` or a `load_enums`.
  - One action is one await returning, followed by the synchronous code up to the next await. Actions: `BrowseBinary`, `ReadXml`, `NodeChildren`, `DescriptorRefs`, `BrowseEnums`, `EnumProperties`, `ReadEnumProperty`.
  - Alternatively the await raises (`CallRaises`). A raise ends the task, since nothing in the code catches it.
  - The trailing synchronous work is part of the action that precedes it: the enum loop of `load_type_definitions`, the skip loop of `load_enums`, and the final `_generate_python_class` and `save_to_file`.
  - The shared state is `ua`, `extTypeids` and `extByTypeid`, the last two being the registry.
  - The ghosts are `regLog` (every registration with its task and node) and `failedDocs`.
- **`ToolArgs`**: pure operators for the tools' argument handling.
  - `NodeGiven` models `_require_nodeid`, and `BrowsePath` the `0:Root` stripping of `get_node`.
  - `ArgsToArray`, `Parses`/`Convert` and `ArgToVariant` model `_args_to_array`, the Python converters and `_arg_to_variant`.
  - `GuessVariant` is the guess branch. `ValToVariant` is the whole elif chain, whose fixed branches are the table `Branch`.
  - A VALUE text is the sequence of its comma-separated pieces. A piece is a member of small sets: the texts `int()`, `float()` and `NodeId.from_string` accept, and any other text.
- **`UaWrite`**: the `_uawrite` coroutine. One action per await: `ParseArgs`, `Configure` (outside the try), `Connect`, `GetNode`, `WriteDone`, `Disconnect` (the finally clause, whose `client.disconnect()` may itself raise: a traceback with status 1).
  - Every remote call may raise.
  - The synchronous `_val_to_variant` runs inside the action whose await precedes it.
- **`UaLs`**: `_uals` and the three `_lsprint_*` coroutines.
  - The chain of recursive awaits is a stack of frames `[node, depth, todo]`. Actions: `Connect`, `Browse` (the await of the children), `Visit` (one child: its value read, its line printed, and the recursive call when `if depth:` holds), `Return`.
  - Python's recursion limit is the named bound `RecursionLimit`. Reaching it is a `RecursionError` traceback.
  - With a single coroutine nothing interleaves, so printing one child per action changes no behaviour.
- **`UaTools`**: the other tool coroutines, as one state machine over a *plan*, the sequence of awaited calls a tool makes for a given command line.
  - `Parse` is `parse_args` plus the tool's own node checks (`ParseExit`: status 2 for `uageneratestructs` without `-n`, 1 for "no node given"). `SubscribeArgs` is the `i=84` → `i=2253` replacement of `_uasubscribe`; `StrToDatetime` is `str_to_datetime`, None when no format matches.
  - `UaReadPlan` … `UaGenerateStructsPlan` translate each `_uaX` body: which calls lie before the try (`zone = "pre"`), which inside it, which exceptions each may raise.
  - `Return` and `Raise` are one call returning or raising; `BodyDone` ends the try body; `Finally` is the finally clause (`disconnect`, or `async with`'s `__aexit__`) followed by `sys.exit(1)`, `sys.exit(0)`, the return, or the uncaught traceback (Ctrl-C: status 130). Its other disjunct, `CloseRaises`, is the disconnect raising: that exception replaces whatever was leaving the try. It is caught only where `async with` sits inside the try (`AsyncWith`, `uaclient`). `server.stop()` is local and is given no fault.
- **`UaCrypto`**: the pure helpers as operators, called by a harness whose only variable `last` holds the latest call's input and result.
  - `DerHeader` and `X509FromDer` translate the hand-written DER walk; `LoadDer` stands for `load_der_x509_certificate` (a single complete SEQUENCE loads, a certificate followed by more bytes raises `ExtraData`). The reference `LengthOf`/`FirstElement` decode X.690 lengths independently, by a RECURSIVE big-endian fold.
  - `PShaStream` (RECURSIVE) is the HMAC chain of `p_sha`, `PShaSplit` its key-splitting loop (`FoldLeft`); HMAC is an uninterpreted tuple, a digest a sequence of `[of, byte]` records. `RefA`/`RefByte` are RFC 2246's P_hash, byte by byte.
  - `LoadCertificate`, `LoadPrivateKey` (PEM or DER by suffix and extension argument) and `CheckCertificate` (its five error conditions) complete it.
- **`ServerExample`**: the main thread (`Setup`, `Start`, `VupStart`, `Call`, `Embed`, `VupStop`, `ServerExit`, `LoopExit`) and the `VarUpdater` thread (`Check`, `Post`, `Wait`, `Sleep`), sharing `stopev`, the ThreadLoop state `loop` and `server`. An exception in setup or in the calls jumps to the `__exit__` of the enclosing with block (`Raised`). `ThreadLoop.post` is outside `src/` (`asyncua/sync.py`): a post to a stopped loop raises `ThreadLoopNotRunning`. A write submitted while the loop runs is queued ahead of the loop's shutdown, so its future resolves (`Wait`).
- **`ExtensionRegistry`**: the abstract specification of what the loaders promise of `ua`'s extension-object registry. Its state is the two maps, name→typeid and typeid→class, where a class is seen as its name and the dictionary node it came from. Its only action, `Bind(d)`, binds a described type (a child of a dictionary node with a HasDescription reference) to the class that node's own XML defines, both maps in one step. `TypeLoader` instantiates it as `Registry == INSTANCE ExtensionRegistry WITH ...`, mapping `byName` to `extTypeids` and `byTypeid` to `extByTypeid` seen through each class's name and source. `RegistryRefinement == Registry!Spec` is checked as a PROPERTY. The module is written from the spec (4.4, 4.5) because `register_extension_object` lies outside `src/`.
- **`MC_StructGenerator`, `MC_TypeLoader`, `MC_UaWrite`, `MC_UaLs`, `MC_UaTools`, `MC_UaCrypto`**: the model values and inputs used by TLC.

## Runs

| Run | Config | Expect | What it shows |
|---|---|---|---|
| generator | `MC_StructGenerator.cfg` | pass | See below. |
| generator_encoding | `MC_StructGenerator_EncodingFirstAndUnique.cfg` | violation | After `get_python_classes` followed by `save_to_file`, a struct with optional fields has two Encoding fields. |
| loader | `MC_TypeLoader.cfg` | pass | See below. |
| loader_foreign_binding | `MC_TypeLoader_foreign.cfg` | violation | A descriptor of node n2 named like a class of node n1 (or like the helper `List`) is registered with that class. That step is not an `ExtensionRegistry` step, so `RegistryRefinement` fails. |
| enums_partial_commit | `MC_TypeLoader_partial.cfg` | violation | A failing `load_enums` leaves earlier enums in `ua`. |
| enums_stale_check | `MC_TypeLoader_stale.cfg` | violation | `load_enums` replaces an enum that `load_type_definitions` exposed after `load_enums`' `hasattr` check. |
| uawrite | `MC_UaWrite.cfg` | pass | See below. |
| uals | `MC_UaLs.cfg` | pass | See below. |
| uals_depth_zero | `MC_UaLs_depth.cfg` | violation | `uals -d 0` (or a negative `-d`) on a graph with a reference cycle: `if depth:` is true for every negative depth, so the walk ends in `RecursionError`, a traceback, although no call raised (`ListingEndsCleanly`). |
| tools | `MC_UaTools.cfg` | pass | See below. |
| crypto | `MC_UaCrypto.cfg` | pass | See below. |
| server_example | `MC_ServerExample.cfg` | pass | Whatever the main thread raises, once it has left both with blocks the process exits (`ProcessExits`), although `vup.stop()` never joins VarUpdater and an exception skips it. |

**What the generator run shows.** Over every order of calls, the model equals a per-field reference model (`ModelMatchesReference`):
- a marker flags exactly the next materialised field;
- Bit fillers vanish;
- the option counter counts the switch fields;
- enums come before structs.

Also, non-array enum fields default to a constructor of an existing member (`EnumDefaultsConstructMembers`).

**What the loader run shows.** This holds with four tasks interleaved (two `load_type_definitions`, one `load_enums`, one `uageneratestructs`) and any remote call possibly failing:
- a load that returns has registered every described struct its own document defines (`BindingComplete`);
- every enum of its `structs_dict` is exposed in `ua` (`EnumsExposedAfterLoad`);
- the loaders implement the abstract `ExtensionRegistry` (`RegistryRefinement`, see below).

**What the uawrite run shows.** Every sent value is the VALUE text as the options ask (`SentValueFaithful`):
- its VariantType is the one the choice names, or the guessed one;
- it is an array exactly when `--array` asks for one;
- its pieces are unchanged and in order.

The exit status is 0 exactly when the server acknowledged the write and the finally clause's disconnect returned, and a connect attempt is always followed by that disconnect (`ExitStatusReflectsWrite`).

**What the uals run shows.** With `-d 1` and `-d 2` over a reference graph that has a cycle, a clean exit prints exactly the reference listing, which is a RECURSIVE operator over the graph (`ListingMatchesReference`). `-d 0` and negative depths are the violation run `uals_depth_zero`.

**What the tools run shows.** For eight tools, every command line of the instance and every call raising or returning:
- a tool that connected has closed its session, and `uaserver` has stopped the server it started, before the process exits, on Ctrl-C in `uasubscribe`'s sleep loop and on uncaught exceptions too (`DisconnectBeforeExit`). The disconnect is awaited even when it then raises;
- the exit status is 0 exactly when the command line was accepted, every call of the plan returned and the closing disconnect did not raise (`ExitStatusReflectsCalls`). A disconnect that raises after a fully successful run ends in a traceback with status 1.

**What the crypto run shows.**
- `x509_from_der` returns None for no data, the first certificate of a chain (short-form, one- and two-octet long-form lengths), or an exception, exactly as the independent X.690 decoder says (`FirstCertificateOfChain`).
- `p_sha1`/`p_sha256` return, for each requested size, a key of that size, the keys being consecutive slices of RFC 2246's P_hash stream (`KeysAreConsecutivePHash`).
- `TypeOK` also states what each helper returns.

The findings (`PROJECT.json`) record what each violation means. Spec sections 4.3–4.6, 7 and 8 state the opposite of what the code does.

**Other divergences met while modelling.** These are deterministic: one command line or one input shows them, so they are kept here rather than as runs.
- `_val_to_variant` compares `args.datatype` with `'ByteString'`, `'xml'` and `'LocalizedText'`, which no argparse choice produces (`tools.py:230`). `uawrite --datatype bytestring` writes `DataValue(None)`.
- `Struct.get_code` compares the annotation `List['ua.Char']` with `List[ua.Char]`, which never matches (`structures.py:101`). A Char array is not emitted as String.
- `_make_registration` writes `NodeId.from_string('None')` for structs never bound (`structures.py:213`), and `uageneratestructs` saves with `register=True`.
- `_require_nodeid` treats an explicit `-n i=84` as "no node given" (`tools.py:82`), and `_uasubscribe -t event` replaces it by `i=2253`.
- `str_to_datetime` returns None for a text no format accepts (`tools.py:754`). `uahistoryread` then reads with a None start or end.
- `_uaread` never applies `--user`/`--password` (`tools.py:138`).
- `load_certificate` and `load_private_key` accept `extension="PEM"` but a `.PEM` file suffix goes to the DER loader (`uacrypto.py:53`).

### Bounds and why they suffice

**StructGenerator.**
- Documents hold one enum and one struct, in both orders, or are malformed.
- Struct bodies are up to 3 fields from an alphabet of 8:
  - each array-marker form;
  - the non-marker `__` form;
  - Bit;
  - an optional field;
  - an enum-typed field;
  - a Char field.
- Enums have 0, 1 or 2 values, including the member name `None`.
- `MaxDocs = 1` and `MaxCalls = 2`.

Two calls already reach every ordering pair that matters: get_code twice, set_typeid before or after save, a failing exec followed by a save. Three fields reach a marker followed by a filler followed by a field, and a marker followed by a field followed by a field.

**TypeLoader.**
- Four tasks: two `load_type_definitions` racing on the same registry, one `load_enums`, one `uageneratestructs`.
- Two dictionary nodes, with one "Opc.Ua" child that is skipped.
- Descriptors with and without references, including a name absent from the XML (`Ghost`).
- Three server enums: one present in `ua` initially, one using EnumStrings, one using EnumValues, plus a NamespaceUri property that is ignored.

The foreign configuration gives node n2 descriptors named after n1's struct and after the helper `List`.

**uawrite.**
- Inputs:
  - all 22 `--datatype` choices;
  - the three `--array` modes;
  - seven VALUE texts: an int, a float, a boolean word, a plain word, a NodeId, an int list and a mixed list;
  - four node/path pairs: the default root alone (refused), root with a `0:Root`-prefixed path, root with a missing child, an explicit node.
- Every branch of `_val_to_variant` and every try/except/finally path is reached.

**uals.**
- A four-node graph with a cycle, a readable and an unreadable Variable.
- Two start nodes, all three listing formats.
- `-d` of 1 and 2.
- `RecursionLimit = 4` is above the stack height that -d 2 needs (2 frames), so it binds only when the recursion runs away.

**tools.**
- 92 command lines over eight tools: no `-n`, the root `i=84` given explicitly, another node; a path or none; `--user`; `-t datachange`/`event`; `-e`; start/end times that parse or not; a method or none; values that convert or not; certificate and key options; `--network`; for `uaserver` every combination of certificate+key, `--xml`, `--populate` and `--shell`.
- `CallsMayFail` lets every remote call raise each exception the code distinguishes (`OSError`, `UaStatusCodeError`, Ctrl-C in the sleep loop), so every except, finally and traceback path is reached.

**crypto.**
- DER inputs: chains of one or two certificates with bodies of 1, 127, 128, 255 and 256 octets (both sides of the short/long and one/two-octet boundaries), followed by nothing, a dangling tag or an ASN.1 NULL; an empty SEQUENCE; a truncated certificate; no data.
- `p_sha` sizes: none, zero, one digest, one past a digest, several keys, with digests of 20 and 32 bytes.
- Every path kind and suffix, both contents, every extension argument; every certificate flag combination.

**server_example.** The model has no data: the five calls, the threads' program counters and the three flags. `SetupMayFail` and `CallsMayFail` reach every exit path of the with blocks; `Call` is bounded by the five calls of the code.

### Fairness and termination

Only `ServerExample` has fairness and a liveness property. The OS schedules every runnable thread, so the main thread and VarUpdater are each weakly fair (`WF_vars(MainStep)`, `WF_vars(VupStep)`). The `embed()` shell returns only when its user leaves it, so `Embed` has no fairness and `ProcessExits` is stated from `mpc = "ended"` on. The process may legitimately stop (`Terminated`).

`TypeLoader` has no liveness property. Its loops are Python for-loops over the finite lists a call returned, so termination would follow from the fairness alone; what could keep a task waiting is an await that never completes, and that belongs to the server, not to this code. `NodeModel` computes each node's `make_model` once, as a constant.

The other specifications have no fairness and no liveness property. Every loop in their code is bounded by the data it browses (and, in `uals`, by the recursion limit), and every task ends at `done`. `Next` allows stuttering once all tasks are done (`Finished`, `Done`) or, in the generator, once the call bound is reached, so CHECK_DEADLOCK is FALSE only for the generator. A generator object has no final state: a client may stop calling at any time. The `UaCrypto` harness may call a helper at any time.

## Not modelled, and why

- `ua.register_extension_object` and `get_default_value` are outside `src/`. Both are modelled from the spec and marked `spec_modelled`.
- `ThreadLoop.post` (`asyncua/sync.py`) is outside `src/`. `Post` and `Wait` model its call at line 71 with the behaviour described above: a future submitted to the running loop resolves.
- `clean_name` is the identity on the model's names.
- The header text, logging and the XML syntax are layout. `ET.fromstring` is either a document or `Malformed`.
- `uaserver`'s populate step and write loop are single steps of its plan: they make local calls that the code does not guard. Ctrl-C reaches the suspended coroutine as asyncio's cancellation, so the `except KeyboardInterrupt: pass` clause never runs. `UaServerPlan` models that path as an uncaught Ctrl-C, exactly as in `uasubscribe`.
- `server-example.py`'s `SubHandler`, `func` and `multiply` are print handlers and pure callbacks that the modelled threads never call.
- The printing helpers of `tools.py` (`_lsprint_*` apart, `print_history`, `_configure_client_with_args`' message texts) are formatting.
- In `uacrypto.py`, the sign/verify/encrypt/decrypt wrappers are one call each into the `cryptography` package: no control of their own to model. The certificate and key objects are abstracted to the flags `check_certificate` reads.
- In `uals`, the reads of `_lsprint_1`/`_lsprint_long` are not given a connection failure. Only connect and browse may raise, which already reaches both the caught path and the uncaught path.

## Plan for later modules

1. `StructGenerator` with `make_model` called twice on one generator (`MaxDocs = 2`). `set_typeid` binds only the first element of a name. The loaders never do this (one generator per node), and it needs a smaller field alphabet to stay within TLC's reach.
