# TLA+ models of slice2cs and the replicated IceStorm subscriber

These modules model two programs in this repository:

- `src/cpp/src/slice2cs/Gen.cpp`, the Slice-to-C# generator.
- `src/cpp/demo/IceStorm/replicated/Subscriber.cpp`, the replicated IceStorm subscriber demo.

For the generator, the thing with behaviour worth checking is the C# code it emits. That code has mutable collection classes. It also has CompareTo, Equals and GetHashCode methods, which the .NET collections rely on to be a total order and consistent with each other. It also has static operators that call each other. So the modules model the semantics of the emitted C# text, line by line from the `_out << ...` statements that produce it. Each value-type module keeps a heap of objects of the generated classes:

- a client call of a generated mutator is an action;
- a generated query is an operator;
- a property quantifies over every pair or triple of objects reachable by any sequence of calls.

## Parts of the system (inventory)

| Part | Code | State / operations | Module | Status |
|---|---|---|---|---|
| Generator driver | Gen.cpp 73-130 | output file; header; three visitor passes in order | SliceGen (`Open`: the output file opens or generation aborts; pass order and traversal), SliceGenOutput | modelled |
| OpsVisitor | 132-237 | `_Operations` interfaces of abstract classes | SliceGen | modelled |
| TypesVisitor classes/interfaces | 262-556 | declaration, base list, flattening of inherited operations; class CompareTo, GetHashCode, Equals over `base.CompareTo` | SliceGen (declarations), GenDataClass (comparison) | modelled |
| Sequence class | 558-731 | inner list; indexer set, Add, Insert, Remove; CompareTo, GetHashCode, Equals | GenSequence | modelled |
| Exception class | 733-855 | fields of every level of the chain; Equals and GetHashCode | GenDataClass, GenOperators | modelled |
| Struct class | 857-997, 1292-1296 | public fields (assigned by clients); CompareTo, GetHashCode, Equals | GenDataClass | modelled |
| Dictionary class | 999-1197 | Hashtable; indexer set, Add, Remove; CompareTo, GetHashCode, Equals | GenDictionary | modelled |
| Comparison operators, static Equals | 447-475, 507-509, 720-724, 845-849, 982-986, 1187-1191 | `==`, `!=`, `<`, `>`, `<=`, `>=`, static Equals | GenOperators | modelled |
| Enum and const emission | 1199-1290 | the constant's literal for every type: string escaping, long/float suffixes, `type.enumerator`; the enum declaration | ConstString | modelled |
| ProxyVisitor | 1298-1409 | Prx interfaces, two overloads per operation | SliceGen | modelled |
| Replicated subscriber demo | Subscriber.cpp 40-124 | manager replicas; topic retrieve or create; subscribe to every replica; unsubscribe | Subscriber | modelled |
| Slice parser, visitor framework, Output, type mapping | not under src/ | | modelled from the spec where needed (`isValueType`, `isAbstract`, `allOperations`, well-formed units) in SliceUnit and GenOperators | external |

How the parts interact:

- The driver runs OpsVisitor, then TypesVisitor, then ProxyVisitor over the parsed unit. Each visitor writes into the same output, and the names one pass lists as bases (`X_Operations`, `XPrx`) must be the ones another pass declares.
- The emitted classes interact at run time. A struct, sequence or dictionary whose member or element is a generated type calls that type's CompareTo, GetHashCode and operators. Every operator goes through the static Equals. A derived class's CompareTo calls its base class's through `base.CompareTo`.
- The demo subscribers share manager and topic replicas. Each subscriber interleaves retrieve, create, subscribe and unsubscribe with the others and with replica crashes.

## Modules

- **CsValues**: the C# facts shared by the value-type modules.
  - `Null` and `NullReference` are model values.
  - `MemberCompareTo` is `x.CompareTo(y)`. A null receiver throws, and a null argument sorts first.
  - `HashStep` is `(h << 3) ^ x`, wrapped at `IntWidth` bits. The width is 28 because TLC integers are 32-bit signed. No property depends on the wrap point.
  - `SortsBefore` is `Comparer.Default`, the order `Array.Sort` uses.
- **GenSequence**: `list[o]` is the inner `CollectionBase` list of each object.
  - Actions: `SetItem` (the indexer; an index out of range throws and changes nothing), `Add`, `Insert`, `RemoveValue` (`Remove`; an absent value throws and changes nothing).
  - A null never enters the list, because `OnValidate` rejects it.
  - `CompareFrom` is the generated loop with its length tie-break; `LexCompare` is the reference order of spec section 4.3.
- **GenDictionary**: `dict[o]` is the Hashtable as a function from keys to values.
  - Actions: `SetItem` and `Add` (both overwrite, because the generated Add uses the indexer), `RemoveKey` (a no-op on an absent key).
  - `EnumerationOrder` is the order `foreach` walks a Hashtable of small int keys: the buckets from last to first.
  - `SortedKeys` and `SortedValues` are `CopyTo` followed by `Array.Sort`; `KeyLoop` and `ValueLoop` are the two loops of CompareTo.
- **GenDataClass**: structs, classes and exceptions, the types whose values are records of data members. `field[o][t][i]` is member i declared at level t of object o; an object of a derived type has the fields of every level of its chain (`Chain`).
  - A new object has the C# defaults, because no generated constructor sets a member. `Assign` is a client store to an own or inherited public field.
  - `StructCompareTo` and `ClassCompareTo` are the generated CompareTo bodies: the null, same-object and `is` tests, then (for a class) `base.CompareTo`, then `MemberLoop` over the level's own members. `ObjectImplCompareTo` stands for `Ice.ObjectImpl.CompareTo`, which is not in this repository and is taken to return 0.
  - `ExceptionEquals` is the exception Equals: the same tests, then `m.Equals(other.m)` for the level's own members only. `GetHashCode` hashes the most derived level's own members, for all three kinds.
  - `RefCompare` over `Flatten` (all levels, base first) is the reference order of spec sections 4.3 and 4.5.
- **GenOperators**: the call graph of the generated methods as a call stack.
  - `Calls(m, t)` lists the call sites in the body of method m of type t, in order. A site reached on every path is always made; a site behind a data-dependent branch or loop may be skipped.
  - `Calls` dispatches on the kind: `StructCalls`, `ClassCalls` (CompareTo first calls the parent's CompareTo, then compares its own members), `SequenceCalls`, `DictionaryCalls`, `ExceptionCalls` (no CompareTo and no ordering operators). `OperatorCalls` and `StaticEquals` are the operators and static Equals every kind shares; `Methods(k)` is the set of methods a kind generates.
  - The module encodes the C# overload rule: `x == null` with x of a generated type T calls T's user-defined `operator==`. Only `(object)x != null` is a reference test.
- **ConstString**: `visitConst` and `visitEnum` as operators. The state is the constant's `type` and `value`, chosen in `Init` and never changed.
  - `Literal(t, v)` is what visitConst writes after `value =`. For a string, `ConstString` escapes each byte with `EscapeChar`: a byte of `basicSourceChars` is written as it is, any other as `\u` and four hex digits. A long gets `L` and a float `F` (`Number` abstracts the parser's text to the number and whether it is a real literal). An enum constant is `type.enumerator`. Anything else is the parser's text.
  - `EnumDecl(e)` is the enum visitEnum declares: the enumerators in order.
  - The reference is the C# compiler. `ReadLiteral` is its lexer on a regular string literal (simple escapes, `\x`, `\u`, no line breaks). `LiteralType` and `Converts` give the type of a number literal and the implicit constant conversions. `CsOrdinal` gives an enumerator's value. `ReadConst` combines them, and `SliceMeaning` is what the Slice constant stands for.
- **SliceUnit**: the Slice unit (`schema`), its well-formedness, the C# type names, and what the parser answers (`IsAbstract`, `AllOperations`), modelled from the spec because the parser is not under src/.
- **SliceGen**: the three passes of `Gen::generate` over a unit of class and interface definitions.
  - `pass` starts at `"open"`: `Open` is the constructor `Gen::Gen`, which either opens the output file and goes on to the operations pass or fails and aborts.
  - The state is the traversal cursor (`pass`, `i`, `at`) and `decl`, the C# declarations written so far. Each declaration has a kind, a base list and a set of methods.
  - One action per visitor callback: `OpsStart`, `OpsOperation`, `TypesStart`, `TypesOperation`, `TypesEnd`, `ProxyStart`, `ProxyOperation`; `Leave` is the end callbacks that only close text.
  - The unit is chosen in `Init` among every well-formed unit of three definitions, all local or all not. Each definition is a class or interface, with or without one operation, and has a base list of up to two earlier definitions.
  - `Ancestors`, `Members` and `ClassMembers` say what the C# compiler makes of the declarations.
  - The refinement mapping: `Finished` is the set of `<<pass, definition>>` pairs the cursor has moved past, and the abstract `decl` is `decl` restricted to the declarations of finished pairs, so a declaration being written across several callbacks stays hidden until its `visitClassDefEnd`.
- **SliceGenOutput**: the abstract specification of the generator's output. Each `Write(p, k)` writes atomically everything pass p produces for definition k (`OpsOutput`, `TypesOutput`, `ProxyOutput`, from spec sections 4.4-4.6), in declaration order within a pass; the passes may interleave in any order. Nothing of it reads what other passes wrote.
- **Subscriber**: `Subscriber::run` of the replicated IceStorm demo, run by several processes against independent IceStorm replicas. Each replica has its own topics, which is why `run()` visits every manager.
  - Shared state: `exists[r]` (the topic exists at replica r), `subs[r]` (the processes subscribed at r), `up` (the replicas that answer calls).
  - Per-process state: `pc`, `idx` (the iterator `p`), `interrupted` and `status`.
  - Actions: `Retrieve` and `Create` (the manager loop), `FindTopics`, `Subscribe`, `Activate`, `WakeUp` (`waitForShutdown` returns; the unsubscribe loop restarts at `topics.begin()`), `Unsubscribe`, `Finish`; `Interrupt` and `Crash` are environment events.
  - `interrupted[s]` records which interrupt policy was in force when the interrupt came. Before `shutdownOnInterrupt` (line 110), `Ice::Application` destroys the communicator (`"destroyed"`), so the process's later calls throw. Afterwards, while it waits or unsubscribes, the interrupt only shuts the communicator down (`"shutdown"`): `waitForShutdown` returns and the unsubscribe calls still reach the replicas.

Each `MC*.tla` module fixes the constants: small sets of natural numbers stand for ints and strings, objects are model values, under symmetry where objects of a class are interchangeable. `MCGenValueTypes` checks the value types of one Slice unit in one run. It extends `MCGenDataClass` (structs, classes, exceptions) and instantiates GenSequence and GenDictionary with `INSTANCE ... WITH`. The classes share no state and every property is about the objects of one class, so the reachable states of all of them together project onto exactly the reachable states of each alone. The run therefore explores one part at a time (`part` is `"data"` or `"containers"`, chosen in the initial state; the other part stays at its initial state), which costs the sum of the parts' state spaces instead of their product.

## Runs

| Run | Expect | Checks | What it shows |
|---|---|---|---|
| dictionary_hash | violation | EqualsHashConsistent | `{1->1,2->2}` and `{1->2,2->1}` are Equal but hash differently: the hash walks the Hashtable pairs (line 1163), while Equals ignores pairings. |
| dictionary_transitive | violation | CompareTransitive | `{1->2} < {1->2,2->2} < {1->1,3->1} < {1->2}`: the values are compared before the lengths (1102-1117). |
| value_types_order | pass | TypeOK, CompareIsRefOrder, EqualsHashConsistent, SeqCompareIsLexOrder, SeqEqualsHashConsistent, DictCompareAntisymmetric, DictPermutedAssociationsCompareEqual | Two objects each of `struct S { int; string; }`, `class D extends B` and `exception F extends E`, any field stores: wherever CompareTo returns it is the member order over all levels, base members first, null first; Equals implies equal hashes for objects of one type. `sequence<int>` objects, lists up to 3, any calls: CompareTo is exactly the lexicographic order (so total, antisymmetric, transitive), and Equals implies equal hashes. `dictionary<int,string>` objects: antisymmetry where CompareTo returns, and two dictionaries with the same keys and the same multiset of values compare equal, as spec section 9 says. |
| data_null_members | violation | EqualsNeverThrows | Two new objects with a null string member throw NullReferenceException from Equals: the struct and class CompareTo (lines 909, 433) call CompareTo on a null member when both are null, and the exception Equals (line 836) on any null member. |
| data_equals_symmetric | violation | EqualsSymmetric | A new `IB` equals a new `ID` (ID extends IB), but `ID.Equals(IB)` throws ArgumentException from the `is` test (line 412); exceptions likewise (line 830). |
| operators_recursion | violation | NoStackOverflow | `==`, static Equals, and the CompareTo and GetHashCode of a type holding a generated member recurse without bound (lines 509, 984, 904, 965); so do a class's `m == null` tests on a member of its own type and its CompareTo and GetHashCode over a generated member (lines 427, 490). |
| const_string | violation | LiteralKeepsValue | The constant `"` is written as `"""`, which the C# compiler rejects; a backslash in a constant is written unescaped and read as the start of an escape (line 1235). The numeric, boolean and enum constants are read back correctly. |
| subscriber_progress | pass | SubscribedTopicExists, LeakOnlyOnFault, RunEnds | Two subscribers, three replicas, up to two crashes, interrupts at any point. A replica holds a subscription only to a topic it has; a finished run leaves a subscription behind only if a replica went down or an interrupt destroyed the communicator before `shutdownOnInterrupt` (lines 106-110); every run reaches `waitForShutdown` or exits, and an interrupted run exits. |
| slicegen_contracts | pass | OperationsInterfaceComplete, ProxyOperationsComplete, ClassImplementsInterfaces, ImplementsOutputSpec | Over all 736 well-formed units: each `_Operations` and `Prx` interface has exactly the operations of its definition and bases (`Prx` in both overloads); each class declares a method for every method of every interface it inherits; and the traversal refines SliceGenOutput, so every declaration, base lists in order included, is what the output specification gives its definition. |
| slicegen_bases | violation | EveryBaseDeclared | A class with data members only lists `A_Operations` as a base (line 318), but OpsVisitor writes that interface only for abstract classes (line 161). The output does not compile. |
| slicegen_override | violation | OneOverrideSite | `interface A { void a(); } class B implements A {} class C extends B implements A {}`: C re-declares `a` as abstract (lines 346-382), deduplicating only among its implemented bases, though its parent B already declares it. C hides an inherited abstract method, which C# rejects (CS0533); spec section 4.5 promises one override site per operation. |
| slicegen_interface_bases | violation | InterfaceExtendsBases | `interface B {}; interface C extends B {};` gives `interface C : Ice.Object, C_Operations` without B: the loop that writes an interface's bases (lines 282-289) runs only when there are none, and it has no `++q`. The C# C is not a subtype of B. SliceGenOutput, like the spec, says nothing about an interface's bases and follows the code, so `ImplementsOutputSpec` does not see this. |

Every property of a passing run has a mutant in `PROJECT.json`: a plausible bug in a mapped definition (for example `ClassCompareToOwnFirst`, which compares a class's own members before `base.CompareTo`, or `ProxyBasesReversed`, which only `ImplementsOutputSpec` catches) under which TLC finds the property violated.

### Bounds

- **Value-types run, containers part:** two sequence objects (elements {1,2}, length up to 3) and two dictionary objects (keys {1,2}, values {1,2} and null). Every property is about pairs, and the objects are independent, so any two reachable values are a reachable pair; the two classes share no state, so the product adds no case. The transitivity counterexample run keeps three dictionary objects and three keys.
- **Value-types run, data part, and the data-class violation runs:** two objects each of a struct, a derived class and a derived exception, values {0,1} plus null: equal and unequal base members under equal and unequal own members, and null against value at every level. The symmetry run needs one base and one derived object of each chain, with int members so that no null hides the type test.
- **Operators run:** `StackLimit = 6` is deeper than any terminating call chain of the schema. `MaxElems = 3` unrolls each loop three times.
- **Const run:** every value of up to two bytes over a, u, t, the quote, the backslash, a line feed and 0xC3: the letters that begin escapes, the two special characters of the basic set, and bytes outside it. Besides strings: the numbers -32768, -1, 0, 255, 256 and 2147483647 for every numeric type they fit (the edges of byte, short and int), both booleans, and the three enumerators of `enum Color { Red, Green, Blue }`. TLC stops at the first string that breaks `LiteralKeepsValue`. With `MaxLen = 0` the same configuration covers only the empty string, and there the property holds for all 37 constants, every branch of `visitConst` included.
- **Subscriber run:** two processes and three replicas, with up to two crashes, so a replica can fail between any two calls of either loop and a second one after the first failure. Two processes are enough for the create race, whose loser must exit before it subscribes anywhere (`LeakOnlyOnFault`). The race itself is the outcome line 96 reports as a temporary failure, so no property forbids it.
- **SliceGen run:** three definitions give a base with two bases below it. That covers an abstract class above a class that implements an interface, and a class with both a parent and an interface.

### Fairness

Fairness is assumed only for Subscriber.

- The generated-code modules and ConstString check only safety properties.
- SliceGen checks safety only; `ImplementsOutputSpec` is a safety refinement (the abstract specification has no fairness). That generation ends is not stated: it depends only on the Slice visitor framework moving on after each definition, which is not part of Gen.cpp, and Gen.cpp's own loops are finite.
- In Subscriber, each process gets weak fairness on its own steps (`Step(s)`). `run()` is a single thread whose remote calls either return or throw, so it is never blocked forever.
- Interrupts and replica crashes get no fairness, because they may never happen. `RunEnds` therefore asks only that an interrupted process exits.

## Not modelled, and why

- **Exception Equals ignores base members (line 833).** It agrees with the exception GetHashCode, so no consistency property fails; the spec's wording on base delegation does not settle whether it is wrong.
- **`Equals(null)` of sequences and dictionaries (lines 713, 1180).** It throws without any state or sequence of calls behind it; the queries here are asked of objects of the class only.
- **Dictionary get of an absent key (line 1016).** The indexer casts `InnerHashtable[key]` to the value type; for a value type an absent key unboxes null and throws. The model's dictionaries are read only through the generated comparison methods, which visit present keys only.
- **Mutable struct keys (line 1020).** A struct used as a Hashtable key and then mutated is filed under its old hash. GenDictionary keys are immutable numbers, so a stale key is outside the model.
- **External parts.** The Output writer, the Slice parser and the type-mapping helpers are not under src/. They are modelled only where the generated semantics needs them.
