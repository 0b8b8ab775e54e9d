--------------------------------- MODULE Rpc ---------------------------------
(***************************************************************************)
(* The calls of RpcProvider: registerMethod stores a function under a      *)
(* name, and run takes the arguments of the named function from one        *)
(* Serializer and writes its result to another.  Whoever fills and empties *)
(* the two is the caller.                                                  *)
(*                                                                         *)
(* A function is [args, returns, body]: the types function_traits finds in *)
(* its signature, and what it makes of a tuple of arguments.               *)
(***************************************************************************)
EXTENDS Serializer

CONSTANTS
  depth,       \* how deep each of the Types is nested
  Items,       \* the values that can be arguments: [type, val]
  Names,       \* names of methods
  Functions,   \* what can be registered
  Void,        \* the return type void
  None,        \* no entry in methods_, no result yet
  Empty,       \* the std::function that operator[] inserts
  MaxPending,  \* bound: arguments in the one serializer
  MaxResults   \* bound: results in the other

(* The types in a type.                                                    *)
Parts(t) ==
  CASE Simple(t) -> {}
    [] t.kind \in {"seq", "set"} -> {t.of}
    [] t.kind = "map" -> {t.key, t.of}
    [] t.kind = "tuple" -> Range(t.of)

(* What a variable of a type can hold, by what those of its parts take.    *)
CanHold(t, v) ==
  CASE t.kind = "number" -> v \in Numbers(t.width, t.signed)
    [] t.kind = "string" -> v \in Bytes /\ Len(v) \in Size
    [] t.kind = "seq" -> v \in Seq(Values[t.of]) /\ Len(v) \in Size
    [] t.kind = "set" -> v \in SUBSET Values[t.of] /\ IsFiniteSet(v) /\ Cardinality(v) \in Size
    [] t.kind = "map" ->
         /\ v \in SUBSET Entries(t) /\ IsFiniteSet(v) /\ Cardinality(v) \in Size
         /\ \A p, q \in v : p[1] = q[1] => p = q
    [] t.kind = "tuple" ->
         v = [i \in DOMAIN t.of |-> v[i]] /\ \A i \in DOMAIN t.of : v[i] \in Values[t.of[i]]

(* What the compiler sees to: types are finitely nested, variables hold    *)
(* values of their types, ...                                              *)
ASSUME TypesAssumption ==
  \A t \in Types :
    /\ t.kind \in {"number", "string", "seq", "set", "map", "tuple"}
    /\ t.kind = "number" => t.width \in {1, 2, 4, 8} /\ t.signed \in BOOLEAN
    /\ t.kind = "tuple" => t.of \in Seq(Types)
    /\ depth[t] \in Nat
    /\ \A u \in Parts(t) : u \in Types /\ depth[u] < depth[t]
    /\ \A v \in Values[t] : CanHold(t, v)

(* ... and so do arguments and results.                                    *)
Value(item) == item.type \in Types /\ item.val \in Values[item.type]

Result(f, vals) == [type |-> f.returns, val |-> f.body[vals]]

ASSUME RpcAssumption ==
  /\ MaxPending \in Nat /\ MaxResults \in Nat
  /\ None # Empty /\ None \notin Functions /\ Empty \notin Functions
  /\ \A item \in Items : Value(item)
  /\ \A f \in Functions :
       /\ f.args \in Seq(Types)
       /\ \A items \in [1..Len(f.args) -> Items] :
            TypesOf(items) = f.args => ValsOf(items) \in DOMAIN f.body
       /\ f.returns # Void => \A vals \in DOMAIN f.body : Value(Result(f, vals))

VARIABLES
  methods,     \* RpcProvider::methods_
  args,        \* the Serializer with the arguments
  results,     \* the Serializer with the results
  last         \* the result that was read last

vars == <<methods, args, results, last>>

Init ==
  /\ methods = [name \in Names |-> None]
  /\ args = Cleared /\ results = Cleared /\ last = None

-----------------------------------------------------------------------------
registerMethod(name, f) ==
  /\ methods' = [methods EXCEPT ![name] = f]
  /\ UNCHANGED <<args, results, last>>

(***************************************************************************)
(* runMethod: the arguments are read into a tuple, the function is applied *)
(* and what it returns is written.                                         *)
(***************************************************************************)
TookCopy(ts, b) ==   \* variant: the arguments are looked at, not taken
  [ReadAll(ts, b) EXCEPT !.rest = b]

Took(ts, b) == ReadAll(ts, b)

AnswerAlone(f, vals) ==   \* variant: cleared first, as if nothing waited
  IF f.returns = Void
  THEN UNCHANGED results
  ELSE results' = Written(Cleared, Result(f, vals))

Answer(f, vals) ==
  IF f.returns = Void
  THEN UNCHANGED results
  ELSE /\ Len(results.written) < MaxResults
       /\ results' = Written(results, Result(f, vals))

(* The caller wrote what the function takes.                               *)
runMethod(f) ==
  LET took == Took(f.args, args.buf) IN
  /\ IsPrefix(f.args, TypesOf(args.written))
  /\ args' = [buf     |-> took.rest,
              written |-> SubSeq(args.written, Len(f.args) + 1, Len(args.written))]
  /\ Answer(f, took.val)
  /\ UNCHANGED <<methods, last>>

(* The caller wrote too few numbers.  output takes what there is and       *)
(* leaves the rest of the number it returns uninitialized: the arguments   *)
(* that are missing have any value.  (A container whose length is missing  *)
(* is left out: its loop runs for any number of elements.)                 *)
runMethodShort(f) ==
  LET took == Took(TypesOf(args.written), args.buf) IN
  /\ IsStrictPrefix(TypesOf(args.written), f.args)
  /\ \A i \in Len(args.written) + 1 .. Len(f.args) : f.args[i].kind = "number"
  /\ args' = [buf |-> took.rest, written |-> <<>>]
  /\ \E vals \in DOMAIN f.body : IsPrefix(took.val, vals) /\ Answer(f, vals)
  /\ UNCHANGED <<methods, last>>

(* operator[] inserts an empty function for a name nobody registered;      *)
(* calling it throws std::bad_function_call.                               *)
run(name) ==
  IF methods[name] \in {None, Empty}
  THEN /\ methods' = [methods EXCEPT ![name] = Empty]
       /\ UNCHANGED <<args, results, last>>
  ELSE runMethod(methods[name]) \/ runMethodShort(methods[name])

-----------------------------------------------------------------------------
(* The caller's side.                                                      *)
WriteArgument(item) ==
  /\ Len(args.written) < MaxPending
  /\ args' = Written(args, item)
  /\ UNCHANGED <<methods, results, last>>

ReadResult ==
  /\ results.written # <<>>
  /\ LET type == Head(results.written).type
         read == Codec[type].read[results.buf]
     IN  /\ last' = [type |-> type, val |-> read.val]
         /\ results' = [buf |-> read.rest, written |-> Tail(results.written)]
  /\ UNCHANGED <<methods, args>>

Clear == args' = Cleared /\ results' = Cleared /\ UNCHANGED <<methods, last>>

Next ==
  \/ \E name \in Names : run(name) \/ \E f \in Functions : registerMethod(name, f)
  \/ \E item \in Items : WriteArgument(item)
  \/ ReadResult \/ Clear

Spec == Init /\ [][Next]_vars

-----------------------------------------------------------------------------
(***************************************************************************)
(* Properties.                                                             *)
(***************************************************************************)
Results ==
  UNION {{Result(f, vals) : vals \in DOMAIN f.body} :
           f \in {g \in Functions : g.returns # Void}}

Calls == INSTANCE Calls WITH
  function  <- [name \in Names |-> IF methods[name] = Empty THEN None ELSE methods[name]],
  arguments <- args.written,
  results   <- results.written

(* The types serializer.h lists, except for strings and for sets of        *)
(* anything but numbers: those two do not come back (see below).           *)
ComeBack ==
  \A t \in Types : t.kind # "string" /\ (t.kind = "set" => t.of.kind = "number")

(* After every call, each serializer holds exactly the bytes of the values *)
(* that are still to be read: a call that throws, one of a void function   *)
(* and one with too few arguments leave nothing behind that would be taken *)
(* for a part of the next argument or the next result.                     *)
BytesAreValues == HoldsWhatWasWritten(args) /\ HoldsWhatWasWritten(results)

(* The calls of a provider (rpc_provider.h:37) implement calls by value,   *)
(* one after the other: a function gets the values its caller wrote and    *)
(* the caller reads the value it returned, for numbers, sequences, maps,   *)
(* tuples and sets of numbers, however they are nested (serializer.h:      *)
(* 16-29).                                                                 *)
ImplementsCalls == Calls!Spec

(***************************************************************************)
(* What comments of the code say, and the code does not do.                *)
(***************************************************************************)
ComesBack(kind) == last # None /\ last.type.kind = kind => last \in Results

(* serializer.h:18 lists string among the types: one that is read was      *)
(* written.                                                                *)
StringsComeBack == ComesBack("string")

(* serializer.h:29 promises containers of containers: a set of them that   *)
(* is read was written.                                                    *)
SetsComeBack == ComesBack("set")

(* rpc.h:270: "find the type of the second parameter".  The description of *)
(* a map ends with that of its values.                                     *)
SecondTypeIsFound ==
  \A i \in DOMAIN results.written :
    LET t == results.written[i].type IN
    t.kind = "map" => findType[t] = <<Code(t)>> \o findType[t.key] \o findType[t.of]
=============================================================================
