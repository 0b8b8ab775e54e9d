-------------------------------- MODULE Calls --------------------------------
(***************************************************************************)
(* What RpcProvider::run promises: a call by name takes exactly its        *)
(* arguments from the front of the queue of arguments and puts what the    *)
(* registered function makes of them at the end of the queue of results.   *)
(* A call of a name nobody registered takes nothing and answers nothing.   *)
(***************************************************************************)
EXTENDS Naturals, Sequences

CONSTANTS
  Items,      \* the values that can be arguments, with their types
  Names,      \* names of methods
  Functions,  \* what can be registered: [args, returns, body]
  None,       \* no function, no result
  Void        \* a function returns nothing

VARIABLES
  function,   \* the function behind a name
  arguments,  \* the arguments not taken yet
  results,    \* the results not taken yet
  last        \* the result taken last

vars == <<function, arguments, results, last>>

Init ==
  /\ function = [name \in Names |-> None]
  /\ arguments = <<>> /\ results = <<>> /\ last = None

Register(name, f) ==
  /\ function' = [function EXCEPT ![name] = f]
  /\ UNCHANGED <<arguments, results, last>>

Give(item) == arguments' = Append(arguments, item) /\ UNCHANGED <<function, results, last>>

ValsOf(items) == [i \in DOMAIN items |-> items[i].val]
TypesOf(items) == [i \in DOMAIN items |-> items[i].type]

Answer(f, vals) ==
  results' = IF f.returns = Void THEN results
             ELSE Append(results, [type |-> f.returns, val |-> f.body[vals]])

Call(name) ==
  LET f    == function[name]
      n    == Len(f.args)
      took == SubSeq(arguments, 1, n)
  IN  /\ f # None /\ Len(arguments) >= n /\ TypesOf(took) = f.args
      /\ arguments' = SubSeq(arguments, n + 1, Len(arguments))
      /\ Answer(f, ValsOf(took))
      /\ UNCHANGED <<function, last>>

(* Too few arguments: those there are are taken, and one of the answers    *)
(* the function gives to them and something else comes out.                *)
CallShort(name) ==
  LET f == function[name]
      n == Len(arguments)
  IN  /\ f # None /\ n < Len(f.args) /\ TypesOf(arguments) = SubSeq(f.args, 1, n)
      /\ arguments' = <<>>
      /\ \E vals \in DOMAIN f.body :
           SubSeq(vals, 1, n) = ValsOf(arguments) /\ Answer(f, vals)
      /\ UNCHANGED <<function, last>>

TakeResult ==
  /\ results # <<>>
  /\ last' = Head(results)
  /\ results' = Tail(results)
  /\ UNCHANGED <<function, arguments>>

Forget == arguments' = <<>> /\ results' = <<>> /\ UNCHANGED <<function, last>>

Next ==
  \/ \E name \in Names :
       Call(name) \/ CallShort(name) \/ \E f \in Functions : Register(name, f)
  \/ \E item \in Items : Give(item)
  \/ TakeResult \/ Forget

Spec == Init /\ [][Next]_vars
=============================================================================
