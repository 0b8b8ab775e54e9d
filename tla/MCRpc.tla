-------------------------------- MODULE MCRpc --------------------------------
(* Rpc for TLC: functions of none, one and two arguments, with numbers of  *)
(* several widths and signs, containers of containers and a void one; and  *)
(* what does not come back.                                                *)
EXTENDS Rpc, FiniteSets, FiniteSetsExt

NumType(width, signed) == [kind |-> "number", width |-> width, signed |-> signed]
SeqType(t)    == [kind |-> "seq", of |-> t]
SetType(t)    == [kind |-> "set", of |-> t]
MapType(k, t) == [kind |-> "map", key |-> k, of |-> t]
TupleType(ts) == [kind |-> "tuple", of |-> ts]
Str           == [kind |-> "string"]

int8   == NumType(1, TRUE)
uint8  == NumType(1, FALSE)
int32  == NumType(4, TRUE)
uint64 == NumType(8, FALSE)

Of(t, vals) == {[type |-> t, val |-> v] : v \in vals}

Function(takes, returns, domain, At(_)) ==
  [args |-> takes, returns |-> returns, body |-> [vals \in domain |-> At(vals)]]

(* The values of each type.                                                *)
Ints   == {-128, 5}
Rows   == {<<<<>>, <<-1, 2>>>>}
Tables == {{<<1, <<>>>>, <<2, <<9, 9>>>>}}
Marks  == {{-1, 70000}}

PlainItems ==
  Of(int8, Ints) \cup Of(SeqType(SeqType(int8)), Rows)
    \cup Of(MapType(int8, SeqType(uint8)), Tables) \cup Of(SetType(int32), Marks)

sum    == Function(<<int8, int8>>, int32, Ints \X Ints, LAMBDA v : 300 * v[1] - v[2])
report == Function(<<MapType(int8, SeqType(uint8)), SetType(int32)>>,
                   TupleType(<<int8, SeqType(TupleType(<<uint8, int32>>)), uint64>>),
                   Tables \X Marks,
                   LAMBDA v : <<-3, <<<<8, Min(v[2])>>>>, 300 + Cardinality(v[1])>>)
notify == Function(<<SetType(int32)>>, Void, {<<m>> : m \in Marks}, LAMBDA v : Void)
rows   == Function(<<SeqType(SeqType(int8))>>, SeqType(uint8), {<<r>> : r \in Rows},
                   LAMBDA v : [i \in DOMAIN v[1] |-> Len(v[1][i])])
answer == Function(<<>>, SetType(int32), {<<>>}, LAMBDA v : {42, -7})

PlainFunctions == {sum, report, notify, rows, answer}

StringItems     == Of(int8, Ints)
StringFunctions == {Function(<<>>, Str, {<<>>}, LAMBDA v : <<65, 66>>)}
NestedFunctions == {Function(<<>>, SetType(SeqType(int8)), {<<>>}, LAMBDA v : {<<1>>, <<2>>})}
MapFunctions    == {Function(<<>>, MapType(int8, int32), {<<>>}, LAMBDA v : {<<1, 2>>})}

(* The types of arguments and results with the types in them.              *)
RECURSIVE Within(_), Nested(_)
Within(t) == {t} \cup UNION {Within(u) : u \in Parts(t)}
Nested(t) == IF Parts(t) = {} THEN 0 ELSE 1 + Max({Nested(u) : u \in Parts(t)})

UsedBy(items, functions) ==
  UNION {Within(item.type) : item \in items}
    \cup UNION {UNION {Within(t) : t \in Range(f.args) \cup ({f.returns} \ {Void})} : f \in functions}

PlainTypes  == UsedBy(PlainItems, PlainFunctions)
StringTypes == UsedBy(StringItems, StringFunctions)
NestedTypes == UsedBy(StringItems, NestedFunctions)
MapTypes    == UsedBy(StringItems, MapFunctions)
DepthOf     == [t \in Types |-> Nested(t)]

(* The values of a type in a value of another.                             *)
RECURSIVE Inside(_, _, _)
Inside(t, u, v) ==
  IF u = t THEN {v}
  ELSE CASE Simple(u) -> {}
         [] u.kind \in {"seq", "set"} ->
              UNION {Inside(t, u.of, w) : w \in IF u.kind = "seq" THEN Range(v) ELSE v}
         [] u.kind = "map" -> UNION {Inside(t, u.key, p[1]) \cup Inside(t, u.of, p[2]) : p \in v}
         [] u.kind = "tuple" -> UNION {Inside(t, u.of[i], v[i]) : i \in DOMAIN u.of}

ValuesOf ==
  [t \in Types |->
     UNION {Inside(t, item.type, item.val) : item \in Items}
       \cup UNION {UNION {Inside(t, f.returns, f.body[vals]) : vals \in DOMAIN f.body} :
                     f \in {g \in Functions : g.returns # Void}}]

(* The types of the run come back.                                         *)
ASSUME PlainComeBack == Types = PlainTypes => ComeBack
=============================================================================
