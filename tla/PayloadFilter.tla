---------------------------- MODULE PayloadFilter ----------------------------
(***************************************************************************)
(* vectorstore.Filter: what a condition means (MatchPayload), and what the *)
(* PostgreSQL and the Qdrant store make of it.                             *)
(*                                                                         *)
(* A payload maps keys to values; a value is a record of its type and what *)
(* it is: numbers are counted in halves, a list holds other values.        *)
(***************************************************************************)
EXTENDS Integers

\* The key is not in the payload.
NoValue == [type |-> "missing"]

\* payload[c.Key].
ValueFor(key, payload) == IF key \in DOMAIN payload THEN payload[key] ELSE NoValue

IsNumber(v) == v.type \in {"int", "float"}

\* valuesEqual: numbers of any type are compared as float64.
ValuesEqual(a, b) ==
    \/ IsNumber(a) /\ IsNumber(b) /\ a.is = b.is
    \/ a.type = b.type /\ a.type \in {"string", "bool"} /\ a.is = b.is

Compares(op, got, want) ==
    CASE op = "gt" -> got > want [] op = "gte" -> got >= want
      [] op = "lt" -> got < want [] op = "lte" -> got <= want

InRange(c, v) == IsNumber(v) /\ Compares(c.op, v.is, c.value.is)

\* Validate, once the key and the operator are known.
ValidCondition(c) ==
    CASE c.op \in {"eq", "ne"} -> c.value.type # "null"
      [] c.op = "in" -> c.values # {}
      [] OTHER -> IsNumber(c.value)

ValuesIn(c) == IF c.op = "in" THEN c.values ELSE {c.value}

\* "Supported value types are strings, booleans and numbers" (Condition).
Scalars == {"int", "float", "string", "bool"}
SupportedCondition(c) == \A w \in ValuesIn(c) : w.type \in Scalars

\* matchCondition, which MatchPayload asks for each condition.
MatchCondition(c, v) ==
    /\ v.type # "missing"
    /\ CASE c.op = "eq" -> ValuesEqual(v, c.value)
         [] c.op = "ne" -> ~ValuesEqual(v, c.value)
         [] c.op = "in" -> \E w \in c.values : ValuesEqual(v, w)
         [] OTHER -> InRange(c, v)

-----------------------------------------------------------------------------
(* PostgreSQL *)

\* payload @> {key: value}: jsonb compares numbers as numerics, and a list nested in
\* an object does not contain a scalar.
JsonContains(v, w) == ValuesEqual(v, w)

\* filterSQL.
SqlMatches(c, v) ==
    CASE c.op = "eq" -> JsonContains(v, c.value)
      [] c.op = "ne" -> v.type # "missing" /\ ~JsonContains(v, c.value)
      [] c.op = "in" -> \E w \in c.values : JsonContains(v, w)
      [] OTHER -> InRange(c, v)

-----------------------------------------------------------------------------
(* Qdrant *)

\* A condition on a list holds when it does for one of its values.
AnyOf(v) == IF v.type = "list" THEN v.is ELSE {v}

\* The condition eqCondition makes: an integer match finds integers, and there is a
\* range for a float.
EqCondition(v, w) ==
    \E x \in AnyOf(v) :
        IF w.type = "float" THEN IsNumber(x) /\ x.is = w.is
        ELSE x.type = w.type /\ x.is = w.is

IsEmpty(v) == v.type \in {"missing", "null"} \/ (v.type = "list" /\ v.is = {})

\* Variant: points that lack the key are not excluded.
QdrantMatches_NoIsEmpty(c, v) ==
    CASE c.op = "eq" -> EqCondition(v, c.value)
      [] c.op = "ne" -> ~EqCondition(v, c.value)
      [] c.op = "in" -> \E w \in c.values : EqCondition(v, w)
      [] OTHER -> \E x \in AnyOf(v) : InRange(c, x)

\* translateFilter.
QdrantMatches(c, v) ==
    CASE c.op = "eq" -> EqCondition(v, c.value)
      [] c.op = "ne" -> ~EqCondition(v, c.value) /\ ~IsEmpty(v)
      [] c.op = "in" -> \E w \in c.values : EqCondition(v, w)
      [] OTHER -> \E x \in AnyOf(v) : InRange(c, x)

-----------------------------------------------------------------------------
\* Where translateFilter departs from MatchPayload, in MatchPayload's own words: a match
\* of an integer does not find a float of that value; a list is found by a value in it;
\* and null, or an empty list, is taken for a key that is not there.
FloatForInteger(v, w) == v.type = "float" /\ w.type = "int" /\ v.is = w.is

ListHolds(v, w) == v.type = "list" /\ \E x \in v.is : ValuesEqual(x, w) /\ ~FloatForInteger(x, w)

QdrantDeparts(c, v) ==
    CASE c.op = "eq" -> FloatForInteger(v, c.value) \/ ListHolds(v, c.value)
      [] c.op = "ne" -> \/ FloatForInteger(v, c.value) \/ ListHolds(v, c.value)
                        \/ v.type = "null" \/ (v.type = "list" /\ v.is = {})
      [] c.op = "in" -> \/ /\ \E w \in c.values : FloatForInteger(v, w)
                           /\ ~\E w \in c.values : w.type = "float" /\ w.is = v.is
                        \/ \E w \in c.values : ListHolds(v, w)
      [] OTHER -> v.type = "list" /\ \E x \in v.is : InRange(c, x)
=============================================================================
