----------------------------- MODULE Expressions -----------------------------
(***************************************************************************)
(* The expression language of the template documents (dsl/expression.py)   *)
(* and the guard predicates over it (dsl/guard.py).  Numbers are exact     *)
(* rationals <<numerator, denominator>> in lowest terms.  An operator that *)
(* raises in the code is None here.  A fixture maps the fields of a        *)
(* document to a number, to None, or to an array of items: [items |-> ..]. *)
(***************************************************************************)
EXTENDS Rationals, Sequences, FiniteSets, SequencesExt

CONSTANTS
    MaxDepth,      \* MAX_EXPRESSION_DEPTH
    MaxOperations, \* MAX_EXPRESSION_OPERATIONS
    MaxMagnitude   \* MAX_NUMERIC_MAGNITUDE

-----------------------------------------------------------------------------
(* Expressions: [node, value], [node, field, index, item] or [node, operands]. *)

Ref(field) == [node |-> "field_ref", field |-> field, index |-> None, item |-> None]

Item(field, index, item) == [node |-> "field_ref", field |-> field, index |-> index, item |-> item]

Arity(node) ==
    CASE node \in {"add", "multiply"} -> 2..4
      [] node \in {"subtract", "divide", "fraction"} -> {2}

\* What the schema of an expression demands.
RECURSIVE WellFormed(_)
WellFormed(e) ==
    \/ e.node = "literal"
    \/ e.node = "field_ref" /\ (e.index = None \/ e.index \in 0..11)
    \/ /\ e.node \notin {"literal", "field_ref"}
       /\ Len(e.operands) \in Arity(e.node)
       /\ \A o \in Range(e.operands) : WellFormed(o)

RECURSIVE Operations(_)
Operations(e) ==
    IF e.node \in {"literal", "field_ref"} THEN 0
    ELSE FoldLeft(LAMBDA n, o : n + Operations(o), 1, e.operands)

RECURSIVE Depth(_)
Depth(e) ==
    IF e.node \in {"literal", "field_ref"} THEN 0
    ELSE 1 + FoldLeft(LAMBDA n, o : Most(n, Depth(o)), 0, e.operands)

\* Every field reference of an expression, in the order a walk meets them.
RECURSIVE References(_)
References(e) ==
    CASE e.node = "literal" -> <<>>
      [] e.node = "field_ref" -> <<e>>
      [] OTHER -> FlattenSeq([k \in DOMAIN e.operands |-> References(e.operands[k])])

\* A reference reads a scalar, or one scalar of one item of an array.  An index
\* into a scalar compiles: only reading it fails.
ValidReference(contract, e) ==
    IF e.field \in DOMAIN contract.arrays
    THEN e.index # None /\ e.item \in contract.arrays[e.field]
    ELSE e.field \in contract.scalars /\ e.item = None

Compiles(contract, e) ==
    /\ Depth(e) <= MaxDepth
    /\ Operations(e) <= MaxOperations
    /\ \A r \in Range(References(e)) : ValidReference(contract, r)

Checked(p) ==
    IF p = None THEN None ELSE IF Magnitude(p[1]) > MaxMagnitude * p[2] THEN None ELSE p

IsArray(contract, field) == field \in DOMAIN contract.arrays

\* What a reference reads, or None where the code raises.
FieldValue(contract, e, values) ==
    IF e.field \notin DOMAIN values THEN None
    ELSE LET raw == values[e.field]
         IN  CASE ~IsArray(contract, e.field) -> IF e.index = None THEN Checked(raw) ELSE None
               [] raw # None /\ IsArray(contract, e.field) ->
                     IF e.index >= Len(raw.items) THEN None
                     ELSE LET found == raw.items[e.index + 1]
                          IN  IF e.item \in DOMAIN found THEN Checked(found[e.item]) ELSE None
               [] OTHER -> None

RECURSIVE Evaluate(_, _, _)
Evaluate(contract, e, values) ==
    CASE e.node = "literal" -> Checked(e.value)
      [] e.node = "field_ref" -> FieldValue(contract, e, values)
      [] OTHER ->
            LET p == [k \in DOMAIN e.operands |-> Evaluate(contract, e.operands[k], values)]
            IN  IF None \in Range(p) THEN None
                ELSE CASE e.node = "add" -> Checked(FoldLeft(Plus, <<0, 1>>, p))
                       [] e.node = "subtract" -> Checked(Minus(p[1], p[2]))
                       [] e.node = "multiply" -> Checked(FoldLeft(Times, <<1, 1>>, p))
                       [] e.node \in {"divide", "fraction"} ->
                             IF p[2][1] = 0 THEN None ELSE Checked(Over(p[1], p[2]))

-----------------------------------------------------------------------------
(* Guards: sequences of predicates [predicate, ...].                        *)

PredicateExpressions(p) ==
    CASE p.predicate = "range" -> <<p.value, p.minimum, p.maximum>>
      [] p.predicate = "positive" -> <<p.value>>
      [] p.predicate \in {"equals", "not_equals"} -> <<p.left, p.right>>
      [] p.predicate \in {"sum_equals", "product_equals"} -> Append(p.terms, p.total)
      [] p.predicate = "divisible_by" -> <<p.value, p.divisor>>
      [] p.predicate = "ordered" -> p.terms

GuardCompiles(contract, guard) ==
    \A p \in Range(guard) : \A e \in Range(PredicateExpressions(p)) : Compiles(contract, e)

InOrder(direction, a, b) ==
    CASE direction = "strictly_increasing" -> Less(a, b)
      [] direction = "strictly_decreasing" -> Less(b, a)
      [] direction = "non_decreasing" -> AtMost(a, b)
      [] direction = "non_increasing" -> AtMost(b, a)

\* Whether the values of its expressions satisfy a predicate, or None where it raises.
Satisfied(p, v) ==
    CASE p.predicate = "range" -> AtMost(v[2], v[1]) /\ AtMost(v[1], v[3])
      [] p.predicate = "positive" -> Less(<<0, 1>>, v[1])
      [] p.predicate = "equals" -> v[1] = v[2]
      [] p.predicate = "not_equals" -> v[1] # v[2]
      [] p.predicate = "sum_equals" -> FoldLeft(Plus, <<0, 1>>, Front(v)) = Last(v)
      [] p.predicate = "product_equals" -> FoldLeft(Times, <<1, 1>>, Front(v)) = Last(v)
      [] p.predicate = "divisible_by" ->
            IF v[2][1] = 0 THEN None ELSE Whole_(Over(v[1], v[2]))
      [] p.predicate = "ordered" ->
            \A k \in 1..(Len(v) - 1) : InOrder(p.direction, v[k], v[k + 1])

\* Whether a predicate holds, or None where the code raises.
Holds(contract, p, values) ==
    LET v == [k \in DOMAIN PredicateExpressions(p) |->
                 Evaluate(contract, PredicateExpressions(p)[k], values)]
    IN  IF None \in Range(v) THEN None ELSE Satisfied(p, v)

\* One predicate that raises makes the whole check raise: then none is blamed.
Blamed(holds) == IF None \in Range(holds) THEN {} ELSE {k \in DOMAIN holds : ~holds[k]}

FailingIndexes(contract, guard, values) ==
    Blamed([k \in DOMAIN guard |-> Holds(contract, guard[k], values)])

\* No predicate raises, and none fails.
GuardPasses(contract, guard, values) ==
    \A p \in Range(guard) : Holds(contract, p, values) = TRUE
=============================================================================
