----------------------------- MODULE Parameters -----------------------------
(***************************************************************************)
(* The parameters document of a template (dsl/params.py), what its         *)
(* compiled class accepts, and whether accepted values are grounded in the *)
(* text of a problem (pipeline/grounding.py).  A document is a sequence of *)
(* field specs; a text is the sequence of its tokens, each a number or a   *)
(* word (a model value): numbers are compared by value, as the code does.  *)
(***************************************************************************)
EXTENDS Expressions

Numeric(spec) == spec.type \in {"integer", "decimal"}

NamesOf(specs) == {s.name : s \in Range(specs)}

\* field_contract_for: the shape of a document that expressions compile against.
ContractFor(document) ==
    LET arrays == {s \in Range(document) : s.type = "array"}
    IN  [scalars |-> NamesOf(document) \ {s.name : s \in arrays},
         arrays |-> [name \in {s.name : s \in arrays} |->
                        NamesOf((CHOOSE s \in arrays : s.name = name).items)]]

\* What the schema of a document demands.
ScalarSound(s) ==
    CASE Numeric(s) ->
            /\ AtMost(s.minimum, s.maximum)
            /\ s.default # None => AtMost(s.minimum, s.default) /\ AtMost(s.default, s.maximum)
      [] OTHER -> s.default # None => s.default \in s.texts

Distinct(specs) == Cardinality(NamesOf(specs)) = Len(specs)

DocumentSound(document) ==
    /\ document # <<>> /\ Distinct(document)
    /\ \A s \in Range(document) :
          IF s.type # "array" THEN ScalarSound(s)
          ELSE /\ Distinct(s.items) /\ \A item \in Range(s.items) : ScalarSound(item)
               /\ ~s.required => 0 \in s.sizes

-----------------------------------------------------------------------------
(* What the compiled class accepts.                                         *)

ScalarFits(spec, v) ==
    CASE spec.type = "integer" -> Whole_(v) /\ AtMost(spec.minimum, v) /\ AtMost(v, spec.maximum)
      [] spec.type = "decimal" -> AtMost(spec.minimum, v) /\ AtMost(v, spec.maximum)
      [] OTHER -> v \in spec.texts

\* A field may be left out, or be None, when it is not required.
ScalarValid(spec, values) ==
    IF spec.name \in DOMAIN values /\ values[spec.name] # None
    THEN ScalarFits(spec, values[spec.name])
    ELSE ~spec.required

ArrayValid(spec, values) ==
    IF spec.name \notin DOMAIN values THEN ~spec.required
    ELSE /\ values[spec.name] # None
         /\ Len(values[spec.name].items) \in spec.sizes
         /\ \A item \in Range(values[spec.name].items) :
               /\ DOMAIN item \subseteq NamesOf(spec.items)
               /\ \A s \in Range(spec.items) : ScalarValid(s, item)

FieldsValid(document, values) ==
    /\ DOMAIN values \subseteq NamesOf(document)
    /\ \A s \in Range(document) :
          IF s.type = "array" THEN ArrayValid(s, values) ELSE ScalarValid(s, values)

Given(spec, values) == IF spec.name \in DOMAIN values THEN values[spec.name] ELSE spec.default

\* The values of a validated instance: what was left out has its default.
Completed(document, values) ==
    [name \in NamesOf(document) |->
        LET spec == CHOOSE s \in Range(document) : s.name = name
            given == Given(spec, values)
        IN  IF spec.type # "array" THEN given
            ELSE [items |-> [k \in DOMAIN given.items |->
                    [n \in NamesOf(spec.items) |->
                        Given(CHOOSE s \in Range(spec.items) : s.name = n, given.items[k])]]]]

ParamsValid(document, guard, values) ==
    /\ FieldsValid(document, values)
    /\ GuardPasses(ContractFor(document), guard, Completed(document, values))

-----------------------------------------------------------------------------
(* The tokens of validated values.                                          *)

\* The values of the specs that satisfy a test, array items included.
LeavesOf(Test(_), specs, values) ==
    FlattenSeq([k \in DOMAIN specs |->
        IF Test(specs[k]) /\ values[specs[k].name] # None THEN <<values[specs[k].name]>> ELSE <<>>])

Leaves(Test(_), document, values) ==
    LeavesOf(Test, document, values) \o
    FlattenSeq([k \in DOMAIN document |->
        IF document[k].type # "array" THEN <<>>
        ELSE LET items == values[document[k].name].items
             IN  FlattenSeq([n \in DOMAIN items |-> LeavesOf(Test, document[k].items, items[n])])])

FractionOf(n, d) == IF Whole_(n) /\ Whole_(d) THEN Over(n, d) ELSE None

\* A fraction of two fields that a predicate states must be written as one, once
\* however many predicates state it.  One that is not of whole numbers is no token.
FractionTokens(contract, guard, values) ==
    LET stated == SetToSeq({e \in UNION {Range(PredicateExpressions(p)) : p \in Range(guard)} :
                      e.node = "fraction" /\ \A o \in Range(e.operands) : o.node = "field_ref"})
    IN  [k \in DOMAIN stated |-> FractionOf(Evaluate(contract, stated[k].operands[1], values),
                                           Evaluate(contract, stated[k].operands[2], values))]

NumberTokens(document, guard, values) ==
    Leaves(Numeric, document, values) \o FractionTokens(ContractFor(document), guard, values)

StringTokens(document, values) ==
    Leaves(LAMBDA s : s.type = "string" /\ s.owned, document, values)

-----------------------------------------------------------------------------
(* Grounding.                                                               *)

Count(tokens, token) == Cardinality({k \in DOMAIN tokens : tokens[k] = token})

Consumable(tokens, text) == \A t \in Range(tokens) : Count(tokens, t) <= Count(text, t)

Plain(e) == e.node \in {"literal", "field_ref"}

VouchesFor(predicate, terms, total, text) ==
    /\ Consumable(terms, text)
    /\ CASE predicate = "sum_equals" -> FoldLeft(Plus, <<0, 1>>, terms) = total
         [] predicate = "product_equals" -> FoldLeft(Times, <<1, 1>>, terms) = total
         [] OTHER -> FALSE

\* The totals a guard vouches for: of plain terms, each found in the text afresh.
DerivedTotals(contract, guard, values, text) ==
    {Evaluate(contract, p.total, values) : p \in {q \in Range(guard) :
        /\ q.predicate \in {"sum_equals", "product_equals"}
        /\ Plain(q.total) /\ \A t \in Range(q.terms) : Plain(t)
        /\ VouchesFor(q.predicate, [k \in DOMAIN q.terms |-> Evaluate(contract, q.terms[k], values)],
                      Evaluate(contract, q.total, values), text)}}

NumbersIn(tokens, totals, text) ==
    \A t \in Range(tokens) : Count(tokens, t) <= Count(text, t) \/ t \in totals

\* Every number is an occurrence of its own in the text, or a derived total.
NumbersGrounded(document, guard, values, text) ==
    NumbersIn(NumberTokens(document, guard, values),
              DerivedTotals(ContractFor(document), guard, values, text), text)

\* The solver looks for a largest set of phrases that fit without overlap: they
\* are all grounded when all of them fit.  (Its bound on steps is not reached.)
PhrasesGrounded(phrases, text) ==
    LET Fits(phrase, at) == /\ at + Len(phrase) - 1 <= Len(text)
                            /\ SubSeq(text, at, at + Len(phrase) - 1) = phrase
    IN  \E at \in [DOMAIN phrases -> DOMAIN text] :
          /\ \A k \in DOMAIN phrases : Fits(phrases[k], at[k])
          /\ \A j, k \in DOMAIN phrases :
                j < k => \/ at[j] + Len(phrases[j]) <= at[k]
                         \/ at[k] + Len(phrases[k]) <= at[j]

\* check_params_grounded finds nothing to report.
Grounded(document, guard, values, text) ==
    /\ NumbersGrounded(document, guard, values, text)
    /\ PhrasesGrounded(StringTokens(document, values), text)
=============================================================================
