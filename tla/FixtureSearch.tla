---------------------------- MODULE FixtureSearch ----------------------------
(***************************************************************************)
(* What the repairs and the validation of fixtures ask of a template: do   *)
(* its documents compile, which predicates of its guard fail, which values *)
(* violate its bounds or one of its predicates (meta/fixture_mutation.py,  *)
(* validation.py).                                                         *)
(***************************************************************************)
EXTENDS Parameters

FirstOrNone(s) == IF s = <<>> THEN None ELSE s[1]

CompiledGuard(document, guard) == GuardCompiles(ContractFor(document), guard)

CompiledAnswer(document, answer) == Compiles(ContractFor(document), answer)

AnswerFrom(document, answer, values) == Evaluate(ContractFor(document), answer, values)

FailedPredicates(document, guard, values) == FailingIndexes(ContractFor(document), guard, values)

\* The first number of the document that the values have, put just below its
\* minimum; None where the code raises a ValueError.
MutateToViolateBounds(document, params) ==
    LET numbers == SelectSeq(document, LAMBDA s : Numeric(s) /\ s.name \in DOMAIN params)
    IN  IF numbers = <<>> THEN None
        ELSE [params EXCEPT ![numbers[1].name] = Minus(numbers[1].minimum, <<1, 1>>)]

PredicateReferences(predicate) ==
    LET read == PredicateExpressions(predicate)
    IN  FlattenSeq([k \in DOMAIN read |-> References(read[k])])

\* The spec whose bounds bracket the value a reference reads.
SpecFor(document, ref) ==
    LET specs == {s \in Range(document) : s.name = ref.field}
        items == UNION {{i \in Range(s.items) : i.name = ref.item} : s \in {s \in specs : s.type = "array"}}
    IN  IF ref.item # None THEN CHOOSE i \in items : TRUE ELSE CHOOSE s \in specs : TRUE

\* Whether the values hold what a reference reads.
Reaches(ref, params) ==
    /\ ref.field \in DOMAIN params
    /\ ref.item # None => /\ params[ref.field] # None
                          /\ ref.index < Len(params[ref.field].items)

CurrentValue(ref, params) ==
    CASE ~Reaches(ref, params) -> None
      [] ref.item # None ->
            LET item == params[ref.field].items[ref.index + 1]
            IN  IF ref.item \in DOMAIN item THEN item[ref.item] ELSE None
      [] OTHER -> IF ref.index = None THEN params[ref.field] ELSE None

\* The values with the scalar that a reference reads replaced, or None.
WithValue(ref, params, value) ==
    CASE ref.item = None -> (ref.field :> value) @@ params
      [] ref.item # None /\ Reaches(ref, params) ->
            [params EXCEPT ![ref.field].items[ref.index + 1] = (ref.item :> value) @@ @]
      [] OTHER -> None

\* Mutant: only values within the bounds are tried.
InnerValues(spec, siblings) ==
    IF ~Numeric(spec) THEN siblings ELSE <<spec.minimum, spec.maximum>> \o siblings

CandidateValues(spec, siblings) ==
    LET one == <<1, 1>>
        bounds == IF ~Numeric(spec) THEN <<>>
                  ELSE <<Minus(spec.minimum, one), spec.minimum, Plus(spec.minimum, one),
                         Plus(spec.maximum, one), spec.maximum>>
    IN  bounds \o <<<<0, 1>>, one, <<-1, 1>>>> \o siblings

\* The first change of one value that makes the predicate fail, or None.
FindWitness(document, guard, index, params) ==
    LET refs == PredicateReferences(guard[index])
        Siblings(n) == SelectSeq([k \in DOMAIN refs |->
                                     IF k = n THEN None ELSE CurrentValue(refs[k], params)],
                                 LAMBDA v : v # None)
        Tried(n, values) == [k \in DOMAIN values |-> WithValue(refs[n], params, values[k])]
        Trials(n) == Tried(n, CandidateValues(SpecFor(document, refs[n]), Siblings(n)))
    IN  FirstOrNone(SelectSeq(FlattenSeq([n \in DOMAIN refs |-> Trials(n)]),
            LAMBDA trial : trial # None /\ index \in FailedPredicates(document, guard, trial)))

\* A guard of plain terms that evaluates on these params as they are written: a
\* field that was left out would make it raise, and a change of one value cannot.
NeverRaises(document, guard, params) ==
    \A q \in Range(guard) :
        /\ q.predicate # "divisible_by"
        /\ \A e \in Range(PredicateExpressions(q)) : Plain(e)
        /\ Holds(ContractFor(document), q, params) # None

\* Whether a predicate of plain terms ties values together or to zero, so that a
\* change of one value can always break it.  What reads one value twice, or compares
\* it with a literal, may hold of whatever its bounds let in.
Ties(predicate, params) ==
    LET refs == PredicateReferences(predicate)
        read == Range(refs)
        readOnce == read # {} /\ Cardinality(read) = Len(refs)
        notNegative == \A r \in read : AtMost(<<0, 1>>, CurrentValue(r, params))
    IN  CASE predicate.predicate = "positive" -> read # {}
          [] predicate.predicate \in {"equals", "sum_equals"} -> readOnce
          [] predicate.predicate = "product_equals" -> readOnce /\ predicate.total.node = "field_ref"
          [] predicate.predicate = "not_equals" -> Cardinality(read) = 2
          [] predicate.predicate = "ordered" ->
                /\ Cardinality(read) > 1
                /\ predicate.direction \in {"strictly_increasing", "strictly_decreasing"} \/ notNegative
          [] OTHER -> FALSE
=============================================================================
