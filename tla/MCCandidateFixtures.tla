------------------------- MODULE MCCandidateFixtures -------------------------
(* Seven templates, each with the fixtures a model may think of for it.      *)
EXTENDS CandidateFixtures, FixtureSearch

CONSTANTS o1, o2, red, kite

Number(n) == <<n, 1>>

Integer(name, minimum, maximum) ==
    [name |-> name, type |-> "integer", required |-> TRUE, default |-> None,
     minimum |-> Number(minimum), maximum |-> Number(maximum)]

Words(name, texts) ==
    [name |-> name, type |-> "string", required |-> TRUE, default |-> None,
     texts |-> texts, owned |-> TRUE]

List(name, sizes, items) ==
    [name |-> name, type |-> "array", required |-> TRUE, default |-> [items |-> <<>>],
     sizes |-> sizes, items |-> items]

\* "3 kites and 4 kites" and "2 red kites, 5 kites, 3/4 of 4 kites".
Texts ==
    o1 :> <<Number(3), kite, Number(4), kite>> @@
    o2 :> <<Number(2), red, kite, Number(5), kite, <<3, 4>>, Number(3), Number(4), kite>>

Fixture(kind, expected, observation, params) ==
    [kind |-> kind, expected |-> expected, method |-> "proposed",
     observation |-> observation, params |-> params]

Positive(observation, params) == Fixture("positive", "accept", observation, params)

Negative(params) == Fixture("negative", "reject", None, params)

\* Every sequence of a length over a pool of fixtures.
Lists(length, pool) ==
    LET size == Len(pool)
    IN  [k \in 1..(size ^ length) |->
            [place \in 1..length |-> pool[1 + (((k - 1) \div (size ^ (place - 1))) % size)]]]

Upto(length, pool) ==
    Lists(1, pool) \o (IF length > 1 THEN Lists(2, pool) ELSE <<>>)
             \o (IF length > 2 THEN Lists(3, pool) ELSE <<>>)

Drafts(document, guard, answer, lists) ==
    [k \in DOMAIN lists |->
        [document |-> document, guard |-> guard, answer |-> answer, fixtures |-> lists[k]]]

-----------------------------------------------------------------------------
\* Two numbers and their total.
Parts(a, b, total) == [a |-> Number(a), b |-> Number(b), total |-> Number(total)]

SumOf == [predicate |-> "sum_equals", terms |-> <<Ref("a"), Ref("b")>>, total |-> Ref("total")]

Adding ==
    Drafts(<<Integer("a", 1, 9), Integer("b", 0, 9), Integer("total", 1, 18)>>,
           <<SumOf, [predicate |-> "positive", value |-> Ref("a")],
             [predicate |-> "not_equals", left |-> Ref("a"), right |-> Lit(5)]>>,
           Ref("total"),
           Upto(3, <<Positive(o1, Parts(3, 4, 7)), Positive(o1, Parts(3, 3, 6)),
                    Positive(o2, Parts(2, 3, 6)),
                    Negative(Parts(5, 2, 7)), Negative(Parts(0, 2, 3)),
                    Fixture("boundary", "reject", None, Parts(0, 2, 3)),
                    Fixture("positive", "reject", o2, Parts(5, 2, 6))>>))

\* The same, of which the answer divides by what may be zero.
Sharing ==
    Drafts(<<Integer("a", 0, 9), [Integer("b", 0, 9) EXCEPT !.required = FALSE, !.default = Number(4)]>>,
           <<[predicate |-> "divisible_by", value |-> Lit(12), divisor |-> Ref("b")],
             [predicate |-> "range", value |-> Ref("a"), minimum |-> Lit(1), maximum |-> Lit(8)]>>,
           [node |-> "divide", operands |-> <<Ref("a"), Ref("b")>>],
           Upto(2, <<Positive(o1, [a |-> Number(3), b |-> Number(4)]), Positive(o2, [a |-> Number(3)]),
                    Positive(o2, [a |-> Number(2), b |-> Number(3)]), Negative([a |-> Number(3), b |-> Number(5)]),
                    Positive(None, [a |-> Number(1), b |-> Number(1)]),
                    Fixture("boundary", "reject", None, [a |-> Number(0), b |-> Number(5)])>>))

\* A row of scores in order, and no number of its own.
Scores(values) ==
    [scores |-> [items |-> [k \in DOMAIN values |-> [value |-> Number(values[k])]]]]

Ordering ==
    Drafts(<<List("scores", 2..3, <<Integer("value", 0, 9)>>)>>,
           <<[predicate |-> "ordered", terms |-> <<Item("scores", 0, "value"), Item("scores", 1, "value")>>,
              direction |-> "strictly_increasing"]>>,
           Item("scores", 1, "value"),
           Upto(2, <<Positive(o1, Scores(<<3, 4>>)), Positive(o2, Scores(<<2, 5, 7>>)),
                    Positive(o2, Scores(<<4>>)), Negative(Scores(<<4, 3>>)), Negative(Scores(<<4>>)),
                    Fixture("boundary", "reject", None, Scores(<<4, 3>>))>>))

\* A fraction of things, with their name.
Portion(n, d, thing) == [n |-> Number(n), d |-> Number(d), thing |-> thing]

Proper == [node |-> "fraction", operands |-> <<Ref("n"), Ref("d")>>]

Naming ==
    Drafts(<<Words("thing", {<<red, kite>>, <<kite, red>>, <<kite>>}), Integer("n", 1, 9), Integer("d", 2, 9)>>,
           <<[predicate |-> "range", value |-> Proper, minimum |-> Lit(0), maximum |-> Lit(1)]>>,
           Proper,
           Upto(3, <<Positive(o2, Portion(3, 4, <<red, kite>>)), Positive(o2, Portion(3, 4, <<kite, red>>)),
                    Positive(o1, Portion(3, 4, <<kite>>)), Fixture("boundary", "accept", None, Portion(1, 2, <<kite>>))>>))

\* A guard that reads a list as if it were a number.
Illegible ==
    Drafts(<<List("scores", 2..3, <<Integer("value", 0, 9)>>), Integer("a", 0, 9)>>,
           <<[predicate |-> "positive", value |-> Ref("scores")]>>, Ref("a"),
           Upto(1, <<Positive(o1, Scores(<<3, 4>>) @@ [a |-> Number(3)])>>))

\* Groups of things, and their total said twice.
Groups(a, b, total, again) == Parts(a, b, total) @@ [again |-> Number(again)]

Grouping ==
    Drafts(<<Integer("a", 1, 9), Integer("b", 1, 9), Integer("total", 1, 81), Integer("again", 1, 81)>>,
           <<[predicate |-> "product_equals", terms |-> <<Ref("a"), Ref("b")>>, total |-> Ref("total")],
             [predicate |-> "equals", left |-> Ref("total"), right |-> Ref("again")],
             [predicate |-> "ordered", terms |-> <<Ref("a"), Ref("b")>>, direction |-> "non_decreasing"],
             [predicate |-> "not_equals", left |-> Ref("b"), right |-> Ref("again")]>>,
           Ref("again"),
           Upto(2, <<Positive(o1, Groups(3, 4, 12, 12)), Positive(o2, Groups(2, 5, 10, 10)),
                    Positive(o1, Groups(4, 4, 16, 16)), Negative(Groups(5, 4, 20, 20)),
                    Negative(Groups(3, 4, 11, 11)), Fixture("boundary", "reject", None, Groups(1, 4, 5, 4))>>))

\* A number that may be left out, which the guard reads all the same.
Leaving ==
    Drafts(<<Integer("a", 1, 9), [Integer("b", 1, 9) EXCEPT !.required = FALSE, !.default = Number(4)]>>,
           <<[predicate |-> "positive", value |-> Ref("a")], [predicate |-> "positive", value |-> Ref("b")]>>,
           Ref("a"),
           Upto(2, <<Positive(o1, [a |-> Number(3)]), Positive(o1, [a |-> Number(3), b |-> Number(4)]),
                    Positive(o2, [a |-> Number(2), b |-> Number(5)]), Negative([a |-> Number(0)]),
                    Negative([a |-> Number(0), b |-> Number(4)])>>))

AllProposals == Adding \o Sharing \o Ordering \o Naming \o Illegible \o Grouping \o Leaving

ASSUME DocumentsAreSound == \A p \in Range(AllProposals) : DocumentSound(p.document)

-----------------------------------------------------------------------------
\* The first example is sound, and the guard evaluates on it as it is written.
Searchable(p) ==
    /\ HasBase(p.fixtures) /\ FixturePasses(p, Base(p.fixtures))
    /\ NeverRaises(p.document, p.guard, Base(p.fixtures).params)

\* Where the first example is sound and the guard evaluates on what it says, each
\* predicate that ties values together or to zero has its rejecting fixture once the
\* proposal is repaired: the model is never asked again for one of those
\* (ensure_guard_predicate_witnesses).
TiesAreWitnessed ==
    Repaired /\ Searchable(Sent) =>
        {k \in DOMAIN Sent.guard : Ties(Sent.guard[k], Base(Sent.fixtures).params)}
            \subseteq Witnessed(Sent, Sent.fixtures)
=============================================================================
