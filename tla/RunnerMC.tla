------------------------------ MODULE RunnerMC -------------------------------
(* Instances of Runner: suites of two and three profiles, and their tasks.   *)
EXTENDS Runner, TaskText

ProfileOf(name, client, series) ==
    [name |-> name, client |-> client, series |-> series]

Stream == ProfileOf("stream", "graal", "none")
Delayed == ProfileOf("delayed", "graal", "delayed")
Prefilled == ProfileOf("prefilled", "graal", "prefill")
Legacy == ProfileOf("legacy", "legacy", "none")

AnyProfile == {Stream, Delayed, Prefilled, Legacy}
Two == <<Delayed, Legacy>>
Three == <<Stream, Prefilled, Legacy>>

\* The texts of T behind those of S.
Concat(S, T) == { pair[1] \o pair[2] : pair \in S \X T }

\* Item lists and sections, right and wrong ones.
Item(kind, quantity) == <<Letter(kind), Number(quantity)>>

Items ==
    {<<>>, <<Letter(1)>>, Item(1, 0), Item(1, 2), Append(Item(1, 2), Mark(";")),
     Item(1, 2) \o Item(2, 1)}
    \cup Concat({Append(Item(1, 2), Mark(";"))},
                { Item(kind, n) : kind \in {1, 2}, n \in {1, 58, 60} })

With(mark, values) == Concat({<<Mark(mark)>>}, values)

Numbers(S) == { <<Number(n)>> : n \in S }

Times(S, unit) == { <<Number(n), Mark(unit)>> : n \in S }

Periods == With("@", {<<>>} \cup Numbers({0}) \cup Times({2, 1000}, "ms")
                       \cup Times({1, 2}, "h"))
Universes == With("#", {<<>>} \cup Numbers({0, 1, 2}))
Regions == With("&", Numbers({1, 26, 27}))
Seeds == With("~", {<<>>} \cup Numbers({0, 7}))
AnySection == Periods \cup Universes \cup Regions \cup Seeds \cup {<<>>}

\* Up to three sections in any order, and all four in their order.
Texts ==
    Concat(Concat(Concat(Items, AnySection), AnySection), AnySection)
    \cup Concat(Concat(Concat(Concat(Items, Periods), Universes), Regions), Seeds)

TextsRoundTrip == \A text \in Texts : RoundTrips(text)

\* TaskTextRoundTrip: a profile's task that parseTask accepts gives the runner,
\* the server and the client a pattern they can all work with (no kind twice,
\* a symbol for each event, no count beyond its width), and the canonical text
\* of the pattern is read back as the same pattern.
TaskTextRoundTrip == index = 1 => TextsRoundTrip
=============================================================================
