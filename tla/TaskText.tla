------------------------------- MODULE TaskText -------------------------------
(***************************************************************************)
(* The text of a task (src/core.cpp): suite, server and client are given   *)
(* the same one and call the same parseTask on it, so what matters is that *)
(* a text means one publication and that a written task reads back.        *)
(*                                                                         *)
(* A text is a sequence of tokens, without the prefix "SUB:": letters of   *)
(* event kinds, numbers, separators and units of time.                     *)
(***************************************************************************)
EXTENDS Integers, Sequences, FiniteSetsExt

Seqs == INSTANCE SequencesExt

CONSTANTS
    MaxSize,      \* largest std::size_t
    MaxMillis     \* largest std::int64_t, of a duration

ASSUME TaskTextAssumption == {MaxSize, MaxMillis} \subseteq Nat

Separator == {";", "@", "#", "&", "~"}
Unit == {"ms", "s", "m", "h"}

\* Only a number and an event kind have a value; kinds are numbered.
Token == [type : Separator \cup Unit, value : {0}]
            \cup [type : {"number", "kind"}, value : Nat]

Mark(type) == [type |-> type, value |-> 0]
Number(n) == [type |-> "number", value |-> n]
Letter(kind) == [type |-> "kind", value |-> kind]

IsNumber(token) == token.type = "number" /\ token.value <= MaxSize

Maximum(S) == IF S = {} THEN 0 ELSE Max(S)

-----------------------------------------------------------------------------
(* TaskPattern.  subscribedSymbolCount and regionalSourceCount are 0, and  *)
(* shuffleSeed is <<>>, while they are empty.                              *)

Quantities(items) == { items[i].quantity : i \in DOMAIN items }

EventCount(items) ==
    Seqs!FoldLeft(LAMBDA sum, item : sum + item.quantity, 0, items)

\* symbolCount: the explicit universe, or else the largest quantity.
SymbolCount(p) == IF p.symbols > 0 THEN p.symbols ELSE Maximum(Quantities(p.items))

\* marketSymbolCount: every regional source repeats the composite symbols.
MarketSymbolCount(p) == SymbolCount(p) * (p.regional + 1)

\* What server and clients rely on when they have a pattern: an event to
\* publish, symbols for all of them, and no overflow in the counts.
WellFormed(p) ==
    /\ p.items # <<>>
    /\ \A i, j \in DOMAIN p.items : p.items[i].kind = p.items[j].kind => i = j
    /\ \A q \in Quantities(p.items) : q \in 1..SymbolCount(p)
    /\ EventCount(p.items) <= MaxSize
    /\ p.period > 0
    /\ p.regional \in 0..26
    /\ MarketSymbolCount(p) <= MaxSize

-----------------------------------------------------------------------------
(* parseTask and parseDuration.                                            *)

Error == [error |-> TRUE]

\* find: the position of a separator, npos being behind every position.
Find(text, mark) ==
    LET at == { i \in DOMAIN text : text[i] = Mark(mark) }
    IN IF at = {} THEN Len(text) + 1 ELSE Min(at)

Before(text, marks) ==
    Min({ Find(text, mark) : mark \in marks } \cup {Len(text) + 1})

Has(text, mark) == Find(text, mark) <= Len(text)

\* The tokens from a separator up to the first of those that may follow it.
Section(text, mark, later) ==
    SubSeq(text, Find(text, mark) + 1, Before(text, later) - 1)

\* The separators that are there come in this order.
Ordered(text) ==
    LET order == <<"@", "#", "&", "~">>
    IN \A i, j \in DOMAIN order :
         i < j /\ Has(text, order[i]) /\ Has(text, order[j])
           => Find(text, order[i]) < Find(text, order[j])

\* Items are a kind and a quantity each, with semicolons between them.
ItemsOf(text) ==
    [i \in 1..(Len(text) + 1) \div 3 |->
        [kind |-> text[3 * i - 2].value, quantity |-> text[3 * i - 1].value]]

ItemsOk(text) ==
    /\ Len(text) % 3 = 2
    /\ \A i \in DOMAIN text :
         CASE i % 3 = 1 -> text[i].type = "kind"
           [] i % 3 = 2 -> IsNumber(text[i]) /\ text[i].value > 0
           [] i % 3 = 0 -> text[i] = Mark(";")
    /\ \A i, j \in DOMAIN text :
         i % 3 = 1 /\ text[i] = text[j] => i = j
    /\ EventCount(ItemsOf(text)) <= MaxSize

Multiplier(unit) ==
    CASE unit = "ms" -> 1 [] unit = "s" -> 1000
      [] unit = "m" -> 60000 [] unit = "h" -> 3600000

\* parseDuration, to milliseconds: without a unit these are seconds.
Duration(text) ==
    text[1].value * (IF Len(text) = 1 THEN 1000 ELSE Multiplier(text[2].type))

DurationOk(text) ==
    /\ Len(text) \in {1, 2}
    /\ Len(text) = 2 => text[2].type \in Unit
    /\ text[1].type = "number"
    /\ Duration(text) \in 1..MaxMillis

\* A section that holds one number and nothing else.
NumberOk(text) == Len(text) = 1 /\ IsNumber(text[1])

Parse(text) ==
    LET items == SubSeq(text, 1, Before(text, {"@", "#", "&", "~"}) - 1)
        period == Section(text, "@", {"#", "&", "~"})
        symbols == Section(text, "#", {"&", "~"})
        regional == Section(text, "&", {"~"})
        seed == Section(text, "~", {})
        pattern ==
            [items |-> ItemsOf(items),
             period |-> IF Has(text, "@") THEN Duration(period) ELSE 1000,
             symbols |-> IF Has(text, "#") THEN symbols[1].value ELSE 0,
             regional |-> IF Has(text, "&") THEN regional[1].value ELSE 0,
             seed |-> IF Has(text, "~") THEN <<seed[1].value>> ELSE <<>>]
    IN IF /\ Ordered(text)
          /\ ItemsOk(items)
          /\ Has(text, "@") => DurationOk(period)
          /\ Has(text, "#") => NumberOk(symbols) /\ symbols[1].value > 0
          /\ Has(text, "&") => NumberOk(regional) /\ regional[1].value \in 1..26
          /\ Has(text, "~") => NumberOk(seed)
          /\ SymbolCount(pattern) >= Maximum(Quantities(pattern.items))
          /\ MarketSymbolCount(pattern) <= MaxSize
       THEN pattern ELSE Error

-----------------------------------------------------------------------------
(* TaskPattern::toString.                                                  *)

ItemsText(items) ==
    [i \in 1..3 * Len(items) - 1 |->
        LET item == items[i \div 3 + 1]
        IN <<Mark(";"), Letter(item.kind), Number(item.quantity)>>[(i % 3) + 1]]

\* Fault: the period is always written in seconds.
PeriodTextInSeconds(period) ==
    IF period = 1000 THEN <<>>
    ELSE <<Mark("@"), Number(period \div 1000), Mark("s")>>

\* The period is left out if it is a second, in seconds if these are whole.
PeriodText(period) ==
    IF period = 1000 THEN <<>>
    ELSE IF period % 1000 = 0
    THEN <<Mark("@"), Number(period \div 1000), Mark("s")>>
    ELSE <<Mark("@"), Number(period), Mark("ms")>>

OptionText(mark, n) == IF n = 0 THEN <<>> ELSE <<Mark(mark), Number(n)>>

ToText(p) ==
    ItemsText(p.items) \o PeriodText(p.period)
        \o OptionText("#", p.symbols) \o OptionText("&", p.regional)
        \o (IF p.seed = <<>> THEN <<>> ELSE <<Mark("~"), Number(p.seed[1])>>)

-----------------------------------------------------------------------------

\* Whatever a text leaves out or spells in its own way, its pattern can be
\* worked with, and the canonical text gives the same pattern again.
RoundTrips(text) ==
    LET p == Parse(text)
    IN p # Error => WellFormed(p) /\ Parse(ToText(p)) = p
===============================================================================
