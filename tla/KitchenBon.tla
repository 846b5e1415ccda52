----------------------------- MODULE KitchenBon -----------------------------
(***************************************************************************)
(* A kitchen order becomes the lines of a bon: parseKitchenPrintJob of     *)
(* bridge-contracts.ts, then buildBonDocument, documentLines and the       *)
(* guards of renderKitchenBon in kitchen-bon.ts.  A word is the sequence   *)
(* of the widths it is printed with: word[k] is the number of characters   *)
(* its first k letters take on paper, upper-cased where they are and       *)
(* transliterated (a sharp s becomes two, an ellipsis three).  A text is a *)
(* sequence of words, <<>> where it is null or blank; a reference and the  *)
(* name of the restaurant are like one word.  A line is the part of the    *)
(* order it shows, its length and the pieces of words on it.               *)
(***************************************************************************)
EXTENDS BonText, Selection, FiniteSets, SequencesExt

CONSTANTS Jobs,       \* the orders considered
          Layouts,    \* a subset of {"compact", "kitchen", "detailed"}
          PaperWidth,      \* 48 or 50 characters
          CurrencyLabel, \* characters of the label: 1 for the euro sign, 3 else
          MaxLines,   \* MAX_LINES
          MaxBytes    \* MAX_BYTES

NoItem == [quantity |-> 0]
Actions == {"none", "additional", "change", "cancellation", "full_cancellation"}

(* The numbers and texts of an order.  (The contract does not bound the    *)
(* numbers; those of more than nine digits are not modelled.)              *)
Amounts == {n \in Nat : n < 10^9}

Word == Seq(Nat \ {0}) \ {<<>>}

ItemOK(item) ==
  /\ {item.quantity, item.unitPrice, item.lineTotal} \subseteq Amounts
  /\ {item.name, item.variation, item.notes} \subseteq Seq(Word)

JobOK(order) ==
  /\ order.action \in Actions /\ order.notes \in Seq(Word) /\ order.delta \in Int
  /\ {order.sequence, order.table, order.total} \subseteq Amounts
  /\ {order.ref, order.restaurant} \subseteq Word /\ order.previousRef \in Word \cup {<<>>}
  /\ order.items \in Seq(ToSet(order.items))
  /\ \A i \in DOMAIN order.items : ItemOK(order.items[i])
  /\ order.previousItem = NoItem \/ ItemOK(order.previousItem)

ASSUME BonAssumption ==
  /\ PaperWidth \in Nat /\ PaperWidth >= 48
  /\ CurrencyLabel \in {1, 3}
  /\ \A order \in Jobs : JobOK(order)

VARIABLES job, layout,
          lines,      \* printed so far
          at,         \* the part of the document whose turn it is
          nextItem    \* the item documentLines turns to next

bonVars == <<job, layout, lines, at, nextItem>>

BonInit ==
  /\ job \in Jobs /\ layout \in Layouts
  /\ lines = <<>> /\ at = "parse" /\ nextItem = 1

-----------------------------------------------------------------------------
LineTotalsRight == \A i \in DOMAIN job.items :
                     job.items[i].lineTotal = job.items[i].unitPrice * job.items[i].quantity

Added(amounts) == FoldLeft(LAMBDA sum, amount : sum + amount, 0, amounts)

LineTotals == Added([i \in DOMAIN job.items |-> job.items[i].lineTotal])

UniqueIds == Cardinality({job.items[i].id : i \in DOMAIN job.items}) = Len(job.items)

(* The checks of the parser that relate one field to another one *)
ValidJob ==
  /\ job.items # <<>>
  /\ UniqueIds /\ LineTotalsRight /\ LineTotals = job.total
  /\ job.action = "change" => job.previousItem # NoItem
  /\ job.additional => job.sequence >= 2 /\ job.previousRef # <<>>

Parse ==
  /\ at = "parse"
  /\ at' = IF ValidJob THEN "marker" ELSE "rejected"
  /\ UNCHANGED <<job, layout, lines, nextItem>>

-----------------------------------------------------------------------------
Larger(m, n) == IF m >= n THEN m ELSE n

(* The characters that the first n letters of a word are printed as        *)
Wide(word, n) == IF n = 0 THEN 0 ELSE word[n]

InPrint(text, lengths) == [w \in DOMAIN lengths |-> Wide(text[w], lengths[w])]

Lengths(text) == [w \in DOMAIN text |-> Len(text[w])]

(* buildBonDocument cuts what was typed, documentLines prints what is left.*)
Printed(text, cap) == InPrint(text, sanitizeText(Lengths(text), cap))

PrintedName(item) == Printed(item.name, 240)
PrintedVariation(item) == Printed(item.variation, 160)
PrintedNotes(item) == Printed(item.notes, 600)

Uncut(text) == InPrint(text, Lengths(text))

(* What the kitchen may expect of a text that comes after the words of     *)
(* lead: all of it, if neither the cap of buildBonDocument nor the one of  *)
(* wrapText reaches it                                                     *)
Legible(lead, text, cap) ==
  IF StaysWithin(Lengths(text), cap) /\ StaysWithin(lead \o Uncut(text), MaxText)
  THEN Uncut(text) ELSE <<>>

Shortened(word, cap) == Wide(word, Smaller(Len(word), cap))
reference(word) == Shortened(word, 80)

Digits(n) == 1 + Cardinality({d \in 1..9 : n >= 10^d})

(* A line that shows no text of the order word by word *)
Plain(part, length) == [part |-> part, len |-> length, pieces |-> <<>>]
Blank == Plain(<<"layout">>, 0)

centerLine(length) ==
  IF length >= PaperWidth THEN PaperWidth ELSE ((PaperWidth - length) \div 2) + length

alignColumns(left, right) ==
  IF left + right >= PaperWidth THEN Smaller(left, Larger(0, PaperWidth - right - 1)) + 1 + right
  ELSE PaperWidth

(* wrapText(words, width) after the given margins, for a part of the order; *)
(* the first `skip` words are put before the part's own ones.              *)
Shown(part, words, width, first, others, skip) ==
  LET wrapped == wrapText(words, width)
      Own(pieces) == Selected(pieces, {p \in ToSet(pieces) : p.word > skip})
  IN [i \in DOMAIN wrapped |->
       [part |-> part,
        len |-> (IF i = 1 THEN first ELSE others) + wrapped[i].len,
        pieces |-> [a \in DOMAIN Own(wrapped[i].pieces) |->
                     [Own(wrapped[i].pieces)[a] EXCEPT !.word = @ - skip]]]]

wrapPrefixedText(part, prefix, words, skip) ==
  IF words = <<>> THEN <<Plain(part, prefix - 1)>>
  ELSE Shown(part, words, Larger(1, PaperWidth - prefix), prefix, 4, skip)

wrapIndentedText(part, words) == Shown(part, words, Larger(1, PaperWidth - 4), 4, 4, 0)

(* "Bestellung #..." and the date, on one line or on two *)
metadataLines(ref, date) ==
  IF 12 + ref + date + 1 <= PaperWidth THEN <<Plain(<<"layout">>, PaperWidth)>>
  ELSE LET wrapped == wrapText(<<10, 1 + ref>>, PaperWidth)
       IN Append([i \in DOMAIN wrapped |-> Plain(<<"layout">>, wrapped[i].len)],
                 Plain(<<"layout">>, PaperWidth))

(* An amount in cents, with a point before each three digits of the whole  *)
(* part, a comma and the sign of the currency                              *)
formatMoney(cents) ==
  LET whole == Digits(cents \div 100)
  IN whole + ((whole - 1) \div 3) + 3 + 1 + CurrencyLabel

priceLines(unit, total) ==
  IF 7 + unit + total + 1 <= PaperWidth THEN <<Plain(<<"price">>, PaperWidth)>>
  ELSE <<Plain(<<"price">>, 3 + unit), Plain(<<"price">>, Larger(total, PaperWidth))>>

-----------------------------------------------------------------------------
Divider == <<Plain(<<"layout">>, PaperWidth)>>
About(ref) == Plain(<<"reference">>, 15 + reference(ref))
AboutOrder == About(job.ref)
Nachbestellung == Plain(<<"layout">>, centerLine(27 + Digits(job.sequence)))

(* What kind of ticket this is *)
Marker ==
  CASE job.action = "full_cancellation" ->
         <<Plain(<<"layout">>, centerLine(27)), Plain(<<"layout">>, centerLine(18)),
           AboutOrder, Blank>>
    [] job.action = "cancellation" -> <<Plain(<<"layout">>, centerLine(27)), AboutOrder, Blank>>
    [] job.action = "change" -> <<Plain(<<"layout">>, centerLine(26)), AboutOrder, Blank>>
    [] job.action = "additional" -> <<Nachbestellung, AboutOrder, Blank>>
    [] job.action = "none" /\ job.additional ->
         <<Nachbestellung, About(job.previousRef), Blank>>
    [] OTHER -> <<>>

Header ==
  LET table == Plain(<<"layout">>, alignColumns(6 + Digits(job.table), 5))
  IN IF layout = "compact"
     THEN Divider \o <<table, Plain(<<"reference">>, 12 + reference(job.ref))>> \o Divider
     ELSE Divider
          \o <<Plain(<<"layout">>, centerLine(Shortened(job.restaurant, 120))),
               Plain(<<"layout">>, centerLine(10))>>
          \o Divider \o <<Blank, table>>
          \o metadataLines(reference(job.ref), 8) \o <<Blank>> \o Divider

Begin ==
  /\ at = "marker"
  /\ lines' = (IF job.reprint THEN <<Plain(<<"layout">>, 25), Blank>> ELSE <<>>) \o Marker \o Header
  /\ at' = "items"
  /\ UNCHANGED <<job, layout, nextItem>>

-----------------------------------------------------------------------------
(* <<>> unless there is a text: the headed lines of a note, a variation *)
Headed(heading, wrapped) == IF wrapped = <<>> THEN <<>> ELSE <<Plain(<<"layout">>, heading)>> \o wrapped

Variation(i) == wrapIndentedText(<<"variation", i>>, PrintedVariation(job.items[i]))
Notes(i) == wrapIndentedText(<<"notes", i>>, PrintedNotes(job.items[i]))
Name(i) ==
  wrapPrefixedText(<<"name", i>>, Digits(job.items[i].quantity) + 3, PrintedName(job.items[i]), 0)

(* "<quantity> x <name>" after "ALT: " or "NEU: " *)
NumberOf(item) == <<Digits(item.quantity), 1>>
Versioned(part, item) == wrapPrefixedText(part, 5, NumberOf(item) \o PrintedName(item), 2)

Delta ==
  Plain(<<"layout">>,
    IF job.delta = 0 THEN 17 ELSE 12 + Digits(IF job.delta > 0 THEN job.delta ELSE -job.delta))

OldVariation(i) == wrapIndentedText(<<"old variation", i>>, PrintedVariation(job.previousItem))
OldNotes(i) == wrapIndentedText(<<"old notes", i>>, PrintedNotes(job.previousItem))

(* Mutant: the new version first *)
changeLinesSwapped(i) ==
  Versioned(<<"name", i>>, job.items[i]) \o Variation(i)
  \o <<Delta>> \o Headed(12, Notes(i))
  \o Versioned(<<"old name", i>>, job.previousItem)
  \o OldVariation(i) \o Headed(12, OldNotes(i))

changeLines(i) ==
  Versioned(<<"old name", i>>, job.previousItem)
  \o OldVariation(i) \o Headed(12, OldNotes(i))
  \o Versioned(<<"name", i>>, job.items[i]) \o Variation(i)
  \o <<Delta>>
  \o (IF Notes(i) = <<>> /\ OldNotes(i) # <<>> THEN <<Plain(<<"no notes", i>>, 25)>>
      ELSE Headed(12, Notes(i)))

cancelLines(i) ==
  Name(i) \o Variation(i) \o <<Plain(<<"layout">>, 12 + Digits(job.items[i].quantity))>> \o Notes(i)

WithPrices == layout = "detailed" /\ job.action = "none"

orderLines(i) ==
  Name(i) \o Variation(i)
  \o (IF WithPrices
      THEN priceLines(formatMoney(job.items[i].unitPrice), formatMoney(job.items[i].lineTotal))
      ELSE <<>>)
  \o Notes(i)

ItemLines(i) ==
  CASE job.action = "change" -> changeLines(i)
    [] job.action \in {"cancellation", "full_cancellation"} -> cancelLines(i)
    [] OTHER -> orderLines(i)

Item ==
  /\ at = "items" /\ nextItem \in DOMAIN job.items
  /\ lines' = lines \o ItemLines(nextItem)
                    \o (IF nextItem < Len(job.items) THEN <<Blank>> ELSE <<>>)
  /\ nextItem' = nextItem + 1
  /\ UNCHANGED <<job, layout, at>>

End ==
  /\ at = "items" /\ nextItem \notin DOMAIN job.items
  /\ lines' = lines
       \o (IF WithPrices \/ job.notes # <<>> THEN Divider ELSE <<>>)
       \o (IF job.notes = <<>> THEN <<>>
           ELSE <<Blank, Plain(<<"layout">>, 10)>>
                \o Shown(<<"order notes", 0>>, Printed(job.notes, 1200), PaperWidth, 0, 0, 0)
                \o <<Blank>> \o Divider)
       \o (IF WithPrices THEN <<Plain(<<"layout">>, alignColumns(7, formatMoney(job.total)))>> ELSE <<>>)
       \o Divider
  /\ at' = "guards"
  /\ UNCHANGED <<job, layout, nextItem>>

(* One byte a character, a line feed after each line, and the commands to  *)
(* reset, to feed and to cut                                               *)
Bytes ==
  LET from[range \in (1..Len(lines)) \X (1..Len(lines))] ==
        IF range[1] = range[2] THEN lines[range[1]].len + 1
        ELSE LET half == (range[1] + range[2]) \div 2
             IN from[<<range[1], half>>] + from[<<half + 1, range[2]>>]
  IN from[<<1, Len(lines)>>] + 11

(* Mutant: a guard below the largest orders there are *)
TooLongEarlier == Len(lines) > MaxLines \div 3 \/ Bytes > MaxBytes

TooLong == Len(lines) > MaxLines \/ Bytes > MaxBytes

Guards ==
  /\ at = "guards"
  /\ at' = IF TooLong THEN "refused" ELSE "printed"
  /\ UNCHANGED <<job, layout, lines, nextItem>>

BonNext == Parse \/ Begin \/ Item \/ End \/ Guards

BonSpec == BonInit /\ [][BonNext]_bonVars /\ WF_bonVars(BonNext)

-----------------------------------------------------------------------------
BonTypeOK ==
  /\ job.action \in Actions /\ layout \in Layouts
  /\ \A i \in DOMAIN lines : lines[i].len \in Nat
  /\ at \in {"parse", "marker", "items", "guards", "rejected", "refused", "printed"}
  /\ nextItem \in 1..(Len(job.items) + 1)

(* Nothing on the bon is wider than the paper, in any layout, for any kind *)
(* of ticket, however long the words are: but for the lines that refer to  *)
(* an order, which the code does not wrap.                                 *)
OnPaper(line) == line.part = <<"reference">> \/ line.len <= PaperWidth
EveryLineFits == \A i \in DOMAIN lines : OnPaper(lines[i])

(* The texts the kitchen has to be able to read on this bon *)
LegibleName(item) == Legible(IF job.action = "change" THEN NumberOf(item) ELSE <<>>, item.name, 240)
LegibleVariation(item) == Legible(<<>>, item.variation, 160)
LegibleNotes(item) == Legible(<<>>, item.notes, 600)
LegibleOrderNotes == Legible(<<>>, job.notes, 1200)

TextsOf(item, i, name, variation, notes) ==
  {<<<<name, i>>, LegibleName(item)>>, <<<<variation, i>>, LegibleVariation(item)>>,
   <<<<notes, i>>, LegibleNotes(item)>>}

OrderTexts == {<<<<"order notes", 0>>, LegibleOrderNotes>>}
HeldTexts == UNION {TextsOf(job.items[i], i, "name", "variation", "notes") : i \in DOMAIN job.items}
ReplacedTexts ==
  UNION {TextsOf(job.previousItem, i, "old name", "old variation", "old notes") :
           i \in {n \in DOMAIN job.items : job.action = "change"}}
Texts == OrderTexts \cup HeldTexts \cup ReplacedTexts

(* Every letter of every text that stays within the caps is on a line of   *)
(* its part.                                                               *)
EverythingPrinted ==
  at = "printed" =>
    \A text \in Texts :
      LET shown == UNION {Range(lines[i].pieces) : i \in {j \in DOMAIN lines : lines[j].part = text[1]}}
      IN \A w \in DOMAIN text[2] : \A k \in 1..text[2][w] :
           \E p \in {q \in shown : q.word = w} : p.from < k /\ k <= p.to

(* A line shows one version of one item, and the parts of an item stand    *)
(* together, the old version first: what belongs to which dish, and which  *)
(* of two versions holds, can be told from the place.                      *)
VersionRank(part) == IF part[1] \in {"old name", "old variation", "old notes"} THEN 0 ELSE 1
ofItem(line) == line.part[1] \notin {"layout", "reference", "price", "order notes"}
ItemsStandTogether ==
  at = "printed" =>
    LET shown == {i \in DOMAIN lines : ofItem(lines[i])}
    IN \A i, j \in shown :
         LET here == lines[i].part  later == lines[j].part
         IN i < j => \/ here[2] < later[2]
                     \/ here[2] = later[2] /\ VersionRank(here) <= VersionRank(later)

(* The sum on a bon is what its items cost, and no two of them are the     *)
(* same item of the order.                                                 *)
PrintedAddsUp ==
  at = "printed" =>
    /\ job.total = Added([i \in DOMAIN job.items |-> job.items[i].unitPrice * job.items[i].quantity])
    /\ \A i, j \in DOMAIN job.items : i # j => job.items[i].id # job.items[j].id

(* What comes out of the printer is what was ordered: it stays on the      *)
(* paper, has all of the texts that are within the caps, each with its     *)
(* dish, and sums that add up.                                             *)
BonFaithful == EveryLineFits /\ EverythingPrinted /\ ItemsStandTogether /\ PrintedAddsUp
=============================================================================
