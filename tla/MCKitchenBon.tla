--------------------------- MODULE MCKitchenBon ---------------------------
(***************************************************************************)
(* Orders for TLC: small ones of every kind, those with texts around the   *)
(* caps, and the largest ones.                                             *)
(***************************************************************************)
EXTENDS KitchenBon

(* A word of n letters, each of which is printed as so many characters     *)
Typed(n, each) == [k \in 1..n |-> each * k]

(* A word with a sharp s, upper-cased, for its first letter                *)
SharpS(n) == [k \in 1..n |-> k + 1]

Text(lengths) == [w \in DOMAIN lengths |-> Typed(lengths[w], 1)]

(* As many whole words of the pattern, one after the other, as fit into a  *)
(* text of so many characters                                              *)
TextOf(pattern, cap) ==
  LET word(i) == pattern[((i - 1) % Len(pattern)) + 1]
      upto[i \in 0..cap] == IF i = 0 THEN 0 ELSE upto[i - 1] + word(i) + 1
      fit == CHOOSE n \in 1..cap : upto[n] - 1 <= cap /\ upto[n + 1] - 1 > cap
  IN [i \in 1..fit |-> word(i)]

Dish(id, quantity, name, variation, notes) ==
  [id |-> id, quantity |-> quantity, name |-> name, variation |-> variation, notes |-> notes,
   unitPrice |-> 1250, lineTotal |-> 1250 * quantity]

Order(action, additional, ref, previous, delta, items, notes) ==
  [action |-> action, additional |-> additional, sequence |-> IF additional THEN 2 ELSE 1,
   ref |-> Typed(ref, 1), previousRef |-> IF additional THEN Typed(ref, 1) ELSE <<>>,
   previousItem |-> previous,
   delta |-> delta, items |-> items, notes |-> notes, reprint |-> FALSE,
   table |-> 12, restaurant |-> Typed(60, 1),
   total |-> FoldLeft(LAMBDA sum, item : sum + item.lineTotal, 0, items)]

Short == Text(<<5, 3>>)
Unbroken == Text(<<2, 100, 7>>)      \* a token wider than the paper
Soup == Dish("soup", 1, Short, <<>>, <<>>)
Pasta == Dish("pasta", 50, Unbroken, Short, Unbroken)
Plainly == Dish("pasta", 3, Short, Unbroken, <<>>)
Wrong == [Soup EXCEPT !.lineTotal = 1]

Lists == {<<Soup>>, <<Pasta, Soup>>, <<Plainly, Pasta>>, <<Soup, Soup>>, <<Wrong>>}
Lists2 == {<<Soup>>, <<Pasta>>, <<Plainly, Soup>>}

SmallJobs ==
  {Order("none", additional, ref, NoItem, 0, items, notes) :
     additional \in BOOLEAN, ref \in {4, 33}, items \in Lists, notes \in {<<>>, Unbroken}}
  \cup {Order(action, FALSE, 80, NoItem, 0, items, notes) :
     action \in Actions \ {"none"}, items \in Lists2, notes \in {<<>>, Short}}
  \cup {Order("change", FALSE, 4, previous, delta, items, <<>>) :
     previous \in {Soup, Pasta, Plainly}, delta \in {-2, 0, 12}, items \in Lists2}

(* Texts that reach a cap: typed in too many characters, one character too *)
(* long or just within for the space and the end of a last word, and long  *)
(* enough in print only, by a sharp s or by ellipses                       *)
LongTexts(cap) ==
  {Text(<<cap - 8, 7>>), Text(<<cap - 8, 8>>), Text(<<cap - 3, 2, 5>>), Text(<<cap, 4>>),
   <<SharpS(cap - 8), Typed(7, 1)>>, <<Typed(cap - 12, 3), Typed(7, 1)>>}

CappedJobs ==
  {Order(action, FALSE, 80, Dish("pasta", 1, name, <<>>, notes), 0,
         <<Dish("pasta", 2, name, <<>>, notes)>>, <<>>) :
     action \in {"none", "change"}, name \in {Short} \cup LongTexts(240),
     notes \in {<<>>} \cup LongTexts(600)}
  \cup {Order("none", FALSE, 8, NoItem, 0, <<Soup>>, notes) : notes \in LongTexts(1200)}

(* The largest order there can be: fifty items, names of 240, variations   *)
(* of 160 and notes of 600 characters and an order note of 1,200, in words *)
(* of a pattern                                                            *)
LargestJob(pattern) ==
  Order("none", FALSE, 8, NoItem, 0,
    [i \in 1..50 |-> Dish(i, 50, Text(TextOf(pattern, 240)), Text(TextOf(pattern, 160)),
                          Text(TextOf(pattern, 600)))],
    Text(TextOf(pattern, 1200)))

OrdinaryWords == <<3, 14, 9, 21, 6>>

(* Words that leave most of each line empty: one that is wider than the    *)
(* paper between two of one letter                                         *)
WideWords == <<1, 49>>

OrdinaryJobs == SmallJobs \cup CappedJobs \cup {LargestJob(OrdinaryWords)}

AllJobs == OrdinaryJobs \cup {LargestJob(WideWords)}

(* An order that the contract permits is printed, even one of fifty items  *)
(* with notes of 600 characters, as long as its words are ordinary ones:   *)
(* MAX_LINES and MAX_BYTES only stop what they are meant to stop.          *)
OrdinaryOrdersPrint == at = "refused" => job \notin OrdinaryJobs
=============================================================================
