------------------------------ MODULE TextWrap ------------------------------
(***************************************************************************)
(* wrapText as a process: it takes the words of a text one by one, and     *)
(* after each of them the lines there would be, were it the last one, are  *)
(* those of the text so far.  Any sequence of words is a text; only the    *)
(* last word may be empty, when the cap of sanitizeText cuts after a space.*)
(***************************************************************************)
EXTENDS BonText

CONSTANTS Width,     \* characters on a line
          MaxWords   \* bound: words of a text

ASSUME WidthAssumption == Width \in Nat \ {0}

VARIABLES words,     \* the words taken so far, as lengths
          text       \* result and line of the loop

wrapVars == <<words, text>>

WrapInit == words = <<>> /\ text = [result |-> <<>>, line |-> NoLine]

Take(n) ==
  /\ Len(words) < MaxWords
  /\ \A i \in DOMAIN words : words[i] > 0
  /\ words' = Append(words, n)
  /\ text' = WrapWord(text, Len(words) + 1, n, Width)

WrapNext == \E n \in Nat : Take(n)

WrapSpec == WrapInit /\ [][WrapNext]_wrapVars

Lines == Flushed(text)

-----------------------------------------------------------------------------
Pieces == [word : Nat, from : Nat, to : Nat]
PaperLines == [len : Nat, pieces : Seq(Pieces)]

WrapTypeOK ==
  /\ words \in Seq(Nat)
  /\ text \in [result : Seq(PaperLines), line : PaperLines]

(* No line is wider than the paper and none is empty, also where a word is *)
(* wider than the paper or the text ends in a space.                       *)
LinesFit == \A i \in DOMAIN Lines : Lines[i].len \in 1..Width

Shows(piece, w, k) == piece.word = w /\ piece.from < k /\ k <= piece.to

(* Piece q comes after piece p in the text *)
Precedes(p, q) == p.word < q.word \/ (p.word = q.word /\ p.to <= q.from)

Complete ==
  \A w \in DOMAIN words : \A k \in 1..words[w] :
    \E i \in DOMAIN Lines : \E a \in DOMAIN Lines[i].pieces : Shows(Lines[i].pieces[a], w, k)

InOrder ==
  \A i, j \in DOMAIN Lines :
    \A a \in DOMAIN Lines[i].pieces, b \in DOMAIN Lines[j].pieces :
      i < j \/ (i = j /\ a < b) => Precedes(Lines[i].pieces[a], Lines[j].pieces[b])

(* Every letter of the text is on some line, and what stands earlier on    *)
(* the paper comes earlier in the text: no part of an allergy note is      *)
(* lost, doubled or moved by breaking it into lines.                       *)
NothingLost == Complete /\ InOrder

(* Breaking a text into lines keeps it on the paper and keeps it whole.    *)
WrapsFaithfully == LinesFit /\ NothingLost
=============================================================================
