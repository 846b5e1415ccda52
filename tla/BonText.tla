------------------------------ MODULE BonText ------------------------------
(***************************************************************************)
(* How a text is broken into the lines of a bon: wrapText and sanitizeText *)
(* of kitchen-bon.ts.  A text is the sequence of the lengths of its words, *)
(* as they come from splitting at the spaces.  A line is its length and    *)
(* the pieces of words on it, a piece being the letters from+1 .. to of a  *)
(* word.                                                                   *)
(***************************************************************************)
EXTENDS Integers, Sequences

Smaller(m, n) == IF m <= n THEN m ELSE n

Only(S) == CHOOSE x \in S : TRUE

(* A word of n letters in the room that is left; the next one begins after *)
(* a space.                                                                *)
InRoom(before, n) ==
  [room |-> before.room - n - 1,
   text |-> IF before.room < 0 THEN before.text ELSE Append(before.text, Smaller(n, before.room))]

(* A text in so many characters.  (Here and below a set of one binds what  *)
(* came before, so that TLC computes it once.)                             *)
CutAt(words, cap) ==
  LET cut[i \in 0..Len(words)] ==
        IF i = 0 THEN [room |-> cap, text |-> <<>>]
        ELSE Only({InRoom(before, words[i]) : before \in {cut[i - 1]}})
  IN cut[Len(words)]

(* A space at the end is trimmed, then the text is cut, after which its    *)
(* last word may be an empty one.                                          *)
sanitizeText(words, cap) ==
  CutAt(IF words # <<>> /\ words[Len(words)] = 0 THEN SubSeq(words, 1, Len(words) - 1) ELSE words,
        cap).text

(* The text ends at the cap or before: no room but that of the space that  *)
(* would follow is missing.                                                *)
StaysWithin(words, cap) == CutAt(words, cap).room >= -1

NoLine == [len |-> 0, pieces |-> <<>>]

Piece(w, from, to) == [word |-> w, from |-> from, to |-> to]

(* The number of pieces a word of n letters is cut into *)
Cuts(n, width) == (n + width - 1) \div width

(* A word that is wider than the paper, on lines of its own *)
Cut(w, n, width) ==
  [i \in 1..Cuts(n, width) |->
    LET from == (i - 1) * width
        to   == IF i * width <= n THEN i * width ELSE n
    IN [len |-> to - from, pieces |-> <<Piece(w, from, to)>>]]

(* candidate: the word after what is on the line already *)
candidate(line, w, n) ==
  IF line.len = 0 THEN [len |-> n, pieces |-> <<Piece(w, 0, n)>>]
  ELSE [len |-> line.len + 1 + n, pieces |-> Append(line.pieces, Piece(w, 0, n))]

(* The finished lines, with the open one if there is anything on it *)
Flushed(text) ==
  IF text.line.len = 0 THEN text.result ELSE Append(text.result, text.line)

(* Mutant: drops the open line when a word has to be cut *)
WrapWordDrops(text, w, n, width) ==
  IF n > width
  THEN [result |-> text.result \o Cut(w, n, width), line |-> NoLine]
  ELSE IF candidate(text.line, w, n).len > width
  THEN [result |-> Flushed(text), line |-> candidate(NoLine, w, n)]
  ELSE [text EXCEPT !.line = candidate(text.line, w, n)]

(* One round of the loop: word w, of n letters *)
WrapWord(text, w, n, width) ==
  IF n > width
  THEN [result |-> Flushed(text) \o Cut(w, n, width), line |-> NoLine]
  ELSE IF candidate(text.line, w, n).len > width
  THEN [result |-> Flushed(text), line |-> candidate(NoLine, w, n)]
  ELSE [text EXCEPT !.line = candidate(text.line, w, n)]

(* The loop over all words *)
wrapWords(words, width) ==
  LET wrapped[i \in 0..Len(words)] ==
        IF i = 0 THEN [result |-> <<>>, line |-> NoLine]
        ELSE Only({WrapWord(before, i, words[i], width) : before \in {wrapped[i - 1]}})
  IN Flushed(wrapped[Len(words)])

(* The cap of wrapText *)
MaxText == 1200

wrapText(words, width) ==
  Only({wrapWords(kept, width) : kept \in {sanitizeText(words, MaxText)}})
=============================================================================
