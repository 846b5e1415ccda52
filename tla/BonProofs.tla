----------------------------- MODULE BonProofs -----------------------------
(***************************************************************************)
(* The proofs about the bon.  For paper of any width and any text, what    *)
(* wrapText returns fits, and every letter of the text is on it; and of    *)
(* the bons that are rendered with it: what is on them fits, is complete,  *)
(* stands in its place and adds up.                                        *)
(***************************************************************************)
EXTENDS MCBridgeParts, PartsProofs

(* What a division is *)
LEMMA Division ==
  ASSUME NEW a \in Nat, NEW b \in Nat \ {0}
  PROVE  /\ a \div b \in Nat
         /\ b * (a \div b) <= a
         /\ a < b * (a \div b) + b
  OBVIOUS

(* Multiplication by a natural number is monotone. *)
LEMMA Monotone ==
  ASSUME NEW a \in Nat, NEW b \in Nat, NEW c \in Nat, a <= b
  PROVE  a * c <= b * c
  OBVIOUS

(* Each piece of a word that is cut has its letters, and begins inside it  *)
LEMMA CutsFit ==
  ASSUME NEW width \in Nat \ {0}, NEW n \in Nat, NEW i \in 1..Cuts(n, width)
  PROVE  /\ (i - 1) * width \in Nat
         /\ (i - 1) * width < n
         /\ i * width = (i - 1) * width + width
  <1> DEFINE q == Cuts(n, width)
  <1>1. q \in Nat /\ width * q <= n + width - 1
    BY Division DEF Cuts
  <1>2. i \in Nat /\ i - 1 \in Nat /\ i <= q
    BY <1>1
  <1>3. (i - 1) * width \in Nat /\ i * width = (i - 1) * width + width
    BY <1>2
  <1>4. i * width <= q * width
    BY <1>1, <1>2, Monotone
  <1>5. q * width = width * q
    BY <1>1
  <1> QED
    BY <1>1, <1>3, <1>4, <1>5

(* The lines of a word that is cut: none empty, none too wide *)
LEMMA CutLines ==
  ASSUME NEW width \in Nat \ {0}, NEW w \in Nat, NEW n \in Nat
  PROVE  /\ Cut(w, n, width) \in Seq(PaperLines)
         /\ Len(Cut(w, n, width)) = Cuts(n, width)
         /\ \A i \in 1..Cuts(n, width) :
              /\ Cut(w, n, width)[i].len \in 1..width
              /\ Cut(w, n, width)[i].pieces \in Seq(Pieces)
              /\ Len(Cut(w, n, width)[i].pieces) = 1
              /\ Cut(w, n, width)[i].pieces[1]
                   = Piece(w, (i - 1) * width, IF i * width <= n THEN i * width ELSE n)
  <1> DEFINE q       == Cuts(n, width)
             From(i) == (i - 1) * width
             To(i)   == IF i * width <= n THEN i * width ELSE n
             L(i)    == [len |-> To(i) - From(i), pieces |-> <<Piece(w, From(i), To(i))>>]
  <1>1. q \in Nat
    BY Division DEF Cuts
  <1>2. ASSUME NEW i \in 1..q
        PROVE  /\ From(i) \in Nat /\ To(i) \in Nat
               /\ To(i) - From(i) \in 1..width
    <2>1. /\ From(i) \in Nat /\ From(i) < n
          /\ i * width = From(i) + width
      BY CutsFit
    <2>2. i * width \in Nat
      BY <2>1
    <2> HIDE DEF From
    <2> QED
      BY <2>1, <2>2
  <1>3. \A i \in 1..q : L(i) \in PaperLines
    <2> SUFFICES ASSUME NEW i \in 1..q PROVE L(i) \in PaperLines
      OBVIOUS
    <2>1. Piece(w, From(i), To(i)) \in Pieces
      BY <1>2 DEF Piece, Pieces
    <2>2. <<Piece(w, From(i), To(i))>> \in Seq(Pieces)
      BY <2>1
    <2>3. To(i) - From(i) \in Nat
      BY <1>2
    <2> QED
      BY <2>2, <2>3 DEF PaperLines
  <1>4. Cut(w, n, width) = [i \in 1..q |-> L(i)]
    BY DEF Cut
  <1>5. Cut(w, n, width) \in Seq(PaperLines) /\ Len(Cut(w, n, width)) = q
    <2> HIDE DEF q, L
    <2> QED
      BY <1>1, <1>3, <1>4
  <1>6. ASSUME NEW i \in 1..q
        PROVE  /\ Cut(w, n, width)[i].len \in 1..width
               /\ Cut(w, n, width)[i].pieces = <<Piece(w, From(i), To(i))>>
    <2>1. Cut(w, n, width)[i] = L(i)
      BY <1>4
    <2> QED
      BY <2>1, <1>2
  <1>7. ASSUME NEW i \in 1..q
        PROVE  <<Piece(w, From(i), To(i))>> \in Seq(Pieces)
    <2>1. Piece(w, From(i), To(i)) \in Pieces
      BY <1>2 DEF Piece, Pieces
    <2> QED
      BY <2>1
  <1>8. ASSUME NEW i \in 1..q
        PROVE  /\ Cut(w, n, width)[i].pieces \in Seq(Pieces)
               /\ Len(Cut(w, n, width)[i].pieces) = 1
               /\ Cut(w, n, width)[i].pieces[1] = Piece(w, From(i), To(i))
    <2> DEFINE piece == Piece(w, From(i), To(i))
    <2>1. Len(<<piece>>) = 1 /\ <<piece>>[1] = piece
      OBVIOUS
    <2>2. Cut(w, n, width)[i].pieces = <<piece>>
      BY <1>6
    <2>3. <<piece>> \in Seq(Pieces)
      BY <1>7
    <2> HIDE DEF piece
    <2>4. /\ Cut(w, n, width)[i].pieces \in Seq(Pieces)
          /\ Len(Cut(w, n, width)[i].pieces) = 1
          /\ Cut(w, n, width)[i].pieces[1] = piece
      BY <2>1, <2>2, <2>3
    <2> QED
      BY <2>4 DEF piece
  <1>9. \A i \in 1..q : Cut(w, n, width)[i].len \in 1..width
    BY <1>6
  <1> QED
    BY <1>5, <1>8, <1>9, Zenon

(* The pieces of a word that is cut are lines of at most the width. *)
LEMMA CutFits ==
  ASSUME NEW width \in Nat \ {0}, NEW w \in Nat, NEW n \in Nat
  PROVE  /\ Cut(w, n, width) \in Seq(PaperLines)
         /\ \A i \in DOMAIN Cut(w, n, width) : Cut(w, n, width)[i].len \in 1..width
  <1> DEFINE c == Cut(w, n, width)
  <1>1. c \in Seq(PaperLines) /\ Len(c) = Cuts(n, width)
    BY CutLines
  <1>2. DOMAIN c = 1..Cuts(n, width)
    <2> HIDE DEF c
    <2> QED
      BY <1>1
  <1>3. \A i \in 1..Cuts(n, width) : c[i].len \in 1..width
    BY CutLines, Zenon
  <1> QED
    BY <1>1, <1>2, <1>3, Zenon

(* A line with one more word is a line, longer by the word and a space     *)
(* between.                                                                *)
LEMMA CandidateType ==
  ASSUME NEW line \in PaperLines, NEW w \in Nat, NEW n \in Nat
  PROVE  /\ candidate(line, w, n) \in PaperLines
         /\ line.len = 0 => candidate(line, w, n).len = n
         /\ line.len # 0 => candidate(line, w, n).len = line.len + 1 + n
  <1>1. Piece(w, 0, n) \in Pieces
    BY DEF Piece, Pieces
  <1>2. line.len \in Nat /\ line.pieces \in Seq(Pieces)
    BY DEF PaperLines
  <1>3. <<Piece(w, 0, n)>> \in Seq(Pieces) /\ Append(line.pieces, Piece(w, 0, n)) \in Seq(Pieces)
    BY <1>1, <1>2
  <1> QED
    BY <1>2, <1>3 DEF candidate, PaperLines

(* The empty line is a line. *)
LEMMA NoLineType == NoLine \in PaperLines /\ NoLine.len = 0 /\ NoLine.pieces = <<>>
  BY DEF NoLine, PaperLines

-----------------------------------------------------------------------------
Wraps == [result : Seq(PaperLines), line : PaperLines]

(* What holds between two rounds: the finished lines fit and are not       *)
(* empty, and the open one fits.                                           *)
Fits(t, width) ==
  /\ \A i \in DOMAIN t.result : t.result[i].len \in 1..width
  /\ t.line.len <= width

(* Closing the open line leaves lines of at most the width. *)
LEMMA FlushedFits ==
  ASSUME NEW width \in Nat \ {0}, NEW t \in Wraps, Fits(t, width)
  PROVE  /\ Flushed(t) \in Seq(PaperLines)
         /\ \A i \in DOMAIN Flushed(t) : Flushed(t)[i].len \in 1..width
  <1>1. t.result \in Seq(PaperLines) /\ t.line \in PaperLines /\ t.line.len \in Nat
    BY DEF Wraps, PaperLines
  <1>2. CASE t.line.len = 0
    BY <1>1, <1>2 DEF Flushed, Fits
  <1>3. CASE t.line.len # 0
    <2>1. Flushed(t) = Append(t.result, t.line)
      BY <1>3 DEF Flushed
    <2>2. t.line.len \in 1..width
      BY <1>1, <1>3 DEF Fits
    <2> QED
      BY <1>1, <2>1, <2>2 DEF Fits
  <1> QED
    BY <1>2, <1>3

(* One word more keeps it so, whatever its length. *)
LEMMA WrapFits ==
  ASSUME NEW width \in Nat \ {0}, NEW t \in Wraps, Fits(t, width), NEW w \in Nat, NEW n \in Nat
  PROVE  WrapWord(t, w, n, width) \in Wraps /\ Fits(WrapWord(t, w, n, width), width)
  <1> DEFINE next == WrapWord(t, w, n, width)
  <1> SUFFICES next \in Wraps /\ Fits(next, width)
    OBVIOUS
  <1>1. t.result \in Seq(PaperLines) /\ t.line \in PaperLines /\ t.line.len \in Nat
    BY DEF Wraps, PaperLines
  <1>2. /\ Flushed(t) \in Seq(PaperLines)
        /\ \A i \in DOMAIN Flushed(t) : Flushed(t)[i].len \in 1..width
    BY FlushedFits
  <1>3. CASE n > width
    <2>1. next = [result |-> Flushed(t) \o Cut(w, n, width), line |-> NoLine]
      BY <1>3 DEF WrapWord
    <2>2. /\ Cut(w, n, width) \in Seq(PaperLines)
          /\ \A i \in DOMAIN Cut(w, n, width) : Cut(w, n, width)[i].len \in 1..width
      BY CutFits
    <2> DEFINE f == Flushed(t)  c == Cut(w, n, width)
    <2>3. f \o c \in Seq(PaperLines)
      BY <1>2, <2>2
    <2>4. \A i \in DOMAIN (f \o c) : (f \o c)[i].len \in 1..width
      <3> HIDE DEF f, c
      <3> SUFFICES ASSUME NEW i \in DOMAIN (f \o c) PROVE (f \o c)[i].len \in 1..width
        OBVIOUS
      <3>1. Len(f \o c) = Len(f) + Len(c) /\ i \in 1..Len(f \o c)
        BY <1>2, <2>2 DEF f, c
      <3>2. CASE i <= Len(f)
        BY <3>1, <3>2, <1>2, <2>2 DEF f, c
      <3>3. CASE i > Len(f)
        <4>1. (f \o c)[i] = c[i - Len(f)] /\ i - Len(f) \in DOMAIN c
          BY <3>1, <3>3, <1>2, <2>2 DEF f, c
        <4> QED
          BY <4>1, <2>2 DEF c
      <3> QED
        BY <3>1, <3>2, <3>3, <1>2 DEF f
    <2> HIDE DEF f, c
    <2>5. next = [result |-> f \o c, line |-> NoLine]
      BY <2>1 DEF f, c
    <2> HIDE DEF next
    <2> QED
      BY <2>3, <2>4, <2>5, NoLineType DEF Wraps, Fits
  <1>4. CASE ~(n > width) /\ candidate(t.line, w, n).len > width
    <2>1. next = [result |-> Flushed(t), line |-> candidate(NoLine, w, n)]
      BY <1>4 DEF WrapWord
    <2>2. candidate(NoLine, w, n) \in PaperLines /\ candidate(NoLine, w, n).len = n
      BY CandidateType, NoLineType
    <2> HIDE DEF next
    <2> QED
      BY <1>2, <1>4, <2>1, <2>2 DEF Wraps, Fits
  <1>5. CASE ~(n > width) /\ ~(candidate(t.line, w, n).len > width)
    <2>1. next = [t EXCEPT !.line = candidate(t.line, w, n)]
      BY <1>5 DEF WrapWord
    <2>2. candidate(t.line, w, n) \in PaperLines /\ candidate(t.line, w, n).len \in Nat
      BY <1>1, CandidateType DEF PaperLines
    <2>3. next.result = t.result /\ next.line = candidate(t.line, w, n) /\ next \in Wraps
      BY <1>1, <2>1, <2>2 DEF Wraps
    <2> HIDE DEF next
    <2> QED
      BY <1>5, <2>2, <2>3 DEF Fits
  <1> QED
    BY <1>3, <1>4, <1>5

(* The fields of the pieces of a line *)
LEMMA PieceTypes ==
  ASSUME NEW L \in Seq(PaperLines), NEW i \in DOMAIN L, NEW a \in DOMAIN L[i].pieces
  PROVE  /\ L[i].pieces \in Seq(Pieces)
         /\ L[i].pieces[a] \in Pieces
         /\ L[i].pieces[a].word \in Nat
         /\ L[i].pieces[a].from \in Nat
         /\ L[i].pieces[a].to \in Nat
  <1>1. L[i] \in PaperLines
    OBVIOUS
  <1>2. L[i].pieces \in Seq(Pieces)
    BY <1>1 DEF PaperLines
  <1> DEFINE p == L[i].pieces
  <1>3. p[a] \in Pieces
    <2> HIDE DEF p
    <2>1. p \in Seq(Pieces) /\ a \in DOMAIN p
      BY <1>2 DEF p
    <2> QED
      BY <2>1
  <1> QED
    BY <1>2, <1>3 DEF Pieces

(* Complete and InOrder of any lines, for any words *)
CompleteOn(L, ws) ==
  \A w \in DOMAIN ws : \A k \in 1..ws[w] :
    \E i \in DOMAIN L : \E a \in DOMAIN L[i].pieces : Shows(L[i].pieces[a], w, k)

InOrderOn(L) ==
  \A i, j \in DOMAIN L :
    \A a \in DOMAIN L[i].pieces, b \in DOMAIN L[j].pieces :
      i < j \/ (i = j /\ a < b) => Precedes(L[i].pieces[a], L[j].pieces[b])

(* The lines show words up to number m only. *)
UpTo(L, m) == \A i \in DOMAIN L : \A a \in DOMAIN L[i].pieces : L[i].pieces[a].word <= m

(* Lines put after those of the words before, for the next word *)
Continues(c, w, n) ==
  /\ \A i \in DOMAIN c : \A a \in DOMAIN c[i].pieces : c[i].pieces[a].word = w
  /\ \A k \in 1..n : \E i \in DOMAIN c : \E a \in DOMAIN c[i].pieces : Shows(c[i].pieces[a], w, k)
  /\ InOrderOn(c)

(* Lines that show the next word and no other go on with a text that is    *)
(* complete so far.                                                        *)
LEMMA Continued ==
  ASSUME NEW L \in Seq(PaperLines), NEW c \in Seq(PaperLines),
         NEW ws \in Seq(Nat), NEW n \in Nat,
         CompleteOn(L, ws), InOrderOn(L), UpTo(L, Len(ws)),
         Continues(c, Len(ws) + 1, n)
  PROVE  /\ CompleteOn(L \o c, Append(ws, n))
         /\ InOrderOn(L \o c)
         /\ UpTo(L \o c, Len(ws) + 1)
  <1> DEFINE new == L \o c  w == Len(ws) + 1
  <1>1. /\ new \in Seq(PaperLines) /\ Len(new) = Len(L) + Len(c)
        /\ Len(L) \in Nat /\ Len(c) \in Nat /\ w \in Nat /\ Len(ws) \in Nat
        /\ DOMAIN L = 1..Len(L) /\ DOMAIN c = 1..Len(c) /\ DOMAIN new = 1..Len(new)
    OBVIOUS
  <1>2. /\ \A i \in DOMAIN L : i \in DOMAIN new /\ new[i] = L[i]
        /\ \A i \in DOMAIN c : i + Len(L) \in DOMAIN new /\ new[i + Len(L)] = c[i]
    OBVIOUS
  <1>3. \A i \in DOMAIN new : i \in DOMAIN L \/ (i - Len(L) \in DOMAIN c /\ new[i] = c[i - Len(L)])
    OBVIOUS
  <1>4. \A i \in DOMAIN new : i \notin DOMAIN L => i > Len(L)
    OBVIOUS
  <1> HIDE DEF new
  <1>5. CompleteOn(new, Append(ws, n))
    <2> SUFFICES ASSUME NEW v \in DOMAIN Append(ws, n), NEW k \in 1..Append(ws, n)[v]
                 PROVE  \E i \in DOMAIN new : \E a \in DOMAIN new[i].pieces :
                          Shows(new[i].pieces[a], v, k)
      BY DEF CompleteOn
    <2>1. CASE v \in DOMAIN ws
      <3>1. k \in 1..ws[v]
        BY <2>1
      <3>2. PICK i \in DOMAIN L : \E a \in DOMAIN L[i].pieces : Shows(L[i].pieces[a], v, k)
        BY <2>1, <3>1 DEF CompleteOn
      <3> QED
        BY <1>2, <3>2
    <2>2. CASE v = w
      <3>1. k \in 1..n
        BY <2>2
      <3>2. PICK i \in DOMAIN c : \E a \in DOMAIN c[i].pieces : Shows(c[i].pieces[a], w, k)
        BY <3>1 DEF Continues
      <3>3. i + Len(L) \in DOMAIN new /\ new[i + Len(L)] = c[i]
        BY <1>2, <3>2
      <3> QED
        BY <2>2, <3>2, <3>3
    <2> QED
      BY <2>1, <2>2
  <1>6. UpTo(new, w)
    <2> SUFFICES ASSUME NEW i \in DOMAIN new, NEW a \in DOMAIN new[i].pieces
                 PROVE  new[i].pieces[a].word <= w
      BY DEF UpTo
    <2>1. CASE i \in DOMAIN L
      <3>1. L[i].pieces[a] \in Pieces /\ L[i].pieces[a].word \in Nat
        BY <2>1, <1>2, PieceTypes
      <3> QED
        BY <2>1, <1>1, <1>2, <3>1 DEF UpTo
    <2>2. CASE i \notin DOMAIN L
      <3>1. i - Len(L) \in DOMAIN c /\ new[i] = c[i - Len(L)]
        BY <2>2, <1>3
      <3>2. new[i].pieces[a].word = w
        BY <3>1 DEF Continues
      <3> QED
        BY <1>1, <3>2
    <2> QED
      BY <2>1, <2>2
  <1>7. InOrderOn(new)
    <2> SUFFICES ASSUME NEW i \in DOMAIN new, NEW j \in DOMAIN new,
                        NEW a \in DOMAIN new[i].pieces, NEW b \in DOMAIN new[j].pieces,
                        i < j \/ (i = j /\ a < b)
                 PROVE  Precedes(new[i].pieces[a], new[j].pieces[b])
      BY DEF InOrderOn
    <2>1. CASE i \in DOMAIN L /\ j \in DOMAIN L
      BY <2>1, <1>2 DEF InOrderOn
    <2>2. CASE i \in DOMAIN L /\ j \notin DOMAIN L
      <3>1. new[i].pieces[a].word <= Len(ws) /\ new[i].pieces[a].word \in Nat
        BY <2>2, <1>2, PieceTypes DEF UpTo
      <3>2. j - Len(L) \in DOMAIN c /\ new[j] = c[j - Len(L)]
        BY <2>2, <1>3
      <3>3. new[j].pieces[b].word = w
        BY <3>2 DEF Continues
      <3> QED
        BY <1>1, <3>1, <3>3 DEF Precedes
    <2>3. CASE i \notin DOMAIN L /\ j \notin DOMAIN L
      <3>1. /\ i - Len(L) \in DOMAIN c /\ new[i] = c[i - Len(L)]
            /\ j - Len(L) \in DOMAIN c /\ new[j] = c[j - Len(L)]
        BY <2>3, <1>3
      <3>2. i - Len(L) < j - Len(L) \/ (i - Len(L) = j - Len(L) /\ a < b)
        BY <1>1
      <3> QED
        BY <3>1, <3>2 DEF Continues, InOrderOn
    <2>4. CASE i \notin DOMAIN L /\ j \in DOMAIN L
      BY <2>4, <1>1, <1>4
    <2> QED
      BY <2>1, <2>2, <2>3, <2>4
  <1> QED
    BY <1>5, <1>6, <1>7 DEF new

(* The fields of a piece *)
LEMMA PieceFields ==
  \A w, from, to : /\ Piece(w, from, to).word = w
                   /\ Piece(w, from, to).from = from
                   /\ Piece(w, from, to).to = to
  BY DEF Piece

(* The two ways a word gets lines of its own: cut, or at the beginning of  *)
(* a line.                                                                 *)
LEMMA CutContinues ==
  ASSUME NEW width \in Nat \ {0}, NEW w \in Nat, NEW n \in Nat
  PROVE  Continues(Cut(w, n, width), w, n)
  <1> DEFINE c       == Cut(w, n, width)
             q       == Cuts(n, width)
             From(i) == (i - 1) * width
             To(i)   == IF i * width <= n THEN i * width ELSE n
  <1>1. q \in Nat /\ n <= q * width
    <2>1. q \in Nat /\ n + width - 1 < width * q + width
      BY Division DEF Cuts
    <2>2. width * q = q * width /\ q * width \in Nat
      BY <2>1
    <2> HIDE DEF q
    <2> QED
      BY <2>1, <2>2
  <1>2. DOMAIN c = 1..q
    <2>1. c \in Seq(PaperLines) /\ Len(c) = q
      BY CutLines
    <2> HIDE DEF c, q
    <2> QED
      BY <2>1
  <1>3. \A i \in 1..q : /\ DOMAIN c[i].pieces = {1}
                        /\ c[i].pieces[1] = Piece(w, From(i), To(i))
    <2> SUFFICES ASSUME NEW i \in 1..q
                 PROVE  /\ DOMAIN c[i].pieces = {1}
                        /\ c[i].pieces[1] = Piece(w, From(i), To(i))
      OBVIOUS
    <2>1. c[i].pieces \in Seq(Pieces) /\ Len(c[i].pieces) = 1
      BY CutLines
    <2>2. DOMAIN c[i].pieces = {1}
      <3> DEFINE p == c[i].pieces
      <3>1. p \in Seq(Pieces) /\ Len(p) = 1
        BY <2>1
      <3> HIDE DEF p
      <3>2. DOMAIN p = {1}
        BY <3>1
      <3> QED
        BY <3>2 DEF p
    <2> QED
      <3>1. c[i].pieces[1] = Piece(w, (i - 1) * width, IF i * width <= n THEN i * width ELSE n)
        BY CutLines
      <3> QED
        BY <2>2, <3>1
  <1>4. \A i \in 1..q : \A a \in DOMAIN c[i].pieces : c[i].pieces[a] = Piece(w, From(i), To(i))
    BY <1>3
  <1>5. \A i \in 1..q : /\ From(i) \in Nat /\ i * width = From(i) + width
                        /\ To(i) \in Nat /\ To(i) <= i * width
    <2> SUFFICES ASSUME NEW i \in 1..q
                 PROVE  /\ From(i) \in Nat /\ i * width = From(i) + width
                        /\ To(i) \in Nat /\ To(i) <= i * width
      OBVIOUS
    <2>1. From(i) \in Nat /\ i * width = From(i) + width
      BY CutsFit
    <2>2. i * width \in Nat
      BY <2>1
    <2> QED
      BY <2>1, <2>2
  <1>6. ASSUME NEW k \in 1..n
        PROVE  \E i \in 1..q : From(i) < k /\ k <= To(i)
    <2> DEFINE m == (k + width - 1) \div width
    <2>1. m \in Nat /\ width * m <= k + width - 1 /\ k + width - 1 < width * m + width
      BY Division
    <2>2. width * m = m * width /\ m * width \in Nat
      BY <2>1
    <2> HIDE DEF m
    <2>3. k <= m * width /\ m * width < k + width
      BY <2>1, <2>2
    <2>4. m # 0
      BY <2>3
    <2>5. m - 1 \in Nat /\ (m - 1) * width = m * width - width
      BY <2>1, <2>4
    <2>6. m <= q
      <3> SUFFICES ASSUME m > q PROVE FALSE
        BY <1>1, <2>1
      <3>1. q <= m - 1
        BY <1>1, <2>1
      <3> HIDE DEF q
      <3>2. q * width <= (m - 1) * width
        BY <1>1, <2>5, <3>1, Monotone
      <3>3. q * width \in Nat
        BY <1>1
      <3> QED
        BY <1>1, <2>2, <2>3, <2>5, <3>2, <3>3
    <2>7. m \in 1..q
      BY <1>1, <2>1, <2>4, <2>6
    <2>8. From(m) < k /\ k <= To(m)
      BY <2>2, <2>3, <2>5
    <2> QED
      BY <2>7, <2>8
  <1>7. \A k \in 1..n : \E i \in DOMAIN c : \E a \in DOMAIN c[i].pieces : Shows(c[i].pieces[a], w, k)
    <2> SUFFICES ASSUME NEW k \in 1..n
                 PROVE  \E i \in DOMAIN c : \E a \in DOMAIN c[i].pieces : Shows(c[i].pieces[a], w, k)
      OBVIOUS
    <2>1. PICK i \in 1..q : From(i) < k /\ k <= To(i)
      BY <1>6
    <2> HIDE DEF c, q, From, To
    <2>2. 1 \in DOMAIN c[i].pieces /\ c[i].pieces[1] = Piece(w, From(i), To(i))
      BY <1>3
    <2>3. Shows(c[i].pieces[1], w, k)
      BY <2>1, <2>2, PieceFields DEF Shows
    <2> QED
      BY <1>2, <2>2, <2>3
  <1>8. InOrderOn(c)
    <2> SUFFICES ASSUME NEW i \in 1..q, NEW j \in 1..q,
                        NEW a \in DOMAIN c[i].pieces, NEW b \in DOMAIN c[j].pieces,
                        i < j \/ (i = j /\ a < b)
                 PROVE  Precedes(c[i].pieces[a], c[j].pieces[b])
      BY <1>2 DEF InOrderOn
    <2>1. i < j
      BY <1>1, <1>3
    <2>2. To(i) <= From(j)
      <3>1. i \in Nat /\ j - 1 \in Nat /\ i <= j - 1
        BY <1>1, <2>1
      <3>2. i * width <= (j - 1) * width
        BY <3>1, Monotone
      <3>3. i * width \in Nat
        BY <3>1
      <3> QED
        BY <1>5, <3>2, <3>3
    <2> HIDE DEF c, q, From, To
    <2>3. c[i].pieces[a] = Piece(w, From(i), To(i)) /\ c[j].pieces[b] = Piece(w, From(j), To(j))
      BY <1>4
    <2> QED
      BY <2>2, <2>3 DEF Precedes, Piece
  <1>9. \A i \in DOMAIN c : \A a \in DOMAIN c[i].pieces : c[i].pieces[a].word = w
    <2> HIDE DEF c, q, From, To
    <2> QED
      BY <1>2, <1>4, PieceFields
  <1> HIDE DEF c
  <1>10. Continues(c, w, n)
    BY <1>7, <1>8, <1>9 DEF Continues
  <1> QED
    BY <1>10 DEF c

(* A line of one word shows that word. *)
LEMMA WordContinues ==
  ASSUME NEW w \in Nat, NEW n \in Nat
  PROVE  Continues(<<[len |-> n, pieces |-> <<Piece(w, 0, n)>>]>>, w, n)
  <1> DEFINE line == [len |-> n, pieces |-> <<Piece(w, 0, n)>>]
             c    == <<line>>
  <1>1. line.pieces = <<Piece(w, 0, n)>> /\ DOMAIN line.pieces = {1} /\ line.pieces[1] = Piece(w, 0, n)
    <2> DEFINE p == Piece(w, 0, n)
    <2>1. DOMAIN <<p>> = {1} /\ <<p>>[1] = p
      OBVIOUS
    <2> QED
      BY <2>1
  <1> HIDE DEF line
  <1>2. DOMAIN c = {1} /\ c[1] = line
    OBVIOUS
  <1> HIDE DEF c
  <1>3. \A i \in DOMAIN c : \A a \in DOMAIN c[i].pieces : c[i].pieces[a] = Piece(w, 0, n)
    BY <1>1, <1>2
  <1>4. \A k \in 1..n : \E i \in DOMAIN c : \E a \in DOMAIN c[i].pieces : Shows(c[i].pieces[a], w, k)
    BY <1>1, <1>2, PieceFields DEF Shows
  <1>5. InOrderOn(c)
    BY <1>1, <1>2 DEF InOrderOn
  <1>6. \A i \in DOMAIN c : \A a \in DOMAIN c[i].pieces : c[i].pieces[a].word = w
    BY <1>3, PieceFields
  <1>7. Continues(c, w, n)
    BY <1>4, <1>5, <1>6 DEF Continues
  <1> QED
    BY <1>7 DEF c, line

(* A word put on the open line, which is the last of the lines L *)
LEMMA Joined ==
  ASSUME NEW R \in Seq(PaperLines), NEW old \in PaperLines, NEW length \in Nat,
         NEW ws \in Seq(Nat), NEW n \in Nat,
         CompleteOn(Append(R, old), ws), InOrderOn(Append(R, old)),
         UpTo(Append(R, old), Len(ws))
  PROVE  LET line == [len |-> length, pieces |-> Append(old.pieces, Piece(Len(ws) + 1, 0, n))]
         IN /\ CompleteOn(Append(R, line), Append(ws, n))
            /\ InOrderOn(Append(R, line))
            /\ UpTo(Append(R, line), Len(ws) + 1)
  <1> DEFINE w     == Len(ws) + 1
             piece == Piece(w, 0, n)
             line  == [len |-> length, pieces |-> Append(old.pieces, piece)]
             L     == Append(R, old)
             new   == Append(R, line)
             last  == Len(R) + 1
  <1>1. w \in Nat /\ Len(ws) \in Nat /\ piece \in Pieces
    BY DEF Piece, Pieces
  <1>2. piece.word = w /\ piece.from = 0 /\ piece.to = n
    BY PieceFields
  <1> HIDE DEF piece
  <1>3. old.pieces \in Seq(Pieces)
    BY DEF PaperLines
  <1>4. line \in PaperLines /\ line.pieces = Append(old.pieces, piece)
    BY <1>1, <1>3 DEF PaperLines
  <1> DEFINE end == Len(old.pieces) + 1
  <1>5. /\ DOMAIN line.pieces = 1..end /\ DOMAIN old.pieces = 1..(end - 1) /\ end \in Nat \ {0}
        /\ line.pieces[end] = piece
        /\ \A a \in 1..(end - 1) : line.pieces[a] = old.pieces[a]
    BY <1>1, <1>3, <1>4
  <1> HIDE DEF line, end
  <1>6. /\ DOMAIN L = 1..last /\ DOMAIN new = 1..last /\ last \in Nat
        /\ L[last] = old /\ new[last] = line
        /\ \A i \in 1..last : i # last => new[i] = L[i]
        /\ L \in Seq(PaperLines) /\ new \in Seq(PaperLines)
    BY <1>4
  <1> HIDE DEF L, new, last
  (* Every piece of the new lines is one of the old, or the new one *)
  <1>7. ASSUME NEW i \in DOMAIN new, NEW a \in DOMAIN new[i].pieces
        PROVE  \/ a \in DOMAIN L[i].pieces /\ new[i].pieces[a] = L[i].pieces[a]
               \/ i = last /\ a = end /\ new[i].pieces[a] = piece
    <2>1. CASE i # last
      BY <1>6, <2>1
    <2>2. CASE i = last
      <3>1. new[i] = line /\ L[i] = old
        BY <1>6, <2>2
      <3>2. a \in 1..end /\ (a \in 1..(end - 1) \/ a = end)
        BY <1>5, <3>1
      <3> QED
        BY <1>5, <2>2, <3>1, <3>2
    <2> QED
      BY <2>1, <2>2
  <1>8. \A i \in DOMAIN L : \A a \in DOMAIN L[i].pieces :
          i \in DOMAIN new /\ a \in DOMAIN new[i].pieces /\ new[i].pieces[a] = L[i].pieces[a]
    BY <1>5, <1>6
  <1>9. CompleteOn(new, Append(ws, n))
    <2> SUFFICES ASSUME NEW v \in DOMAIN Append(ws, n), NEW k \in 1..Append(ws, n)[v]
                 PROVE  \E i \in DOMAIN new : \E a \in DOMAIN new[i].pieces :
                          Shows(new[i].pieces[a], v, k)
      BY DEF CompleteOn
    <2>1. CASE v \in DOMAIN ws
      <3>1. k \in 1..ws[v]
        BY <2>1
      <3>2. CompleteOn(L, ws)
        BY DEF L
      <3>3. PICK i \in DOMAIN L : \E a \in DOMAIN L[i].pieces : Shows(L[i].pieces[a], v, k)
        BY <2>1, <3>1, <3>2 DEF CompleteOn
      <3> QED
        BY <1>8, <3>3
    <2>2. CASE v = w
      <3>1. k \in 1..n
        BY <2>2
      <3>2. Shows(piece, v, k)
        BY <1>2, <2>2, <3>1 DEF Shows
      <3>3. last \in DOMAIN new /\ end \in DOMAIN new[last].pieces /\ new[last].pieces[end] = piece
        BY <1>5, <1>6
      <3> QED
        BY <3>2, <3>3
    <2>3. v \in DOMAIN ws \/ v = w
      OBVIOUS
    <2> QED
      BY <2>1, <2>2, <2>3
  <1>10. UpTo(L, Len(ws)) /\ InOrderOn(L)
    BY DEF L
  <1>11. UpTo(new, w)
    <2> SUFFICES ASSUME NEW i \in DOMAIN new, NEW a \in DOMAIN new[i].pieces
                 PROVE  new[i].pieces[a].word <= w
      BY DEF UpTo
    <2>1. CASE a \in DOMAIN L[i].pieces /\ new[i].pieces[a] = L[i].pieces[a]
      <3>1. i \in DOMAIN L
        BY <1>6
      <3>2. L[i].pieces[a].word \in Nat
        BY <1>6, <2>1, <3>1, PieceTypes
      <3>3. L[i].pieces[a].word <= Len(ws)
        BY <1>10, <2>1, <3>1 DEF UpTo
      <3> QED
        BY <1>1, <2>1, <3>2, <3>3
    <2>2. CASE new[i].pieces[a] = piece
      BY <1>1, <1>2, <2>2
    <2> QED
      BY <1>7, <2>1, <2>2
  <1>12. InOrderOn(new)
    <2> SUFFICES ASSUME NEW i \in DOMAIN new, NEW j \in DOMAIN new,
                        NEW a \in DOMAIN new[i].pieces, NEW b \in DOMAIN new[j].pieces,
                        i < j \/ (i = j /\ a < b)
                 PROVE  Precedes(new[i].pieces[a], new[j].pieces[b])
      BY DEF InOrderOn
    <2>1. i \in DOMAIN L /\ j \in DOMAIN L
      BY <1>6
    <2>2. CASE /\ a \in DOMAIN L[i].pieces /\ new[i].pieces[a] = L[i].pieces[a]
               /\ b \in DOMAIN L[j].pieces /\ new[j].pieces[b] = L[j].pieces[b]
      BY <1>10, <2>1, <2>2 DEF InOrderOn
    <2>3. CASE /\ a \in DOMAIN L[i].pieces /\ new[i].pieces[a] = L[i].pieces[a]
               /\ new[j].pieces[b] = piece
      <3>1. L[i].pieces[a].word \in Nat
        BY <1>6, <2>1, <2>3, PieceTypes
      <3>2. L[i].pieces[a].word <= Len(ws)
        BY <1>10, <2>1, <2>3 DEF UpTo
      <3>3. L[i].pieces[a].word < piece.word
        BY <1>1, <1>2, <3>1, <3>2
      <3> QED
        BY <2>3, <3>3 DEF Precedes
    <2>4. CASE i = last /\ a = end
      <3>1. j = last
        BY <1>6, <2>1, <2>4
      <3>2. b \in 1..end
        BY <1>5, <1>6, <3>1
      <3> QED
        BY <1>5, <1>6, <2>4, <3>1, <3>2
    <2> QED
      BY <1>7, <2>2, <2>3, <2>4
  <1> QED
    BY <1>9, <1>11, <1>12 DEF new, line, piece

-----------------------------------------------------------------------------
(* What the lines of a text show, for the words taken so far *)
ShowsText(t, ws) ==
  CompleteOn(Flushed(t), ws) /\ InOrderOn(Flushed(t)) /\ UpTo(Flushed(t), Len(ws))

(* One word more on lines of its own, on the open line, or on none (the    *)
(* empty word behind a space at the end).                                  *)
LEMMA WrapShows ==
  ASSUME NEW width \in Nat \ {0}, NEW t \in Wraps, Fits(t, width), NEW ws \in Seq(Nat), NEW n \in Nat, ShowsText(t, ws)
  PROVE  ShowsText(WrapWord(t, Len(ws) + 1, n, width), Append(ws, n))
  <1> DEFINE w     == Len(ws) + 1
             next  == WrapWord(t, w, n, width)
             fresh == [len |-> n, pieces |-> <<Piece(w, 0, n)>>]
  <1> SUFFICES ShowsText(next, Append(ws, n))
    OBVIOUS
  <1>1. /\ t.result \in Seq(PaperLines) /\ t.line \in PaperLines /\ t.line.len \in Nat
        /\ w \in Nat /\ Flushed(t) \in Seq(PaperLines) /\ Len(Append(ws, n)) = w
    <2>1. t.result \in Seq(PaperLines) /\ t.line \in PaperLines /\ t.line.len \in Nat
      BY DEF Wraps, PaperLines
    <2>2. w \in Nat /\ Len(Append(ws, n)) = w
      OBVIOUS
    <2> QED
      BY <2>1, <2>2, FlushedFits
  <1>2. /\ CompleteOn(Flushed(t), ws) /\ InOrderOn(Flushed(t)) /\ UpTo(Flushed(t), Len(ws))
    BY DEF ShowsText
  (* Lines of its own *)
  <1>3. ASSUME NEW c \in Seq(PaperLines), Continues(c, w, n), Flushed(next) = Flushed(t) \o c
        PROVE  ShowsText(next, Append(ws, n))
    <2>1. /\ CompleteOn(Flushed(t) \o c, Append(ws, n))
          /\ InOrderOn(Flushed(t) \o c)
          /\ UpTo(Flushed(t) \o c, Len(ws) + 1)
      BY <1>1, <1>2, <1>3, Continued
    <2> HIDE DEF next
    <2> QED
      BY <1>1, <1>3, <2>1 DEF ShowsText
  <1>4. fresh \in PaperLines /\ <<fresh>> \in Seq(PaperLines) /\ fresh.len = n
    <2>1. <<Piece(w, 0, n)>> \in Seq(Pieces)
      BY <1>1 DEF Piece, Pieces
    <2>2. fresh \in PaperLines /\ fresh.len = n
      BY <2>1 DEF PaperLines
    <2> HIDE DEF fresh
    <2> QED
      BY <2>2
  <1>5. Continues(<<fresh>>, w, n)
    BY <1>1, WordContinues
  (* The word is the first one on a line. *)
  <1>6. ASSUME next.line = fresh,
               Flushed(next) = IF n = 0 THEN Flushed(t) ELSE Append(Flushed(t), fresh)
        PROVE  ShowsText(next, Append(ws, n))
    <2> HIDE DEF next, fresh
    <2>1. CASE n # 0
      <3>1. Flushed(next) = Flushed(t) \o <<fresh>>
        BY <1>1, <1>4, <1>6, <2>1
      <3> QED
        BY <1>3, <1>4, <1>5, <3>1
    <2>2. CASE n = 0
      <3>1. Flushed(next) = Flushed(t)
        BY <1>6, <2>2
      <3>2. CompleteOn(Flushed(t), Append(ws, n))
        <4> SUFFICES ASSUME NEW v \in DOMAIN Append(ws, n), NEW k \in 1..Append(ws, n)[v]
                     PROVE  \E i \in DOMAIN Flushed(t) : \E a \in DOMAIN Flushed(t)[i].pieces :
                              Shows(Flushed(t)[i].pieces[a], v, k)
          BY DEF CompleteOn
        <4>1. v \in DOMAIN ws /\ k \in 1..ws[v]
          BY <2>2
        <4> QED
          BY <1>2, <4>1 DEF CompleteOn
      <3>3. UpTo(Flushed(t), w)
        <4> SUFFICES ASSUME NEW i \in DOMAIN Flushed(t), NEW a \in DOMAIN Flushed(t)[i].pieces
                     PROVE  Flushed(t)[i].pieces[a].word <= w
          BY DEF UpTo
        <4>1. Flushed(t)[i].pieces[a].word \in Nat
          BY <1>1, PieceTypes
        <4>2. Flushed(t)[i].pieces[a].word <= Len(ws)
          BY <1>2 DEF UpTo
        <4> QED
          BY <1>1, <4>1, <4>2
      <3> QED
        BY <1>1, <1>2, <3>1, <3>2, <3>3 DEF ShowsText
    <2> QED
      BY <2>1, <2>2
  <1>7. CASE n > width
    <2>1. next = [result |-> Flushed(t) \o Cut(w, n, width), line |-> NoLine]
      BY <1>7 DEF WrapWord
    <2>2. Flushed(next) = Flushed(t) \o Cut(w, n, width)
      <3>1. next.result = Flushed(t) \o Cut(w, n, width) /\ next.line.len = 0
        BY <2>1, NoLineType
      <3> HIDE DEF next
      <3>2. Flushed(next) = next.result
        BY <3>1 DEF Flushed
      <3> QED
        BY <3>1, <3>2
    <2>3. Cut(w, n, width) \in Seq(PaperLines) /\ Continues(Cut(w, n, width), w, n)
      BY <1>1, CutFits, CutContinues
    <2> HIDE DEF next
    <2> QED
      BY <1>3, <2>2, <2>3
  <1>8. CASE ~(n > width) /\ candidate(t.line, w, n).len > width
    <2>1. next = [result |-> Flushed(t), line |-> candidate(NoLine, w, n)]
      BY <1>8 DEF WrapWord
    <2>2. candidate(NoLine, w, n) = fresh
      BY NoLineType DEF candidate
    <2>3. next.line = fresh /\ next.result = Flushed(t)
      BY <2>1, <2>2
    <2> HIDE DEF next, fresh
    <2>4. Flushed(next) = IF n = 0 THEN Flushed(t) ELSE Append(Flushed(t), fresh)
      BY <1>4, <2>3 DEF Flushed
    <2> QED
      BY <1>6, <2>3, <2>4
  <1>9. CASE ~(n > width) /\ ~(candidate(t.line, w, n).len > width)
    <2>1. next = [t EXCEPT !.line = candidate(t.line, w, n)]
      BY <1>9 DEF WrapWord
    <2>2. next.result = t.result /\ next.line = candidate(t.line, w, n)
      BY <2>1 DEF Wraps
    <2>3. CASE t.line.len = 0
      <3>1. next.line = fresh
        BY <2>2, <2>3 DEF candidate
      <3>2. Flushed(t) = t.result
        BY <2>3 DEF Flushed
      <3> HIDE DEF next, fresh
      <3>3. Flushed(next) = IF n = 0 THEN Flushed(t) ELSE Append(Flushed(t), fresh)
        BY <1>4, <2>2, <3>1, <3>2 DEF Flushed
      <3> QED
        BY <1>6, <3>1, <3>3
    <2>4. CASE t.line.len # 0
      <3> DEFINE length == t.line.len + 1 + n
                 line   == [len |-> length, pieces |-> Append(t.line.pieces, Piece(w, 0, n))]
      <3>1. next.line = line
        BY <2>2, <2>4 DEF candidate
      <3>2. Flushed(t) = Append(t.result, t.line)
        BY <2>4 DEF Flushed
      <3>3. length \in Nat /\ length # 0
        BY <1>1
      <3>4. line.len = length
        OBVIOUS
      <3> HIDE DEF next
      <3>5. Flushed(next) = Append(t.result, line)
        BY <2>2, <3>1, <3>3, <3>4 DEF Flushed
      <3>6. /\ CompleteOn(Append(t.result, line), Append(ws, n))
            /\ InOrderOn(Append(t.result, line))
            /\ UpTo(Append(t.result, line), Len(ws) + 1)
        BY <1>1, <1>2, <3>2, <3>3, Joined
      <3> HIDE DEF line
      <3> QED
        BY <1>1, <3>5, <3>6 DEF ShowsText
    <2> QED
      BY <2>3, <2>4
  <1> QED
    BY <1>7, <1>8, <1>9

(* Before the first word there is nothing to fit and nothing to show. *)
LEMMA NothingWrapped ==
  ASSUME NEW width \in Nat \ {0}
  PROVE  LET t == [result |-> <<>>, line |-> NoLine]
         IN t \in Wraps /\ Fits(t, width) /\ ShowsText(t, <<>>)
  <1> DEFINE t == [result |-> <<>>, line |-> NoLine]
  <1>1. t \in Wraps /\ t.result = <<>> /\ t.line = NoLine
    BY NoLineType DEF Wraps
  <1> HIDE DEF t
  <1>2. Flushed(t) = <<>>
    BY <1>1, NoLineType DEF Flushed
  <1>3. Fits(t, width)
    BY <1>1, NoLineType DEF Fits
  <1>4. ShowsText(t, <<>>)
    BY <1>2 DEF ShowsText, CompleteOn, InOrderOn, UpTo
  <1>5. t \in Wraps /\ Fits(t, width) /\ ShowsText(t, <<>>)
    BY <1>1, <1>3, <1>4
  <1> QED
    BY <1>5 DEF t

-----------------------------------------------------------------------------
(* The inductive invariant: of the open line, too, it says that it fits,   *)
(* and that no line shows a word that was not taken yet.                   *)
IInv ==
  /\ words \in Seq(Nat)
  /\ text \in Wraps
  /\ Fits(text, Width)
  /\ ShowsText(text, words)

(* No word has been wrapped at first. *)
LEMMA InvariantStarts == WrapInit => IInv
  BY NothingWrapped, WidthAssumption DEF WrapInit, IInv

(* Wrapping one more word keeps the invariant. *)
LEMMA InvariantKept == IInv /\ [WrapNext]_wrapVars => IInv'
  <1> SUFFICES ASSUME IInv, [WrapNext]_wrapVars PROVE IInv'
    OBVIOUS
  <1>1. ASSUME NEW n \in Nat, Take(n) PROVE IInv'
    <2>1. /\ words' = Append(words, n)
          /\ text' = WrapWord(text, Len(words) + 1, n, Width)
          /\ words \in Seq(Nat) /\ text \in Wraps /\ Fits(text, Width) /\ ShowsText(text, words)
      BY <1>1 DEF Take, IInv
    <2>2. words' \in Seq(Nat) /\ Len(words) + 1 \in Nat
      BY <2>1
    <2>3. text' \in Wraps /\ Fits(text', Width)
      BY <2>1, <2>2, WidthAssumption, WrapFits
    <2>4. ShowsText(text', words')
      BY <2>1, WidthAssumption, WrapShows
    <2> QED
      BY <2>2, <2>3, <2>4 DEF IInv
  <1>2. CASE UNCHANGED wrapVars
    BY <1>2 DEF wrapVars, IInv
  <1> QED
    BY <1>1, <1>2 DEF WrapNext

(* The invariant gives the three properties. *)
LEMMA InvariantGives == IInv => WrapTypeOK /\ LinesFit /\ NothingLost
  <1> SUFFICES ASSUME IInv PROVE WrapTypeOK /\ LinesFit /\ NothingLost
    OBVIOUS
  <1>1. WrapTypeOK
    BY DEF IInv, WrapTypeOK, Wraps
  <1>2. LinesFit
    BY FlushedFits, WidthAssumption DEF IInv, LinesFit, Lines
  <1>3. Complete /\ InOrder
    BY DEF IInv, ShowsText, CompleteOn, InOrderOn, Complete, InOrder, Lines
  <1> QED
    BY <1>1, <1>2, <1>3 DEF NothingLost

(* The invariant holds in every state. *)
LEMMA Invariant == WrapSpec => []IInv
  BY InvariantStarts, InvariantKept, PTL DEF WrapSpec

(* The finished lines and the open one are what the code says they are.    *)
THEOREM TypeCorrect == WrapSpec => []WrapTypeOK
  BY Invariant, InvariantGives, PTL

(* On paper of any width no line is wider than the paper or empty, and     *)
(* every letter of any words is on a line, once and in its place.          *)
THEOREM WrapsFaithfullyHolds == WrapSpec => []WrapsFaithfully
<1>1. IInv => WrapsFaithfully
  BY InvariantGives DEF WrapsFaithfully
<1>2. QED
  BY <1>1, Invariant, PTL

-----------------------------------------------------------------------------
(* One round of wrapWords, and a function that goes through m of them       *)
WrapStep(ws, width, g, i) ==
  IF i = 0 THEN [result |-> <<>>, line |-> NoLine]
  ELSE Only({WrapWord(before, i, ws[i], width) : before \in {g[i - 1]}})

Wrapping(ws, width, g, m) == g = [i \in 0..m |-> WrapStep(ws, width, g, i)]

(* Only takes the element out of a set of one. *)
LEMMA OnlyIs == \A x : Only({x}) = x
  BY DEF Only

(* A round after the first takes one word. *)
LEMMA WrapStepIs ==
  ASSUME NEW ws, NEW width, NEW g, NEW i \in Nat \ {0}
  PROVE  WrapStep(ws, width, g, i) = WrapWord(g[i - 1], i, ws[i], width)
  <1>1. {WrapWord(before, i, ws[i], width) : before \in {g[i - 1]}}
          = {WrapWord(g[i - 1], i, ws[i], width)}
    OBVIOUS
  <1> QED
    BY <1>1, OnlyIs DEF WrapStep

(* There is such a function, for any number of rounds. *)
LEMMA WrappingExists ==
  ASSUME NEW ws, NEW width, NEW l \in Nat
  PROVE  \E g : Wrapping(ws, width, g, l)
  <1> DEFINE T == {m \in Nat : ~\E g : Wrapping(ws, width, g, m)}
  <1> SUFFICES ASSUME T # {} PROVE FALSE
    OBVIOUS
  <1>1. PICK m \in T : \A n \in T : m <= n
    BY LeastElement
  <1>2. m # 0
    <2>1. Wrapping(ws, width, [n \in 0..0 |-> [result |-> <<>>, line |-> NoLine]], 0)
      BY DEF Wrapping, WrapStep
    <2> QED
      BY <2>1
  <1>3. m - 1 \in Nat /\ m - 1 \notin T
    BY <1>1, <1>2
  <1>4. PICK g : Wrapping(ws, width, g, m - 1)
    BY <1>3
  <1> DEFINE h == [n \in 0..m |-> IF n = m THEN WrapStep(ws, width, g, m) ELSE g[n]]
  <1>5. ASSUME NEW n \in 0..m PROVE h[n] = WrapStep(ws, width, h, n)
    <2>1. CASE n = m
      <3>1. h[m - 1] = g[m - 1] /\ m \in Nat \ {0}
        BY <1>2, <1>3
      <3>2. h[m] = WrapStep(ws, width, g, m)
        BY <3>1
      <3> HIDE DEF h
      <3>3. WrapStep(ws, width, g, m) = WrapStep(ws, width, h, m)
        BY <3>1, WrapStepIs
      <3> QED
        BY <2>1, <3>2, <3>3
    <2>2. CASE n # m
      <3>1. n \in 0..(m - 1) /\ h[n] = g[n]
        BY <1>3, <2>2
      <3>2. g[n] = WrapStep(ws, width, g, n)
        BY <1>4, <3>1 DEF Wrapping
      <3>3. n # 0 => h[n - 1] = g[n - 1] /\ n \in Nat \ {0}
        BY <2>2, <1>3
      <3> HIDE DEF h
      <3>4. CASE n = 0
        BY <3>1, <3>2, <3>4 DEF WrapStep
      <3>5. CASE n # 0
        BY <3>1, <3>2, <3>3, <3>5, WrapStepIs
      <3> QED
        BY <3>4, <3>5
    <2> QED
      BY <2>1, <2>2
  <1>6. Wrapping(ws, width, h, m)
    <2> HIDE DEF h
    <2>1. h = [n \in 0..m |-> h[n]]
      BY DEF h
    <2> QED
      BY <1>5, <2>1 DEF Wrapping
  <1> QED
    BY <1>6

(* wrapWords flushes what it ends with. *)
LEMMA WrapWordsIsLast ==
  ASSUME NEW ws, NEW width, Len(ws) \in Nat
  PROVE  \E g : Wrapping(ws, width, g, Len(ws)) /\ wrapWords(ws, width) = Flushed(g[Len(ws)])
  <1> DEFINE wrapped == CHOOSE g : Wrapping(ws, width, g, Len(ws))
  <1>1. Wrapping(ws, width, wrapped, Len(ws))
    BY WrappingExists
  <1>2. wrapWords(ws, width) = Flushed(wrapped[Len(ws)])
    BY DEF wrapWords, Wrapping, WrapStep
  <1> QED
    BY <1>1, <1>2

(* The lines of a whole text fit, none is empty, and every letter is on    *)
(* one of them.                                                            *)
LEMMA WrapWordsShows ==
  ASSUME NEW width \in Nat \ {0}, NEW ws \in Seq(Nat)
  PROVE  /\ wrapWords(ws, width) \in Seq(PaperLines)
         /\ \A i \in DOMAIN wrapWords(ws, width) : wrapWords(ws, width)[i].len \in 1..width
         /\ CompleteOn(wrapWords(ws, width), ws)
  <1>1. PICK g : Wrapping(ws, width, g, Len(ws)) /\ wrapWords(ws, width) = Flushed(g[Len(ws)])
    BY WrapWordsIsLast
  <1> DEFINE First(m) == [i \in 1..m |-> ws[i]]
             Good(m) == g[m] \in Wraps /\ Fits(g[m], width) /\ ShowsText(g[m], First(m))
             T == {m \in 0..Len(ws) : ~Good(m)}
  <1>2. ASSUME T # {} PROVE FALSE
    <2>1. PICK m \in T : \A n \in T : m <= n
      <3>1. T \in SUBSET Nat
        OBVIOUS
      <3> HIDE DEF T
      <3> QED
        BY <1>2, <3>1, LeastElement
    <2>2. m \in 0..Len(ws) /\ g[m] = WrapStep(ws, width, g, m)
      BY <1>1 DEF Wrapping
    <2>3. m # 0
      <3>1. g[0] = [result |-> <<>>, line |-> NoLine]
        BY <1>1 DEF Wrapping, WrapStep
      <3>2. First(0) = <<>>
        OBVIOUS
      <3>3. Good(0)
        BY <3>1, <3>2, NothingWrapped
      <3> HIDE DEF Good
      <3> QED
        BY <2>1, <3>3
    <2>4. m - 1 \in 0..Len(ws) /\ m - 1 \notin T
      BY <2>1, <2>2, <2>3
    <2>5. Good(m - 1)
      BY <2>4
    <2>6. g[m] = WrapWord(g[m - 1], m, ws[m], width)
      BY <2>2, <2>3, WrapStepIs
    <2>7. /\ First(m - 1) \in Seq(Nat) /\ Len(First(m - 1)) = m - 1 /\ ws[m] \in Nat
          /\ First(m) = Append(First(m - 1), ws[m])
      <3>1. ws[m] \in Nat /\ m - 1 \in Nat
        BY <2>2, <2>3, <2>4
      <3>2. First(m - 1) \in Seq(Nat) /\ Len(First(m - 1)) = m - 1
        BY <2>2, <2>4, <3>1
      <3>3. First(m) = Append(First(m - 1), ws[m])
        BY <2>2, <3>1, <3>2
      <3> QED
        BY <3>1, <3>2, <3>3
    <2>8. m \in Nat /\ m = (m - 1) + 1
      BY <2>2
    <2> HIDE DEF First
    <2>9. g[m] \in Wraps /\ Fits(g[m], width)
      BY <2>5, <2>6, <2>7, <2>8, WrapFits
    <2>10. ShowsText(g[m], First(m))
      BY <2>5, <2>6, <2>7, <2>8, WrapShows
    <2> QED
      BY <2>1, <2>9, <2>10
  <1>3. Good(Len(ws))
    <2>1. Len(ws) \in 0..Len(ws) /\ Len(ws) \notin T
      BY <1>2
    <2> QED
      BY <2>1
  <1>4. First(Len(ws)) = ws
    OBVIOUS
  <1> HIDE DEF First
  <1> QED
    BY <1>1, <1>3, <1>4, FlushedFits DEF ShowsText

-----------------------------------------------------------------------------
(* One word of a text that is cut, and a function that goes through m of   *)
(* them                                                                    *)
CutStep(ws, cap, g, i) ==
  IF i = 0 THEN [room |-> cap, text |-> <<>>]
  ELSE Only({InRoom(before, ws[i]) : before \in {g[i - 1]}})

Cutting(ws, cap, g, m) == g = [i \in 0..m |-> CutStep(ws, cap, g, i)]

(* A step after the first takes one word. *)
LEMMA CutStepIs ==
  ASSUME NEW ws, NEW cap, NEW g, NEW i \in Nat \ {0}
  PROVE  CutStep(ws, cap, g, i) = InRoom(g[i - 1], ws[i])
  <1>1. {InRoom(before, ws[i]) : before \in {g[i - 1]}} = {InRoom(g[i - 1], ws[i])}
    OBVIOUS
  <1> QED
    BY <1>1, OnlyIs DEF CutStep

(* There is such a function, for any number of words. *)
LEMMA CuttingExists ==
  ASSUME NEW ws, NEW cap, NEW l \in Nat
  PROVE  \E g : Cutting(ws, cap, g, l)
  <1> DEFINE T == {m \in Nat : ~\E g : Cutting(ws, cap, g, m)}
  <1> SUFFICES ASSUME T # {} PROVE FALSE
    OBVIOUS
  <1>1. PICK m \in T : \A n \in T : m <= n
    BY LeastElement
  <1>2. m # 0
    <2>1. Cutting(ws, cap, [n \in 0..0 |-> [room |-> cap, text |-> <<>>]], 0)
      BY DEF Cutting, CutStep
    <2> QED
      BY <2>1
  <1>3. m - 1 \in Nat /\ m - 1 \notin T
    BY <1>1, <1>2
  <1>4. PICK g : Cutting(ws, cap, g, m - 1)
    BY <1>3
  <1> DEFINE h == [n \in 0..m |-> IF n = m THEN CutStep(ws, cap, g, m) ELSE g[n]]
  <1>5. ASSUME NEW n \in 0..m PROVE h[n] = CutStep(ws, cap, h, n)
    <2>1. CASE n = m
      <3>1. h[m - 1] = g[m - 1] /\ m \in Nat \ {0}
        BY <1>2, <1>3
      <3>2. h[m] = CutStep(ws, cap, g, m)
        BY <3>1
      <3> HIDE DEF h
      <3>3. CutStep(ws, cap, g, m) = CutStep(ws, cap, h, m)
        BY <3>1, CutStepIs
      <3> QED
        BY <2>1, <3>2, <3>3
    <2>2. CASE n # m
      <3>1. n \in 0..(m - 1) /\ h[n] = g[n]
        BY <1>3, <2>2
      <3>2. g[n] = CutStep(ws, cap, g, n)
        BY <1>4, <3>1 DEF Cutting
      <3>3. n # 0 => h[n - 1] = g[n - 1] /\ n \in Nat \ {0}
        BY <2>2, <1>3
      <3> HIDE DEF h
      <3>4. CASE n = 0
        BY <3>1, <3>2, <3>4 DEF CutStep
      <3>5. CASE n # 0
        BY <3>1, <3>2, <3>3, <3>5, CutStepIs
      <3> QED
        BY <3>4, <3>5
    <2> QED
      BY <2>1, <2>2
  <1>6. Cutting(ws, cap, h, m)
    <2> HIDE DEF h
    <2>1. h = [n \in 0..m |-> h[n]]
      BY DEF h
    <2> QED
      BY <1>5, <2>1 DEF Cutting
  <1> QED
    BY <1>6

(* CutAt is what it ends with. *)
LEMMA CutAtIsLast ==
  ASSUME NEW ws, NEW cap, Len(ws) \in Nat
  PROVE  \E g : Cutting(ws, cap, g, Len(ws)) /\ CutAt(ws, cap) = g[Len(ws)]
  <1> DEFINE cut == CHOOSE g : Cutting(ws, cap, g, Len(ws))
  <1>1. Cutting(ws, cap, cut, Len(ws))
    BY CuttingExists
  <1>2. CutAt(ws, cap) = cut[Len(ws)]
    BY DEF CutAt, Cutting, CutStep
  <1> QED
    BY <1>1, <1>2

(* No more words than there were, and none longer than it was              *)
NoLonger(t, ws) == Len(t) <= Len(ws) /\ \A i \in DOMAIN t : t[i] <= ws[i]

(* What is cut off at the cap is a text, and one that stays within the cap *)
(* is whole.                                                               *)
LEMMA CutAtIs ==
  ASSUME NEW cap \in Nat, NEW ws \in Seq(Nat)
  PROVE  /\ CutAt(ws, cap).text \in Seq(Nat) /\ NoLonger(CutAt(ws, cap).text, ws)
         /\ StaysWithin(ws, cap) => CutAt(ws, cap).text = ws
  <1>1. PICK g : Cutting(ws, cap, g, Len(ws)) /\ CutAt(ws, cap) = g[Len(ws)]
    BY CutAtIsLast
  <1> DEFINE First(m) == [i \in 1..m |-> ws[i]]
             Good(m) == /\ g[m].room \in Int /\ g[m].text \in Seq(Nat)
                        /\ NoLonger(g[m].text, ws)
                        /\ g[m].room >= -1 => g[m].text = First(m)
             T == {m \in 0..Len(ws) : ~Good(m)}
  <1>2. ASSUME T # {} PROVE FALSE
    <2>1. PICK m \in T : \A n \in T : m <= n
      <3>1. T \in SUBSET Nat
        OBVIOUS
      <3> HIDE DEF T
      <3> QED
        BY <1>2, <3>1, LeastElement
    <2>2. m \in 0..Len(ws) /\ g[m] = CutStep(ws, cap, g, m)
      BY <1>1 DEF Cutting
    <2>3. m # 0
      <3>1. g[0] = [room |-> cap, text |-> <<>>]
        BY <1>1 DEF Cutting, CutStep
      <3>2. First(0) = <<>>
        OBVIOUS
      <3>3. Good(0)
        BY <3>1, <3>2 DEF NoLonger
      <3> HIDE DEF Good
      <3> QED
        BY <2>1, <3>3
    <2>4. m - 1 \in 0..Len(ws) /\ m - 1 \notin T
      BY <2>1, <2>2, <2>3
    <2>5. Good(m - 1)
      BY <2>4
    <2>6. g[m] = InRoom(g[m - 1], ws[m])
      BY <2>2, <2>3, CutStepIs
    <2>7. /\ ws[m] \in Nat /\ First(m - 1) \in Seq(Nat) /\ First(m) = Append(First(m - 1), ws[m])
          /\ Len(First(m - 1)) = m - 1
      <3>1. ws[m] \in Nat /\ m - 1 \in Nat
        BY <2>2, <2>3, <2>4
      <3>2. First(m - 1) \in Seq(Nat) /\ Len(First(m - 1)) = m - 1
        BY <2>2, <2>4, <3>1
      <3>3. First(m) = Append(First(m - 1), ws[m])
        BY <2>2, <3>1, <3>2
      <3> QED
        BY <3>1, <3>2, <3>3
    <2> HIDE DEF First
    <2>8. PICK before : before = g[m - 1]
      OBVIOUS
    <2>9. PICK n \in Nat : n = ws[m]
      BY <2>7
    <2>10. /\ before.room \in Int /\ before.text \in Seq(Nat)
           /\ before.room >= -1 => before.text = First(m - 1)
           /\ NoLonger(before.text, ws)
      BY <2>5, <2>8
    <2>11. /\ g[m].room = before.room - n - 1
           /\ g[m].text = IF before.room < 0 THEN before.text
                          ELSE Append(before.text, Smaller(n, before.room))
      BY <2>6, <2>8, <2>9 DEF InRoom
    <2>12. before.room >= 0 => Smaller(n, before.room) \in Nat /\ Smaller(n, before.room) <= n
      BY <2>10 DEF Smaller
    <2>13. g[m].room \in Int /\ g[m].text \in Seq(Nat)
      BY <2>10, <2>11, <2>12
    <2>14. ASSUME g[m].room >= -1 PROVE g[m].text = First(m)
      <3>1. before.room >= 0 /\ Smaller(n, before.room) = n
        BY <2>10, <2>11, <2>14 DEF Smaller
      <3> QED
        BY <2>7, <2>9, <2>10, <2>11, <3>1
    <2>15. NoLonger(g[m].text, ws)
      <3>1. CASE before.room < 0
        BY <2>10, <2>11, <3>1
      <3>2. CASE before.room >= 0
        <4>1. PICK k \in Nat : k = Smaller(n, before.room) /\ k <= ws[m]
          BY <2>9, <2>12, <3>2
        <4>2. ~(before.room < 0) /\ before.room >= -1
          BY <2>10, <3>2
        <4>3. g[m].text = Append(before.text, k) /\ Len(before.text) = m - 1
          BY <2>7, <2>10, <2>11, <4>1, <4>2
        <4> QED
          BY <2>2, <2>3, <2>10, <4>1, <4>3 DEF NoLonger
      <3> QED
        BY <2>10, <3>1, <3>2
    <2> QED
      BY <2>1, <2>13, <2>14, <2>15
  <1>3. Good(Len(ws))
    <2>1. PICK n \in Nat : n = Len(ws)
      OBVIOUS
    <2>2. n \in 0..Len(ws)
      BY <2>1
    <2> HIDE DEF Good
    <2>3. n \notin T
      <3> HIDE DEF T
      <3> QED
        BY <1>2
    <2> QED
      BY <2>1, <2>2, <2>3
  <1>4. First(Len(ws)) = ws
    OBVIOUS
  <1> HIDE DEF First
  <1> QED
    BY <1>1, <1>3, <1>4 DEF StaysWithin

(* No word of the text is empty. *)
NoGap(ws) == \A w \in DOMAIN ws : ws[w] # 0

(* What sanitizeText leaves is a text, and is the whole text where that is *)
(* within the cap.                                                         *)
LEMMA SanitizeIs ==
  ASSUME NEW cap \in Nat, NEW ws \in Seq(Nat)
  PROVE  /\ sanitizeText(ws, cap) \in Seq(Nat) /\ NoLonger(sanitizeText(ws, cap), ws)
         /\ NoGap(ws) /\ StaysWithin(ws, cap) => sanitizeText(ws, cap) = ws
  <1> DEFINE ends == ws # <<>> /\ ws[Len(ws)] = 0
             trimmed == IF ends THEN SubSeq(ws, 1, Len(ws) - 1) ELSE ws
  <1>1. /\ trimmed \in Seq(Nat) /\ Len(trimmed) <= Len(ws)
        /\ \A i \in DOMAIN trimmed : trimmed[i] = ws[i]
    OBVIOUS
  <1>2. NoGap(ws) => trimmed = ws
    BY DEF NoGap
  <1>3. sanitizeText(ws, cap) = CutAt(trimmed, cap).text
    BY DEF sanitizeText
  <1> HIDE DEF trimmed
  <1> DEFINE t == sanitizeText(ws, cap)
  <1>4. t \in Seq(Nat) /\ NoLonger(t, trimmed)
    BY <1>1, <1>3, CutAtIs
  <1>5. NoLonger(t, ws)
    <2> HIDE DEF t
    <2>1. \A i \in DOMAIN t : i \in DOMAIN trimmed
      BY <1>1, <1>4 DEF NoLonger
    <2> QED
      BY <1>1, <1>4, <2>1 DEF NoLonger
  <1> QED
    BY <1>2, <1>3, <1>4, <1>5, CutAtIs

(* A text that wrapText puts on paper whole                                *)
Whole(ws) == NoGap(ws) /\ StaysWithin(ws, MaxText)

(* The lines of any text fit, none is empty, and every letter of a text    *)
(* that is within the cap is on one of them.                               *)
THEOREM WrapTextShows ==
  ASSUME NEW width \in Nat \ {0}, NEW ws \in Seq(Nat)
  PROVE  /\ wrapText(ws, width) \in Seq(PaperLines)
         /\ \A i \in DOMAIN wrapText(ws, width) : wrapText(ws, width)[i].len \in 1..width
         /\ Whole(ws) => CompleteOn(wrapText(ws, width), ws)
  <1> DEFINE kept == sanitizeText(ws, MaxText)
  <1>1. kept \in Seq(Nat) /\ (Whole(ws) => kept = ws)
    <2>1. PICK cap \in Nat : cap = MaxText
      BY DEF MaxText
    <2> QED
      BY <2>1, SanitizeIs DEF Whole
  <1>2. wrapText(ws, width) = wrapWords(kept, width)
    <2>1. {wrapWords(capped, width) : capped \in {kept}} = {wrapWords(kept, width)}
      OBVIOUS
    <2> QED
      BY <2>1, OnlyIs DEF wrapText
  <1> HIDE DEF kept
  <1> QED
    BY <1>1, <1>2, WrapWordsShows

-----------------------------------------------------------------------------
(* KitchenBon: for any orders of the contract, on paper of 48 characters   *)
(* or more.                                                                *)

ItemNames == {"name", "variation", "notes", "old name", "old variation", "old notes", "no notes"}
BonParts ==
  {<<"layout">>, <<"reference">>, <<"price">>, <<"order notes", 0>>} \cup (ItemNames \X Nat)
BonLines == [part : BonParts, len : Nat, pieces : Seq(Pieces)]

(* Where the parts of the items stand: by item, the old version first      *)
Rank(part) == 2 * part[2] + VersionRank(part)

(* Lines of no item, and lines of one version of one item *)
LayoutLines == {line \in BonLines : ~ofItem(line) /\ OnPaper(line)}

RankLines(r) ==
  {line \in BonLines : OnPaper(line) /\ (ofItem(line) => Rank(line.part) = r)}

PartLines(part) == {line \in BonLines : line.part = part /\ line.len <= PaperWidth}

(* Lines that fit, with items in their order, ranked from a to b *)
Ordered(s, a, b) ==
  /\ s \in Seq(BonLines)
  /\ \A i \in DOMAIN s : OnPaper(s[i])
  /\ \A i \in DOMAIN s : ofItem(s[i]) => a <= Rank(s[i].part) /\ Rank(s[i].part) <= b
  /\ \A i, j \in DOMAIN s :
       i < j /\ ofItem(s[i]) /\ ofItem(s[j]) => Rank(s[i].part) <= Rank(s[j].part)

(* Among these lines of a part is every letter of its text. *)
Covers(shown, part, ws) ==
  \A w \in DOMAIN ws : \A k \in 1..ws[w] :
    \E line \in shown : /\ line.part = part
                        /\ \E a \in DOMAIN line.pieces : Shows(line.pieces[a], w, k)

(* A sequence over a set is one over a larger set. *)
LEMMA SeqWider ==
  ASSUME NEW A, NEW B, A \subseteq B, NEW s \in Seq(A)
  PROVE  s \in Seq(B)
  OBVIOUS

(* The places of two sequences, one put after the other *)
LEMMA JoinPlaces ==
  ASSUME NEW S, NEW s \in Seq(S), NEW t \in Seq(S)
  PROVE  /\ DOMAIN s = 1..Len(s) /\ DOMAIN t = 1..Len(t)
         /\ DOMAIN (s \o t) = 1..(Len(s) + Len(t))
         /\ Len(s) \in Nat /\ Len(t) \in Nat
         /\ \A i \in DOMAIN t : i + Len(s) \in DOMAIN (s \o t) /\ (s \o t)[i + Len(s)] = t[i]
  <1>1. /\ DOMAIN s = 1..Len(s) /\ DOMAIN t = 1..Len(t) /\ DOMAIN (s \o t) = 1..(Len(s) + Len(t))
        /\ Len(s) \in Nat /\ Len(t) \in Nat
    OBVIOUS
  <1>2. ASSUME NEW i \in DOMAIN t PROVE i + Len(s) \in DOMAIN (s \o t) /\ (s \o t)[i + Len(s)] = t[i]
    BY <1>1
  <1> QED
    BY <1>1, <1>2

(* Their elements *)
LEMMA ToSetJoin ==
  ASSUME NEW S, NEW s \in Seq(S), NEW t \in Seq(S)
  PROVE  ToSet(s \o t) = ToSet(s) \cup ToSet(t)
  <1>1. /\ DOMAIN s = 1..Len(s) /\ DOMAIN t = 1..Len(t) /\ DOMAIN (s \o t) = 1..(Len(s) + Len(t))
        /\ Len(s) \in Nat /\ Len(t) \in Nat
    BY JoinPlaces
  <1>2. ASSUME NEW i \in DOMAIN s PROVE i \in DOMAIN (s \o t) /\ (s \o t)[i] = s[i]
    BY <1>1
  <1>3. ASSUME NEW i \in DOMAIN t PROVE i + Len(s) \in DOMAIN (s \o t) /\ (s \o t)[i + Len(s)] = t[i]
    BY JoinPlaces
  <1>4. ASSUME NEW i \in DOMAIN (s \o t)
        PROVE  \/ i \in DOMAIN s /\ (s \o t)[i] = s[i]
               \/ i - Len(s) \in DOMAIN t /\ (s \o t)[i] = t[i - Len(s)]
    BY <1>1
  <1>5. ToSet(s \o t) \subseteq ToSet(s) \cup ToSet(t)
    BY <1>4 DEF ToSet
  <1>6. ToSet(s) \subseteq ToSet(s \o t)
    BY <1>2 DEF ToSet
  <1>7. ToSet(t) \subseteq ToSet(s \o t)
    BY <1>3 DEF ToSet
  <1> QED
    BY <1>5, <1>6, <1>7

(* More lines show no less. *)
LEMMA CoversMore ==
  ASSUME NEW A, NEW B, NEW part, NEW ws, Covers(A, part, ws), A \subseteq B
  PROVE  Covers(B, part, ws)
  BY DEF Covers

(* A line of an item is numbered. *)
LEMMA RankIsNat ==
  ASSUME NEW line \in BonLines, ofItem(line)
  PROVE  /\ line.part \in ItemNames \X Nat
         /\ line.part[2] \in Nat /\ VersionRank(line.part) \in {0, 1}
         /\ Rank(line.part) \in Nat
  <1>1. line.part \in BonParts
    BY DEF BonLines
  <1>2. line.part \in ItemNames \X Nat
    <2>1. /\ line.part # <<"layout">> /\ line.part # <<"reference">> /\ line.part # <<"price">>
          /\ line.part # <<"order notes", 0>>
      <3>1. line.part[1] \notin {"layout", "reference", "price", "order notes"}
        BY DEF ofItem
      <3>2. <<"layout">>[1] = "layout" /\ <<"reference">>[1] = "reference"
            /\ <<"price">>[1] = "price" /\ <<"order notes", 0>>[1] = "order notes"
        OBVIOUS
      <3> QED
        BY <3>1, <3>2, Zenon
    <2> QED
      BY <1>1, <2>1 DEF BonParts
  <1>3. line.part[2] \in Nat /\ VersionRank(line.part) \in {0, 1}
    BY <1>2 DEF VersionRank
  <1> QED
    BY <1>2, <1>3 DEF Rank

(* Lines that stand in order, put after others that do and that rank no    *)
(* higher                                                                  *)
LEMMA OrderedJoin ==
  ASSUME NEW a \in Nat, NEW b \in Nat, NEW c \in Nat, NEW d \in Nat, a <= c, b <= c, b <= d,
         NEW s, Ordered(s, a, b), NEW t, Ordered(t, c, d)
  PROVE  Ordered(s \o t, a, d)
  <1> DEFINE new == s \o t
  <1>1. /\ s \in Seq(BonLines) /\ t \in Seq(BonLines)
        /\ DOMAIN s = 1..Len(s) /\ DOMAIN t = 1..Len(t) /\ DOMAIN new = 1..(Len(s) + Len(t))
        /\ Len(s) \in Nat /\ Len(t) \in Nat /\ new \in Seq(BonLines)
    BY DEF Ordered
  <1>2. ASSUME NEW i \in DOMAIN new
        PROVE  \/ i \in DOMAIN s /\ new[i] = s[i]
               \/ i - Len(s) \in DOMAIN t /\ new[i] = t[i - Len(s)] /\ i > Len(s)
    BY <1>1
  <1> HIDE DEF new
  <1>3. ASSUME NEW i \in DOMAIN new PROVE OnPaper(new[i])
    BY <1>2 DEF Ordered
  <1>4. \A i \in DOMAIN s : ofItem(s[i]) => Rank(s[i].part) \in Nat /\ Rank(s[i].part) <= b
                                            /\ a <= Rank(s[i].part)
    BY <1>1, RankIsNat DEF Ordered
  <1>5. \A i \in DOMAIN t : ofItem(t[i]) => Rank(t[i].part) \in Nat /\ Rank(t[i].part) <= d
                                            /\ c <= Rank(t[i].part)
    BY <1>1, RankIsNat DEF Ordered
  <1>6. ASSUME NEW i \in DOMAIN new, ofItem(new[i])
        PROVE  a <= Rank(new[i].part) /\ Rank(new[i].part) <= d
    <2>1. CASE i \in DOMAIN s /\ new[i] = s[i]
      BY <1>4, <1>6, <2>1
    <2>2. CASE i - Len(s) \in DOMAIN t /\ new[i] = t[i - Len(s)]
      BY <1>5, <1>6, <2>2
    <2> QED
      BY <1>2, <2>1, <2>2
  <1>7. ASSUME NEW i \in DOMAIN new, NEW j \in DOMAIN new, i < j, ofItem(new[i]), ofItem(new[j])
        PROVE  Rank(new[i].part) <= Rank(new[j].part)
    <2>1. CASE i \in DOMAIN s /\ new[i] = s[i]
      <3>1. CASE j \in DOMAIN s /\ new[j] = s[j]
        BY <1>7, <2>1, <3>1 DEF Ordered
      <3>2. CASE j - Len(s) \in DOMAIN t /\ new[j] = t[j - Len(s)]
        <4>1. Rank(new[i].part) \in Nat /\ Rank(new[i].part) <= b
          BY <1>4, <1>7, <2>1
        <4>2. Rank(new[j].part) \in Nat /\ c <= Rank(new[j].part)
          BY <1>5, <1>7, <3>2
        <4> QED
          BY <4>1, <4>2
      <3> QED
        BY <1>2, <3>1, <3>2
    <2>2. CASE i - Len(s) \in DOMAIN t /\ new[i] = t[i - Len(s)] /\ i > Len(s)
      <3>1. j - Len(s) \in DOMAIN t /\ new[j] = t[j - Len(s)]
        BY <1>1, <1>2, <1>7, <2>2
      <3>2. i - Len(s) < j - Len(s)
        BY <1>1, <1>7
      <3> QED
        BY <1>7, <2>2, <3>1, <3>2 DEF Ordered
    <2> QED
      BY <1>2, <2>1, <2>2
  <1> QED
    BY <1>1, <1>3, <1>6, <1>7 DEF Ordered, new

(* Lines of the layout may stand anywhere. *)
LEMMA LayoutOrdered ==
  ASSUME NEW s \in Seq(LayoutLines), NEW a, NEW b
  PROVE  Ordered(s, a, b)
  <1>1. s \in Seq(BonLines)
    BY SeqWider DEF LayoutLines
  <1>2. \A i \in DOMAIN s : s[i] \in LayoutLines
    OBVIOUS
  <1> QED
    BY <1>1, <1>2 DEF Ordered, LayoutLines

(* Lines of one version of one item stand in order. *)
LEMMA RankOrdered ==
  ASSUME NEW r \in Nat, NEW s \in Seq(RankLines(r))
  PROVE  Ordered(s, r, r)
  <1>1. s \in Seq(BonLines)
    BY SeqWider DEF RankLines
  <1>2. \A i \in DOMAIN s : s[i] \in RankLines(r)
    OBVIOUS
  <1> QED
    BY <1>1, <1>2 DEF Ordered, RankLines

(* The pieces of a line that show the words of the part itself             *)
OwnPieces(pieces, skip) ==
  LET own == Selected(pieces, {p \in ToSet(pieces) : p.word > skip})
  IN [a \in DOMAIN own |-> [own[a] EXCEPT !.word = @ - skip]]

(* They are pieces, and show what they showed before the words were        *)
(* renumbered.                                                             *)
LEMMA OwnPiecesShow ==
  ASSUME NEW ps \in Seq(Pieces), NEW skip \in Nat
  PROVE  /\ OwnPieces(ps, skip) \in Seq(Pieces)
         /\ \A w \in Nat, k \in Nat :
              w > skip /\ (\E a \in DOMAIN ps : Shows(ps[a], w, k))
                => \E a \in DOMAIN OwnPieces(ps, skip) : Shows(OwnPieces(ps, skip)[a], w - skip, k)
  <1> DEFINE Wanted == {p \in ToSet(ps) : p.word > skip}
             own == Selected(ps, Wanted)
             moved == [a \in DOMAIN own |-> [own[a] EXCEPT !.word = @ - skip]]
  <1>1. /\ own \in Seq(Pieces \cap Wanted)
        /\ \A x : (\E i \in 1..Len(own) : own[i] = x)
                    <=> (x \in Wanted /\ \E k \in 1..Len(ps) : ps[k] = x)
    <2>1. LET sel == Selected(ps, Wanted) IN
          /\ sel \in Seq(Pieces) /\ sel \in Seq(Pieces \cap Wanted)
          /\ \A x : (\E i \in 1..Len(sel) : sel[i] = x)
                      <=> (x \in Wanted /\ \E k \in 1..Len(ps) : ps[k] = x)
          /\ (\A i, j \in 1..Len(ps) : ps[i] = ps[j] => i = j)
               => \A i, j \in 1..Len(sel) : sel[i] = sel[j] => i = j
      <3> HIDE DEF Wanted
      <3> QED
        BY SelectedElements
    <2> QED
      BY <2>1
  <1>2. DOMAIN own = 1..Len(own) /\ Len(own) \in Nat
    <2> HIDE DEF own
    <2> QED
      BY <1>1
  <1>3. ASSUME NEW a \in DOMAIN own
        PROVE  own[a] \in Pieces /\ own[a].word > skip
    <2>1. own[a] \in Pieces \cap Wanted
      <3> HIDE DEF own, Wanted
      <3> QED
        BY <1>1
    <2> HIDE DEF own
    <2> QED
      BY <2>1
  <1> HIDE DEF own
  <1>4. ASSUME NEW a \in DOMAIN own
        PROVE  /\ moved[a] \in Pieces
               /\ moved[a].word = own[a].word - skip
               /\ moved[a].from = own[a].from /\ moved[a].to = own[a].to
    <2>1. own[a] \in Pieces /\ own[a].word > skip
      BY <1>3
    <2>2. moved[a] = [own[a] EXCEPT !.word = own[a].word - skip]
      OBVIOUS
    <2>3. own[a].word - skip \in Nat
      BY <2>1 DEF Pieces
    <2> HIDE DEF moved
    <2> QED
      BY <2>1, <2>2, <2>3 DEF Pieces
  <1>5. DOMAIN moved = 1..Len(own)
    BY <1>2
  <1> HIDE DEF moved
  <1>6. moved \in Seq(Pieces)
    <2>1. moved = [a \in 1..Len(own) |-> moved[a]]
      BY <1>5 DEF moved
    <2>2. \A a \in 1..Len(own) : moved[a] \in Pieces
      BY <1>2, <1>4
    <2> QED
      BY <1>2, <2>1, <2>2
  <1>7. ASSUME NEW w \in Nat, NEW k \in Nat, w > skip, NEW b \in DOMAIN ps, Shows(ps[b], w, k)
        PROVE  \E a \in DOMAIN moved : Shows(moved[a], w - skip, k)
    <2>1. ps[b] \in Wanted
      BY <1>7 DEF Shows, ToSet
    <2>2. b \in 1..Len(ps)
      OBVIOUS
    <2> HIDE DEF Wanted
    <2>3. PICK a \in 1..Len(own) : own[a] = ps[b]
      BY <1>1, <2>1, <2>2
    <2> QED
      BY <1>2, <1>4, <1>5, <1>7, <2>3 DEF Shows
  <1>8. moved = OwnPieces(ps, skip)
    BY DEF OwnPieces, moved, own
  <1> QED
    BY <1>6, <1>7, <1>8

(* The lines of a text, after margins that leave room for it, fit on the   *)
(* paper and show every letter of the words that are the part's own.       *)
LEMMA ShownIs ==
  ASSUME NEW part \in BonParts, NEW ws \in Seq(Nat), NEW width \in Nat \ {0},
         NEW first \in Nat, NEW others \in Nat, NEW skip \in Nat,
         first + width <= PaperWidth, others + width <= PaperWidth
  PROVE  LET s == Shown(part, ws, width, first, others, skip)
         IN /\ s \in Seq(PartLines(part))
            /\ Whole(ws) => \A w \in DOMAIN ws : w > skip => \A k \in 1..ws[w] :
                 \E line \in ToSet(s) : \E a \in DOMAIN line.pieces :
                   Shows(line.pieces[a], w - skip, k)
  <1> DEFINE wrapped == wrapText(ws, width)
             L(i) == [part |-> part,
                      len |-> (IF i = 1 THEN first ELSE others) + wrapped[i].len,
                      pieces |-> OwnPieces(wrapped[i].pieces, skip)]
             s == Shown(part, ws, width, first, others, skip)
  <1>1. /\ wrapped \in Seq(PaperLines)
        /\ \A i \in DOMAIN wrapped : wrapped[i].len \in 1..width
        /\ Whole(ws) => CompleteOn(wrapped, ws)
    BY WrapTextShows
  <1>2. s = [i \in DOMAIN wrapped |-> L(i)]
    BY DEF Shown, OwnPieces
  <1> HIDE DEF wrapped, s
  <1>3. DOMAIN wrapped = 1..Len(wrapped) /\ Len(wrapped) \in Nat
    BY <1>1
  <1>4. ASSUME NEW i \in DOMAIN wrapped
        PROVE  wrapped[i].pieces \in Seq(Pieces) /\ wrapped[i].len \in 1..width
    <2>1. wrapped[i] \in PaperLines
      BY <1>1
    <2> QED
      BY <1>1, <2>1 DEF PaperLines
  <1>5. ASSUME NEW i \in DOMAIN wrapped PROVE L(i) \in PartLines(part)
    <2>1. OwnPieces(wrapped[i].pieces, skip) \in Seq(Pieces)
      BY <1>4, OwnPiecesShow
    <2>2. /\ (IF i = 1 THEN first ELSE others) + wrapped[i].len \in Nat
          /\ (IF i = 1 THEN first ELSE others) + wrapped[i].len <= PaperWidth
      BY <1>4, BonAssumption
    <2> QED
      BY <2>1, <2>2 DEF PartLines, BonLines
  <1>6. s \in Seq(PartLines(part))
    <2> HIDE DEF L
    <2> QED
      BY <1>2, <1>3, <1>5
  <1>7. ASSUME Whole(ws), NEW w \in DOMAIN ws, w > skip, NEW k \in 1..ws[w]
        PROVE  \E line \in ToSet(s) : \E a \in DOMAIN line.pieces :
                 Shows(line.pieces[a], w - skip, k)
    <2>1. PICK i \in DOMAIN wrapped :
            \E a \in DOMAIN wrapped[i].pieces : Shows(wrapped[i].pieces[a], w, k)
      BY <1>1, <1>7 DEF CompleteOn
    <2>2. w \in Nat /\ k \in Nat /\ wrapped[i].pieces \in Seq(Pieces)
      BY <1>4
    <2> DEFINE ps == wrapped[i].pieces
    <2> HIDE DEF ps
    <2>3. \E a \in DOMAIN OwnPieces(ps, skip) : Shows(OwnPieces(ps, skip)[a], w - skip, k)
      <3>1. ps \in Seq(Pieces) /\ \E a \in DOMAIN ps : Shows(ps[a], w, k)
        BY <2>1, <2>2 DEF ps
      <3> QED
        BY <1>7, <2>2, <3>1, OwnPiecesShow
    <2>4. s[i].pieces = OwnPieces(ps, skip) /\ s[i] \in ToSet(s)
      BY <1>2 DEF ps, ToSet
    <2> QED
      BY <2>3, <2>4
  <1> QED
    BY <1>6, <1>7 DEF s

(* The amounts of an order are natural numbers. *)
LEMMA AmountsAreNat == Amounts \subseteq Nat
  BY DEF Amounts

(* What an item of the contract is made of *)
LEMMA ItemFacts ==
  ASSUME NEW item, ItemOK(item)
  PROVE  /\ item.quantity \in Nat /\ item.unitPrice \in Nat /\ item.lineTotal \in Nat
         /\ item.name \in Seq(Word) /\ item.variation \in Seq(Word) /\ item.notes \in Seq(Word)
  BY AmountsAreNat DEF ItemOK

(* As ItemFacts, for the order *)
LEMMA JobFacts ==
  ASSUME job \in Jobs
  PROVE  /\ job.action \in Actions /\ job.notes \in Seq(Word) /\ job.delta \in Int
         /\ job.sequence \in Nat /\ job.table \in Nat /\ job.total \in Nat
         /\ job.ref \in Word /\ job.restaurant \in Word /\ job.previousRef \in Word \cup {<<>>}
         /\ Len(job.items) \in Nat /\ DOMAIN job.items = 1..Len(job.items)
         /\ \A i \in DOMAIN job.items : ItemOK(job.items[i])
         /\ job.previousItem = NoItem \/ ItemOK(job.previousItem)
  <1>1. JobOK(job)
    BY BonAssumption
  <1>2. {job.sequence, job.table, job.total} \subseteq Amounts
    BY <1>1 DEF JobOK
  <1>3. Len(job.items) \in Nat /\ DOMAIN job.items = 1..Len(job.items)
    <2> DEFINE S == ToSet(job.items)
    <2>1. job.items \in Seq(S)
      BY <1>1 DEF JobOK
    <2> HIDE DEF S
    <2> QED
      BY <2>1
  <1>4. job.ref \in Word /\ job.restaurant \in Word /\ job.previousRef \in Word \cup {<<>>}
    BY <1>1 DEF JobOK
  <1> QED
    BY <1>1, <1>2, <1>3, <1>4, AmountsAreNat DEF JobOK

(* The letters of a word are printed as some characters, those of a        *)
(* shortened one too.                                                      *)
LEMMA WordIs ==
  ASSUME NEW word \in Word \cup {<<>>}
  PROVE  /\ Len(word) \in Nat
         /\ \A n \in 0..Len(word) : Wide(word, n) \in Nat /\ (n # 0 => Wide(word, n) # 0)
         /\ \A cap \in Nat : Shortened(word, cap) \in Nat
  <1>1. word \in Seq(Nat \ {0})
    <2>1. <<>> \in Seq(Nat \ {0})
      OBVIOUS
    <2>2. word \in Seq(Nat \ {0}) \/ word = <<>>
      BY DEF Word
    <2> QED
      BY <2>1, <2>2
  <1>2. ASSUME NEW n \in 0..Len(word)
        PROVE  Wide(word, n) \in Nat /\ (n # 0 => Wide(word, n) # 0)
    BY <1>1 DEF Wide
  <1>3. ASSUME NEW cap \in Nat PROVE Shortened(word, cap) \in Nat
    <2>1. Smaller(Len(word), cap) \in 0..Len(word)
      BY <1>1 DEF Smaller
    <2> QED
      BY <1>2, <2>1 DEF Shortened
  <1> QED
    BY <1>1, <1>2, <1>3

(* References are printed with some length. *)
LEMMA ReferenceIsNat ==
  ASSUME NEW word \in Word \cup {<<>>}
  PROVE  reference(word) \in Nat /\ Shortened(word, 120) \in Nat
  <1>1. 80 \in Nat /\ 120 \in Nat
    OBVIOUS
  <1> QED
    BY <1>1, WordIs DEF reference

(* A number has one to ten digits. *)
LEMMA DigitsIs == \A n : Digits(n) \in 1..10
  <1> SUFFICES ASSUME NEW n PROVE Digits(n) \in 1..10
    OBVIOUS
  <1> DEFINE D == {d \in 1..9 : n >= 10^d}
  <1>1. IsFiniteSet(1..9) /\ Cardinality(1..9) = 9
    <2> DEFINE a == 1  b == 9
    <2>1. a \in Int /\ b \in Int /\ ~(a > b) /\ b - a + 1 = 9
      OBVIOUS
    <2> HIDE DEF a, b
    <2>2. IsFiniteSet(a..b) /\ Cardinality(a..b) = 9
      BY <2>1, FS_Interval
    <2> QED
      BY <2>2 DEF a, b
  <1>2. D \in SUBSET (1..9)
    OBVIOUS
  <1> HIDE DEF D
  <1>3. IsFiniteSet(D) /\ Cardinality(D) <= 9
    BY <1>1, <1>2, FS_Subset
  <1>4. Cardinality(D) \in Nat
    BY <1>3, FS_CardinalityType
  <1>5. Digits(n) = 1 + Cardinality(D)
    BY DEF Digits, D
  <1> QED
    BY <1>3, <1>4, <1>5

(* What the helpers of the layout make of lengths *)
LEMMA LayoutLengths ==
  /\ \A n \in Nat : centerLine(n) \in Nat /\ centerLine(n) <= PaperWidth
  /\ \A left \in Nat, right \in 0..47 :
       alignColumns(left, right) \in Nat /\ alignColumns(left, right) <= PaperWidth
  /\ \A n \in Nat : formatMoney(n) \in 1..20
  <1> USE BonAssumption
  <1>1. ASSUME NEW n \in Nat PROVE centerLine(n) \in Nat /\ centerLine(n) <= PaperWidth
    BY DEF centerLine
  <1>2. ASSUME NEW left \in Nat, NEW right \in 0..47
        PROVE  alignColumns(left, right) \in Nat /\ alignColumns(left, right) <= PaperWidth
    BY DEF alignColumns, Smaller, Larger
  <1>3. ASSUME NEW n \in Nat PROVE formatMoney(n) \in 1..20
    <2>1. Digits(n \div 100) \in 1..10
      BY DigitsIs
    <2> QED
      BY <2>1 DEF formatMoney
  <1> QED
    BY <1>1, <1>2, <1>3

(* A line of the layout that fits, and one of any length that refers to an *)
(* order                                                                   *)
LEMMA PlainIs ==
  ASSUME NEW length \in Nat
  PROVE  /\ length <= PaperWidth => /\ Plain(<<"layout">>, length) \in LayoutLines
                                    /\ Plain(<<"price">>, length) \in LayoutLines
         /\ Plain(<<"reference">>, length) \in LayoutLines
  <1>1. <<>> \in Seq(Pieces)
    OBVIOUS
  <1>2. /\ <<"layout">> \in BonParts /\ <<"price">> \in BonParts /\ <<"reference">> \in BonParts
        /\ <<"layout">>[1] = "layout" /\ <<"price">>[1] = "price"
        /\ <<"reference">>[1] = "reference"
    BY DEF BonParts
  <1> DEFINE layoutPart == <<"layout">>  pricePart == <<"price">>  referencePart == <<"reference">>
  <1> HIDE DEF layoutPart, pricePart, referencePart
  <1>3. \A part \in {layoutPart, pricePart, referencePart} :
          /\ Plain(part, length) \in BonLines /\ ~ofItem(Plain(part, length))
          /\ Plain(part, length).len = length /\ Plain(part, length).part = part
    <2>1. \A part \in {layoutPart, pricePart, referencePart} :
            part \in BonParts /\ part[1] \in {"layout", "price", "reference"}
      BY <1>2 DEF layoutPart, pricePart, referencePart
    <2> QED
      BY <1>1, <2>1 DEF Plain, BonLines, ofItem
  <1>4. /\ length <= PaperWidth => /\ Plain(layoutPart, length) \in LayoutLines
                                   /\ Plain(pricePart, length) \in LayoutLines
        /\ Plain(referencePart, length) \in LayoutLines
    <2>1. referencePart = <<"reference">>
      BY DEF referencePart
    <2> QED
      BY <1>3, <2>1 DEF LayoutLines, OnPaper
  <1> QED
    BY <1>4 DEF layoutPart, pricePart, referencePart

(* A text in print, and that it is the one that can be expected of it      *)
LEMMA PrintedIs ==
  ASSUME NEW typed \in Seq(Word), NEW cap \in Nat, NEW lead \in Seq(Nat \ {0})
  PROVE  /\ Printed(typed, cap) \in Seq(Nat)
         /\ \/ Legible(lead, typed, cap) = <<>>
            \/ Legible(lead, typed, cap) = Printed(typed, cap) /\ Whole(lead \o Printed(typed, cap))
  <1> DEFINE lengths == Lengths(typed)
             kept == sanitizeText(lengths, cap)
  <1>1. \A w \in DOMAIN typed : typed[w] \in Word /\ Len(typed[w]) \in Nat \ {0}
    BY DEF Word
  <1>2. /\ lengths \in Seq(Nat) /\ Len(lengths) = Len(typed)
        /\ \A w \in DOMAIN lengths : lengths[w] = Len(typed[w]) /\ w \in DOMAIN typed
    BY <1>1 DEF Lengths
  <1> HIDE DEF lengths
  <1>3. NoGap(lengths)
    BY <1>1, <1>2 DEF NoGap
  <1>4. /\ kept \in Seq(Nat) /\ NoLonger(kept, lengths)
        /\ StaysWithin(lengths, cap) => kept = lengths
    BY <1>2, <1>3, SanitizeIs
  <1> HIDE DEF kept
  <1>5. ASSUME NEW ls \in Seq(Nat), NoLonger(ls, lengths)
        PROVE  /\ InPrint(typed, ls) \in Seq(Nat)
               /\ NoGap(ls) => InPrint(typed, ls) \in Seq(Nat \ {0})
    <2>1. ASSUME NEW w \in DOMAIN ls
          PROVE  Wide(typed[w], ls[w]) \in Nat /\ (ls[w] # 0 => Wide(typed[w], ls[w]) # 0)
      <3>1. w \in DOMAIN lengths /\ ls[w] \in Nat /\ ls[w] <= lengths[w]
        BY <1>2, <1>5 DEF NoLonger
      <3>2. typed[w] \in Word \cup {<<>>} /\ ls[w] \in 0..Len(typed[w])
        BY <1>1, <1>2, <3>1
      <3> QED
        BY <3>2, WordIs
    <2>2. InPrint(typed, ls) = [w \in 1..Len(ls) |-> Wide(typed[w], ls[w])]
      BY DEF InPrint
    <2> QED
      BY <2>1, <2>2 DEF NoGap
  <1>6. Printed(typed, cap) = InPrint(typed, kept)
    BY DEF Printed, kept, lengths
  <1>7. Uncut(typed) = InPrint(typed, lengths)
    BY DEF Uncut, lengths
  <1>8. Uncut(typed) \in Seq(Nat \ {0})
    <2>1. NoLonger(lengths, lengths)
      BY <1>2 DEF NoLonger
    <2> QED
      BY <1>2, <1>3, <1>5, <1>7, <2>1
  <1>9. ASSUME StaysWithin(lengths, cap), StaysWithin(lead \o Uncut(typed), MaxText)
        PROVE  Uncut(typed) = Printed(typed, cap) /\ Whole(lead \o Printed(typed, cap))
    <2>1. Uncut(typed) = Printed(typed, cap)
      BY <1>4, <1>6, <1>7, <1>9
    <2>2. NoGap(lead \o Uncut(typed))
      BY <1>8 DEF NoGap
    <2> QED
      BY <1>9, <2>1, <2>2 DEF Whole
  <1>10. Legible(lead, typed, cap)
           = IF StaysWithin(lengths, cap) /\ StaysWithin(lead \o Uncut(typed), MaxText)
             THEN Uncut(typed) ELSE <<>>
    BY DEF Legible, lengths
  <1> QED
    BY <1>4, <1>5, <1>6, <1>9, <1>10

(* The lines of one part, with its text *)
Block(s, part, ws) == s \in Seq(PartLines(part)) /\ Covers(ToSet(s), part, ws)

(* Lines of a part are its own. *)
LEMMA PartLinesOwn ==
  ASSUME NEW part, NEW s \in Seq(PartLines(part)), NEW line \in ToSet(s)
  PROVE  line \in PartLines(part) /\ line.part = part
  BY DEF ToSet, PartLines

(* Lines that show a text where it is whole show what can be expected.     *)
LEMMA CoversLegible ==
  ASSUME NEW part, NEW s \in Seq(PartLines(part)), NEW ws \in Seq(Nat), NEW legible,
         legible = <<>> \/ (legible = ws /\ Whole(ws)),
         Whole(ws) => \A w \in DOMAIN ws : w > 0 => \A k \in 1..ws[w] :
           \E line \in ToSet(s) : \E a \in DOMAIN line.pieces : Shows(line.pieces[a], w - 0, k)
  PROVE  Covers(ToSet(s), part, legible)
  <1>1. \A w \in DOMAIN ws : w > 0 /\ w - 0 = w
    OBVIOUS
  <1>2. CASE legible = <<>>
    BY <1>2 DEF Covers
  <1>3. CASE legible = ws /\ Whole(ws)
    BY <1>1, <1>3, PartLinesOwn DEF Covers
  <1> QED
    BY <1>2, <1>3

(* A text behind a prefix *)
LEMMA PrefixedIs ==
  ASSUME NEW part \in BonParts, NEW prefix \in 4..20, NEW ws \in Seq(Nat), NEW skip \in Nat
  PROVE  LET s == wrapPrefixedText(part, prefix, ws, skip)
         IN /\ s \in Seq(PartLines(part))
            /\ Whole(ws) => \A w \in DOMAIN ws : w > skip => \A k \in 1..ws[w] :
                 \E line \in ToSet(s) : \E a \in DOMAIN line.pieces :
                   Shows(line.pieces[a], w - skip, k)
  <1> USE BonAssumption
  <1>1. CASE ws = <<>>
    <2>1. wrapPrefixedText(part, prefix, ws, skip) = <<Plain(part, prefix - 1)>>
      BY <1>1 DEF wrapPrefixedText
    <2>2. Plain(part, prefix - 1) \in PartLines(part)
      BY DEF Plain, PartLines, BonLines
    <2>3. DOMAIN ws = {}
      BY <1>1
    <2> QED
      BY <2>1, <2>2, <2>3
  <1>2. CASE ws # <<>>
    <2>1. Larger(1, PaperWidth - prefix) = PaperWidth - prefix
      BY DEF Larger
    <2>2. wrapPrefixedText(part, prefix, ws, skip)
            = Shown(part, ws, PaperWidth - prefix, prefix, 4, skip)
      BY <1>2, <2>1 DEF wrapPrefixedText
    <2>3. /\ PaperWidth - prefix \in Nat \ {0} /\ prefix \in Nat /\ 4 \in Nat
          /\ prefix + (PaperWidth - prefix) <= PaperWidth
          /\ 4 + (PaperWidth - prefix) <= PaperWidth
      OBVIOUS
    <2> DEFINE width == PaperWidth - prefix
               s == Shown(part, ws, width, prefix, 4, skip)
    <2>4. /\ s \in Seq(PartLines(part))
          /\ Whole(ws) => \A w \in DOMAIN ws : w > skip => \A k \in 1..ws[w] :
               \E line \in ToSet(s) : \E a \in DOMAIN line.pieces :
                 Shows(line.pieces[a], w - skip, k)
      <3> HIDE DEF width
      <3> QED
        BY <2>3, ShownIs DEF width
    <2> QED
      BY <2>2, <2>4
  <1> QED
    BY <1>1, <1>2

(* A text behind a prefix of nothing but spaces *)
LEMMA IndentedIs ==
  ASSUME NEW part \in BonParts, NEW typed \in Seq(Word), NEW cap \in Nat
  PROVE  Block(wrapIndentedText(part, Printed(typed, cap)), part, Legible(<<>>, typed, cap))
  <1> USE BonAssumption
  <1> DEFINE ws == Printed(typed, cap)
             s == wrapIndentedText(part, ws)
             legible == Legible(<<>>, typed, cap)
  <1>1. ws \in Seq(Nat) /\ (legible = <<>> \/ (legible = ws /\ Whole(ws)))
    <2>1. <<>> \in Seq(Nat \ {0}) /\ (ws \in Seq(Nat) => <<>> \o ws = ws)
      OBVIOUS
    <2> QED
      BY <2>1, PrintedIs
  <1> HIDE DEF ws, legible
  <1>2. s = Shown(part, ws, PaperWidth - 4, 4, 4, 0)
    BY DEF wrapIndentedText, Larger
  <1> HIDE DEF s
  <1>3. /\ s \in Seq(PartLines(part))
        /\ Whole(ws) => \A w \in DOMAIN ws : w > 0 => \A k \in 1..ws[w] :
             \E line \in ToSet(s) : \E a \in DOMAIN line.pieces : Shows(line.pieces[a], w - 0, k)
    <2>1. /\ PaperWidth - 4 \in Nat \ {0} /\ 4 \in Nat /\ 0 \in Nat
          /\ 4 + (PaperWidth - 4) <= PaperWidth
      OBVIOUS
    <2> QED
      BY <1>1, <1>2, <2>1, ShownIs
  <1>4. Covers(ToSet(s), part, legible)
    BY <1>1, <1>3, CoversLegible
  <1> QED
    BY <1>3, <1>4 DEF Block, s, ws, legible

(* The name of an item behind its number *)
LEMMA NameIs ==
  ASSUME NEW item, ItemOK(item), NEW part \in BonParts
  PROVE  Block(wrapPrefixedText(part, Digits(item.quantity) + 3, PrintedName(item), 0),
               part, Legible(<<>>, item.name, 240))
  <1> DEFINE ws == PrintedName(item)
             s == wrapPrefixedText(part, Digits(item.quantity) + 3, ws, 0)
             legible == Legible(<<>>, item.name, 240)
  <1>1. Digits(item.quantity) + 3 \in 4..20 /\ 0 \in Nat
    <2>1. Digits(item.quantity) \in 1..10
      BY DigitsIs
    <2> QED
      BY <2>1
  <1>2. ws \in Seq(Nat) /\ (legible = <<>> \/ (legible = ws /\ Whole(ws)))
    <2>1. PICK lead \in Seq(Nat \ {0}) : lead = <<>>
      <3>1. <<>> \in Seq(Nat \ {0})
        OBVIOUS
      <3> QED
        BY <3>1
    <2>2. item.name \in Seq(Word) /\ 240 \in Nat
      BY ItemFacts
    <2>3. ws \in Seq(Nat) /\ (legible = <<>> \/ (legible = ws /\ Whole(lead \o ws)))
      BY <2>1, <2>2, PrintedIs DEF PrintedName
    <2> HIDE DEF ws, legible
    <2>4. lead \o ws = ws
      BY <2>1, <2>3
    <2> QED
      BY <2>3, <2>4
  <1> HIDE DEF ws, legible
  <1>3. /\ s \in Seq(PartLines(part))
        /\ Whole(ws) => \A w \in DOMAIN ws : w > 0 => \A k \in 1..ws[w] :
             \E line \in ToSet(s) : \E a \in DOMAIN line.pieces : Shows(line.pieces[a], w - 0, k)
    BY <1>1, <1>2, PrefixedIs
  <1> HIDE DEF s
  <1>4. Covers(ToSet(s), part, legible)
    BY <1>2, <1>3, CoversLegible
  <1> QED
    BY <1>3, <1>4 DEF Block, s, ws, legible

(* Behind two other words each word stands two places further on. *)
LEMMA BehindTwo ==
  ASSUME NEW S, NEW front \in Seq(S), NEW back \in Seq(S)
  PROVE  /\ front \o back \in Seq(S)
         /\ Len(front) = 2 =>
              \A w \in DOMAIN back : /\ w + 2 \in DOMAIN (front \o back)
                                     /\ (front \o back)[w + 2] = back[w]
                                     /\ w + 2 > 2 /\ (w + 2) - 2 = w
  <1>1. front \o back \in Seq(S)
    OBVIOUS
  <1>2. ASSUME NEW w \in DOMAIN back
        PROVE  w + Len(front) \in DOMAIN (front \o back) /\ (front \o back)[w + Len(front)] = back[w]
    BY JoinPlaces
  <1>3. ASSUME NEW w \in DOMAIN back PROVE w + 2 > 2 /\ (w + 2) - 2 = w
    <2>1. w \in 1..Len(back) /\ Len(back) \in Nat
      BY JoinPlaces
    <2> QED
      BY <2>1
  <1> QED
    BY <1>1, <1>2, <1>3

(* The same behind "ALT: " or "NEU: ", where the number is part of the     *)
(* text                                                                    *)
LEMMA VersionedIs ==
  ASSUME NEW item, ItemOK(item), NEW part \in BonParts
  PROVE  Block(Versioned(part, item), part, Legible(NumberOf(item), item.name, 240))
  <1> DEFINE name == PrintedName(item)
             number == NumberOf(item)
             ws == number \o name
             s == Versioned(part, item)
             legible == Legible(number, item.name, 240)
  <1>1. number \in Seq(Nat \ {0}) /\ Len(number) = 2
    <2>1. Digits(item.quantity) \in 1..10
      BY DigitsIs
    <2>2. Digits(item.quantity) \in Nat \ {0} /\ 1 \in Nat \ {0}
      BY <2>1
    <2> QED
      BY <2>2 DEF NumberOf
  <1> HIDE DEF number
  <1>2. name \in Seq(Nat) /\ (legible = <<>> \/ (legible = name /\ Whole(ws)))
    <2>1. item.name \in Seq(Word) /\ 240 \in Nat
      BY ItemFacts
    <2> QED
      BY <1>1, <2>1, PrintedIs DEF PrintedName
  <1> HIDE DEF name, legible
  <1>3. /\ ws \in Seq(Nat)
        /\ \A w \in DOMAIN name : w + 2 \in DOMAIN ws /\ ws[w + 2] = name[w]
                                  /\ w + 2 > 2 /\ (w + 2) - 2 = w
    <2>1. PICK b \in Seq(Nat) : b = name
      BY <1>2
    <2>2. PICK a \in Seq(Nat) : a = number /\ Len(a) = 2
      <3>1. number \in Seq(Nat)
        BY <1>1
      <3> QED
        BY <1>1, <3>1
    <2> QED
      BY <2>1, <2>2, BehindTwo DEF ws
  <1>4. s = wrapPrefixedText(part, 5, ws, 2)
    BY DEF Versioned, ws, name, number
  <1> HIDE DEF ws, s
  <1>5. /\ s \in Seq(PartLines(part))
        /\ Whole(ws) => \A w \in DOMAIN ws : w > 2 => \A k \in 1..ws[w] :
             \E line \in ToSet(s) : \E a \in DOMAIN line.pieces : Shows(line.pieces[a], w - 2, k)
    <2>1. 5 \in 4..20 /\ 2 \in Nat
      OBVIOUS
    <2> QED
      BY <1>3, <1>4, <2>1, PrefixedIs
  <1>6. ASSUME Whole(ws) PROVE Covers(ToSet(s), part, name)
    <2> SUFFICES ASSUME NEW w \in DOMAIN name, NEW k \in 1..name[w]
                 PROVE  \E line \in ToSet(s) : /\ line.part = part
                                               /\ \E a \in DOMAIN line.pieces :
                                                    Shows(line.pieces[a], w, k)
      BY DEF Covers
    <2>1. \E line \in ToSet(s) : \E a \in DOMAIN line.pieces :
            Shows(line.pieces[a], (w + 2) - 2, k)
      BY <1>3, <1>5, <1>6
    <2> QED
      BY <1>3, <1>5, <2>1, PartLinesOwn
  <1>7. Covers(ToSet(s), part, legible)
    <2>1. Covers(ToSet(s), part, <<>>)
      BY DEF Covers
    <2> QED
      BY <1>2, <1>6, <2>1
  <1> QED
    BY <1>5, <1>7 DEF Block, s, legible, number

-----------------------------------------------------------------------------
(* The lines that are not about an item belong to the layout and fit.      *)
LEMMA MetadataIs ==
  ASSUME NEW ref \in Nat
  PROVE  metadataLines(ref, 8) \in Seq(LayoutLines)
  <1> USE BonAssumption
  <1> DEFINE wrapped == wrapText(<<10, 1 + ref>>, PaperWidth)
             broken == [i \in DOMAIN wrapped |-> Plain(<<"layout">>, wrapped[i].len)]
             full == Plain(<<"layout">>, PaperWidth)
  <1>1. full \in LayoutLines
    BY PlainIs
  <1>2. broken \in Seq(LayoutLines)
    <2>1. <<10, 1 + ref>> \in Seq(Nat) /\ PaperWidth \in Nat \ {0}
      OBVIOUS
    <2>2. /\ wrapped \in Seq(PaperLines)
          /\ \A i \in DOMAIN wrapped : wrapped[i].len \in 1..PaperWidth
      BY <2>1, WrapTextShows
    <2> HIDE DEF wrapped
    <2>3. ASSUME NEW i \in DOMAIN wrapped PROVE Plain(<<"layout">>, wrapped[i].len) \in LayoutLines
      <3>1. wrapped[i].len \in Nat /\ wrapped[i].len <= PaperWidth
        BY <2>2
      <3> QED
        BY <3>1, PlainIs
    <2>4. DOMAIN wrapped = 1..Len(wrapped) /\ Len(wrapped) \in Nat
      BY <2>2
    <2> QED
      BY <2>3, <2>4
  <1> HIDE DEF broken, full
  <1>3. <<full>> \in Seq(LayoutLines) /\ Append(broken, full) \in Seq(LayoutLines)
    BY <1>1, <1>2
  <1> QED
    BY <1>3 DEF metadataLines, broken, full

(* The two forms of a price *)
LEMMA PriceIs ==
  ASSUME NEW unit \in 1..20, NEW total \in 1..20
  PROVE  priceLines(unit, total) \in Seq(LayoutLines)
  <1> USE BonAssumption
  <1>1. Larger(total, PaperWidth) = PaperWidth
    BY DEF Larger
  <1>2. 3 + unit \in Nat /\ 3 + unit <= PaperWidth
    OBVIOUS
  <1> DEFINE a == Plain(<<"price">>, PaperWidth)
             b == Plain(<<"price">>, 3 + unit)
  <1>3. a \in LayoutLines /\ b \in LayoutLines
    BY <1>2, PlainIs
  <1> HIDE DEF a, b
  <1>4. <<a>> \in Seq(LayoutLines) /\ <<b, a>> \in Seq(LayoutLines)
    BY <1>3
  <1> QED
    BY <1>1, <1>4 DEF priceLines, a, b

(* What the lines of the layout are made of *)
LEMMA LayoutIs ==
  /\ Blank \in LayoutLines
  /\ Divider \in Seq(LayoutLines)
  /\ \A n \in 0..48 : Plain(<<"layout">>, n) \in LayoutLines
  /\ \A n \in Nat : Plain(<<"layout">>, centerLine(n)) \in LayoutLines
  /\ \A left \in Nat, right \in 0..47 : Plain(<<"layout">>, alignColumns(left, right)) \in LayoutLines
  <1> USE BonAssumption
  <1>1. ASSUME NEW n \in 0..48 PROVE Plain(<<"layout">>, n) \in LayoutLines
    <2>1. n \in Nat /\ n <= PaperWidth
      OBVIOUS
    <2> QED
      BY <2>1, PlainIs
  <1>2. Blank \in LayoutLines
    BY <1>1 DEF Blank
  <1>3. Divider \in Seq(LayoutLines)
    <2> DEFINE full == Plain(<<"layout">>, PaperWidth)
    <2>1. full \in LayoutLines
      BY PlainIs
    <2> HIDE DEF full
    <2>2. <<full>> \in Seq(LayoutLines)
      BY <2>1
    <2> QED
      BY <2>2 DEF Divider, full
  <1>4. ASSUME NEW n \in Nat PROVE Plain(<<"layout">>, centerLine(n)) \in LayoutLines
    BY LayoutLengths, PlainIs
  <1>5. ASSUME NEW left \in Nat, NEW right \in 0..47
        PROVE  Plain(<<"layout">>, alignColumns(left, right)) \in LayoutLines
    BY LayoutLengths, PlainIs
  <1> QED
    BY <1>1, <1>2, <1>3, <1>4, <1>5

(* The kind of the ticket *)
LEMMA MarkerIs ==
  ASSUME job \in Jobs
  PROVE  Marker \in Seq(LayoutLines)
  <1> USE BonAssumption
  <1> DEFINE plain(n) == Plain(<<"layout">>, n)
             old == About(job.previousRef)
             center(n) == plain(centerLine(n))
  <1>1. 27 + Digits(job.sequence) \in Nat
    <2>1. Digits(job.sequence) \in 1..10
      BY DigitsIs
    <2> QED
      BY <2>1
  <1>2. AboutOrder \in LayoutLines /\ old \in LayoutLines
    <2>1. ASSUME NEW ref \in Word \cup {<<>>} PROVE About(ref) \in LayoutLines
      <3>1. 15 + reference(ref) \in Nat
        BY ReferenceIsNat
      <3> QED
        BY <3>1, PlainIs DEF About
    <2> QED
      BY <2>1, JobFacts DEF AboutOrder
  <1>3. Nachbestellung \in LayoutLines
    <2> DEFINE n == 27 + Digits(job.sequence)
    <2>1. n \in Nat
      BY <1>1
    <2> HIDE DEF n
    <2>2. Plain(<<"layout">>, centerLine(n)) \in LayoutLines
      BY <2>1, LayoutIs
    <2> QED
      BY <2>2 DEF Nachbestellung, n
  <1>4. center(27) \in LayoutLines /\ center(18) \in LayoutLines /\ center(26) \in LayoutLines
    BY LayoutIs
  <1>5. Blank \in LayoutLines
    BY LayoutIs
  <1> HIDE DEF center, old
  <1>6. /\ <<center(27), center(18), AboutOrder, Blank>> \in Seq(LayoutLines)
        /\ <<center(27), AboutOrder, Blank>> \in Seq(LayoutLines)
        /\ <<center(26), AboutOrder, Blank>> \in Seq(LayoutLines)
        /\ <<Nachbestellung, AboutOrder, Blank>> \in Seq(LayoutLines)
        /\ <<Nachbestellung, old, Blank>> \in Seq(LayoutLines)
        /\ <<>> \in Seq(LayoutLines)
    BY <1>2, <1>3, <1>4, <1>5
  <1> QED
    BY <1>6 DEF Marker, center, old, plain

(* The lines above the items *)
LEMMA HeaderIs ==
  ASSUME job \in Jobs
  PROVE  Header \in Seq(LayoutLines)
  <1> USE BonAssumption
  <1> DEFINE table == Plain(<<"layout">>, alignColumns(6 + Digits(job.table), 5))
             bestellung == Plain(<<"reference">>, 12 + reference(job.ref))
             restaurant == Plain(<<"layout">>, centerLine(Shortened(job.restaurant, 120)))
             title == Plain(<<"layout">>, centerLine(10))
  <1>1. /\ reference(job.ref) \in Nat /\ Shortened(job.restaurant, 120) \in Nat
        /\ 6 + Digits(job.table) \in Nat
    <2>1. Digits(job.table) \in 1..10
      BY DigitsIs
    <2>2. reference(job.ref) \in Nat /\ Shortened(job.restaurant, 120) \in Nat
      BY JobFacts, ReferenceIsNat
    <2> QED
      BY <2>1, <2>2
  <1>2. table \in LayoutLines /\ restaurant \in LayoutLines /\ title \in LayoutLines
        /\ Blank \in LayoutLines /\ Divider \in Seq(LayoutLines)
    <2> DEFINE n == 6 + Digits(job.table)
    <2>1. n \in Nat /\ 5 \in 0..47 /\ 10 \in Nat
      BY <1>1
    <2> HIDE DEF n
    <2>2. Plain(<<"layout">>, alignColumns(n, 5)) \in LayoutLines
      BY <2>1, LayoutIs
    <2>3. restaurant \in LayoutLines /\ title \in LayoutLines
      BY <1>1, <2>1, LayoutIs
    <2> QED
      BY <2>2, <2>3, LayoutIs DEF n
  <1>3. bestellung \in LayoutLines
    <2>1. 12 + reference(job.ref) \in Nat
      BY <1>1
    <2> QED
      BY <2>1, PlainIs
  <1> DEFINE metadata == metadataLines(reference(job.ref), 8)
  <1>4. metadata \in Seq(LayoutLines)
    BY <1>1, MetadataIs
  <1> HIDE DEF table, bestellung, restaurant, title, metadata
  <1>5. Divider \o <<table, bestellung>> \o Divider \in Seq(LayoutLines)
    BY <1>2, <1>3
  <1>6. Divider \o <<restaurant, title>> \o Divider \o <<Blank, table>>
          \o metadata \o <<Blank>> \o Divider \in Seq(LayoutLines)
    <2>1. Divider \o <<restaurant, title>> \o Divider \o <<Blank, table>> \in Seq(LayoutLines)
      BY <1>2
    <2> QED
      BY <1>2, <1>4, <2>1
  <1> QED
    BY <1>5, <1>6 DEF Header, table, bestellung, restaurant, title, metadata

-----------------------------------------------------------------------------
(* The texts of one item, and that lines show all of them *)
ItemTexts(i) ==
  TextsOf(job.items[i], i, "name", "variation", "notes")
  \cup (IF job.action # "change" THEN {}
        ELSE TextsOf(job.previousItem, i, "old name", "old variation", "old notes"))

ShowsItem(shown, i) == \A t \in ItemTexts(i) : Covers(shown, t[1], t[2])

(* Lines of the layout and of a part go together with the version of the   *)
(* item that the part is of.                                               *)
LEMMA LinesRanked ==
  /\ \A r : LayoutLines \subseteq RankLines(r)
  /\ \A n \in {"old name", "old variation", "old notes"}, i \in Nat :
       <<n, i>> \in BonParts /\ PartLines(<<n, i>>) \subseteq RankLines(2 * i)
  /\ \A n \in {"name", "variation", "notes", "no notes"}, i \in Nat :
       <<n, i>> \in BonParts /\ PartLines(<<n, i>>) \subseteq RankLines(2 * i + 1)
  <1>1. \A r : LayoutLines \subseteq RankLines(r)
    BY DEF LayoutLines, RankLines
  <1>2. ASSUME NEW n \in ItemNames, NEW i \in Nat
        PROVE  /\ <<n, i>> \in BonParts
               /\ Rank(<<n, i>>) = 2 * i + VersionRank(<<n, i>>)
               /\ VersionRank(<<n, i>>)
                    = IF n \in {"old name", "old variation", "old notes"} THEN 0 ELSE 1
    BY DEF BonParts, Rank, VersionRank
  <1>3. \A part : PartLines(part) \subseteq RankLines(Rank(part))
    BY DEF PartLines, RankLines, OnPaper
  <1>4. \A i \in Nat : 2 * i + 0 = 2 * i
    OBVIOUS
  <1>5. ASSUME NEW n \in {"old name", "old variation", "old notes"}, NEW i \in Nat
        PROVE  <<n, i>> \in BonParts /\ PartLines(<<n, i>>) \subseteq RankLines(2 * i)
    <2>1. n \in ItemNames /\ VersionRank(<<n, i>>) = 0
      BY <1>2 DEF ItemNames
    <2>2. Rank(<<n, i>>) = 2 * i
      BY <1>2, <1>4, <2>1
    <2> QED
      BY <1>2, <1>3, <2>1, <2>2
  <1>6. ASSUME NEW n \in {"name", "variation", "notes", "no notes"}, NEW i \in Nat
        PROVE  <<n, i>> \in BonParts /\ PartLines(<<n, i>>) \subseteq RankLines(2 * i + 1)
    <2>1. n \in ItemNames /\ VersionRank(<<n, i>>) = 1
      BY <1>2 DEF ItemNames
    <2>2. Rank(<<n, i>>) = 2 * i + 1
      BY <1>2, <2>1
    <2> QED
      BY <1>2, <1>3, <2>1, <2>2
  <1> QED
    BY <1>1, <1>5, <1>6

(* A heading is of the layout, and hides nothing. *)
LEMMA HeadedIs ==
  ASSUME NEW r, NEW s \in Seq(RankLines(r)), NEW n \in 0..48
  PROVE  Headed(n, s) \in Seq(RankLines(r)) /\ ToSet(s) \subseteq ToSet(Headed(n, s))
  <1> DEFINE heading == Plain(<<"layout">>, n)
  <1>1. heading \in RankLines(r)
    BY LayoutIs, LinesRanked
  <1> HIDE DEF heading
  <1>2. <<heading>> \in Seq(RankLines(r))
    BY <1>1
  <1>3. <<heading>> \o s \in Seq(RankLines(r)) /\ ToSet(s) \subseteq ToSet(<<heading>> \o s)
    <2>1. PICK top : top = <<heading>>
      OBVIOUS
    <2>2. top \in Seq(RankLines(r))
      BY <1>2, <2>1
    <2>3. ToSet(top \o s) = ToSet(top) \cup ToSet(s) /\ top \o s \in Seq(RankLines(r))
      BY <2>2, ToSetJoin
    <2> QED
      BY <2>1, <2>3
  <1>4. CASE s = <<>>
    BY <1>4 DEF Headed
  <1>5. CASE s # <<>>
    BY <1>3, <1>5 DEF Headed, heading
  <1> QED
    BY <1>4, <1>5

(* What the kitchen may expect of item i, and of the one it replaces *)
NameText(i) == LegibleName(job.items[i])
VariationText(i) == LegibleVariation(job.items[i])
NotesText(i) == LegibleNotes(job.items[i])
OldNameText == LegibleName(job.previousItem)
OldVariationText == LegibleVariation(job.previousItem)
OldNotesText == LegibleNotes(job.previousItem)

(* The blocks of item i *)
LEMMA BlocksAre ==
  ASSUME job \in Jobs, NEW i \in DOMAIN job.items
  PROVE  /\ i \in Nat
         /\ job.action # "change" => Block(Name(i), <<"name", i>>, NameText(i))
         /\ job.action = "change" =>
              Block(Versioned(<<"name", i>>, job.items[i]), <<"name", i>>, NameText(i))
         /\ Block(Variation(i), <<"variation", i>>, VariationText(i))
         /\ Block(Notes(i), <<"notes", i>>, NotesText(i))
  <1>1. i \in Nat /\ ItemOK(job.items[i])
    BY JobFacts
  <1>2. /\ <<"name", i>> \in BonParts /\ <<"variation", i>> \in BonParts
        /\ <<"notes", i>> \in BonParts
    BY <1>1, LinesRanked
  <1>3. /\ job.items[i].variation \in Seq(Word) /\ job.items[i].notes \in Seq(Word)
        /\ 160 \in Nat /\ 600 \in Nat
    BY <1>1, ItemFacts
  <1>4. ASSUME job.action # "change" PROVE Block(Name(i), <<"name", i>>, NameText(i))
    BY <1>1, <1>2, <1>4, NameIs DEF Name, NameText, LegibleName
  <1>5. ASSUME job.action = "change"
        PROVE  Block(Versioned(<<"name", i>>, job.items[i]), <<"name", i>>, NameText(i))
    BY <1>1, <1>2, <1>5, VersionedIs DEF NameText, LegibleName
  <1>6. Block(Variation(i), <<"variation", i>>, VariationText(i))
    BY <1>2, <1>3, IndentedIs DEF Variation, PrintedVariation, VariationText, LegibleVariation
  <1>7. Block(Notes(i), <<"notes", i>>, NotesText(i))
    BY <1>2, <1>3, IndentedIs DEF Notes, PrintedNotes, NotesText, LegibleNotes
  <1> QED
    BY <1>1, <1>4, <1>5, <1>6, <1>7

(* The blocks of the item it replaces *)
LEMMA OldBlocksAre ==
  ASSUME job \in Jobs, NEW i \in DOMAIN job.items, job.previousItem # NoItem,
         job.action = "change"
  PROVE  /\ Block(Versioned(<<"old name", i>>, job.previousItem), <<"old name", i>>, OldNameText)
         /\ Block(OldVariation(i), <<"old variation", i>>, OldVariationText)
         /\ Block(OldNotes(i), <<"old notes", i>>, OldNotesText)
  <1> DEFINE old == job.previousItem
  <1>1. i \in Nat /\ ItemOK(old)
    BY JobFacts
  <1>2. /\ <<"old name", i>> \in BonParts /\ <<"old variation", i>> \in BonParts
        /\ <<"old notes", i>> \in BonParts
    BY <1>1, LinesRanked
  <1>3. /\ old.variation \in Seq(Word) /\ old.notes \in Seq(Word)
        /\ 160 \in Nat /\ 600 \in Nat
    BY <1>1, ItemFacts
  <1>4. Block(Versioned(<<"old name", i>>, old), <<"old name", i>>, OldNameText)
    BY <1>1, <1>2, VersionedIs DEF OldNameText, LegibleName
  <1>5. Block(OldVariation(i), <<"old variation", i>>, OldVariationText)
    BY <1>2, <1>3, IndentedIs
      DEF OldVariation, PrintedVariation, OldVariationText, LegibleVariation
  <1>6. Block(OldNotes(i), <<"old notes", i>>, OldNotesText)
    <2>1. PICK cap \in Nat : cap = 600
      OBVIOUS
    <2>2. PICK part \in BonParts : part = <<"old notes", i>>
      BY <1>2
    <2>3. Block(wrapIndentedText(part, Printed(old.notes, cap)), part,
                Legible(<<>>, old.notes, cap))
      BY <1>3, IndentedIs
    <2> QED
      BY <2>1, <2>2, <2>3, Zenon DEF OldNotes, PrintedNotes, OldNotesText, LegibleNotes
  <1> QED
    BY <1>4, <1>5, <1>6

(* Four groups of lines, one after the other, have the lines of each. *)
LEMMA FourJoined ==
  ASSUME NEW S, NEW a \in Seq(S), NEW b \in Seq(S), NEW c \in Seq(S), NEW d \in Seq(S)
  PROVE  /\ a \o b \o c \o d \in Seq(S)
         /\ ToSet(a) \cup ToSet(b) \cup ToSet(c) \cup ToSet(d) = ToSet(a \o b \o c \o d)
  <1>1. PICK ab : ab = a \o b
    OBVIOUS
  <1>2. PICK abc : abc = ab \o c
    OBVIOUS
  <1>3. ab \in Seq(S) /\ ToSet(ab) = ToSet(a) \cup ToSet(b)
    BY <1>1, ToSetJoin
  <1>4. abc \in Seq(S) /\ ToSet(abc) = ToSet(ab) \cup ToSet(c)
    BY <1>2, <1>3, ToSetJoin
  <1>5. abc \o d \in Seq(S) /\ ToSet(abc \o d) = ToSet(abc) \cup ToSet(d)
    BY <1>4, ToSetJoin
  <1> QED
    BY <1>1, <1>2, <1>3, <1>4, <1>5

(* An item of an order, or one that is cancelled, is of one version and    *)
(* shows its texts.                                                        *)
LEMMA PlainItemIs ==
  ASSUME job \in Jobs, NEW i \in DOMAIN job.items, job.action # "change"
  PROVE  /\ Ordered(ItemLines(i), 2 * i, 2 * i + 1)
         /\ ShowsItem(ToSet(ItemLines(i)), i)
  <1> DEFINE r == 2 * i + 1
             item == job.items[i]
             cancelled == <<Plain(<<"layout">>, 12 + Digits(item.quantity))>>
             price == priceLines(formatMoney(item.unitPrice), formatMoney(item.lineTotal))
  <1>1. /\ i \in Nat /\ r \in Nat /\ 2 * i \in Nat
        /\ Block(Name(i), <<"name", i>>, NameText(i))
        /\ Block(Variation(i), <<"variation", i>>, VariationText(i))
        /\ Block(Notes(i), <<"notes", i>>, NotesText(i))
    <2>1. i \in Nat
      BY BlocksAre
    <2> QED
      BY <2>1, BlocksAre
  <1>2. /\ Name(i) \in Seq(RankLines(r)) /\ Variation(i) \in Seq(RankLines(r))
        /\ Notes(i) \in Seq(RankLines(r))
    <2>1. \A n \in {"name", "variation", "notes"} : PartLines(<<n, i>>) \subseteq RankLines(r)
      BY <1>1, LinesRanked
    <2>2. /\ Name(i) \in Seq(PartLines(<<"name", i>>))
          /\ Variation(i) \in Seq(PartLines(<<"variation", i>>))
          /\ Notes(i) \in Seq(PartLines(<<"notes", i>>))
      BY <1>1 DEF Block
    <2> HIDE DEF r
    <2> QED
      BY <2>1, <2>2
  <1>3. cancelled \in Seq(RankLines(r))
    <2>1. 12 + Digits(item.quantity) \in 0..48
      <3>1. Digits(item.quantity) \in 1..10
        BY DigitsIs
      <3> QED
        BY <3>1
    <2>2. Plain(<<"layout">>, 12 + Digits(item.quantity)) \in LayoutLines
      BY <2>1, LayoutIs
    <2>3. Plain(<<"layout">>, 12 + Digits(item.quantity)) \in RankLines(r)
      BY <2>2, LinesRanked
    <2> QED
      BY <2>3
  <1>4. price \in Seq(RankLines(r)) /\ <<>> \in Seq(RankLines(r))
    <2>1. item.unitPrice \in Nat /\ item.lineTotal \in Nat
      BY JobFacts, ItemFacts
    <2>2. formatMoney(item.unitPrice) \in 1..20 /\ formatMoney(item.lineTotal) \in 1..20
      BY <2>1, LayoutLengths
    <2>3. price \in Seq(LayoutLines)
      BY <2>2, PriceIs
    <2>4. LayoutLines \subseteq RankLines(r)
      BY LinesRanked
    <2> HIDE DEF price, r
    <2> QED
      BY <2>3, <2>4
  <1>5. PICK between :
          /\ between \in Seq(RankLines(r))
          /\ \/ ItemLines(i) = Name(i) \o Variation(i) \o between \o Notes(i)
    <2> HIDE DEF cancelled, price
    <2>1. CASE job.action \in {"cancellation", "full_cancellation"}
      <3>1. ItemLines(i) = Name(i) \o Variation(i) \o cancelled \o Notes(i)
        BY <2>1 DEF ItemLines, cancelLines, cancelled
      <3> QED
        BY <1>3, <3>1
    <2>2. CASE job.action \notin {"cancellation", "full_cancellation"}
      <3>1. ItemLines(i) = orderLines(i)
        BY <2>2 DEF ItemLines
      <3>2. orderLines(i)
              = Name(i) \o Variation(i) \o (IF WithPrices THEN price ELSE <<>>) \o Notes(i)
        BY DEF orderLines, price
      <3>3. (IF WithPrices THEN price ELSE <<>>) \in Seq(RankLines(r))
        BY <1>4
      <3> QED
        BY <3>1, <3>2, <3>3
    <2> QED
      BY <2>1, <2>2
  <1>6. /\ ItemLines(i) \in Seq(RankLines(r))
        /\ ToSet(Name(i)) \subseteq ToSet(ItemLines(i))
        /\ ToSet(Variation(i)) \subseteq ToSet(ItemLines(i))
        /\ ToSet(Notes(i)) \subseteq ToSet(ItemLines(i))
    <2> DEFINE n == Name(i)  v == Variation(i)  t == Notes(i)
    <2>1. n \in Seq(RankLines(r)) /\ v \in Seq(RankLines(r)) /\ t \in Seq(RankLines(r))
      BY <1>2
    <2> HIDE DEF n, v, t
    <2>2. /\ n \o v \o between \o t \in Seq(RankLines(r))
          /\ ToSet(n) \cup ToSet(v) \cup ToSet(between) \cup ToSet(t)
               = ToSet(n \o v \o between \o t)
      BY <1>5, <2>1, FourJoined
    <2> QED
      BY <1>5, <2>2 DEF n, v, t
  <1>7. Ordered(ItemLines(i), 2 * i, r)
    <2>1. Ordered(ItemLines(i), r, r)
      BY <1>1, <1>6, RankOrdered
    <2>2. \A n \in Nat : r <= n => 2 * i <= n
      BY <1>1
    <2>3. \A line \in BonLines : ofItem(line) => Rank(line.part) \in Nat
      BY RankIsNat
    <2> HIDE DEF r
    <2>4. \A k \in DOMAIN ItemLines(i) : ItemLines(i)[k] \in BonLines
      BY <2>1 DEF Ordered
    <2> QED
      BY <2>1, <2>2, <2>3, <2>4 DEF Ordered
  <1>8. ShowsItem(ToSet(ItemLines(i)), i)
    <2>1. /\ Covers(ToSet(ItemLines(i)), <<"name", i>>, NameText(i))
          /\ Covers(ToSet(ItemLines(i)), <<"variation", i>>, VariationText(i))
          /\ Covers(ToSet(ItemLines(i)), <<"notes", i>>, NotesText(i))
      BY <1>1, <1>6, CoversMore DEF Block
    <2>2. ItemTexts(i) = {<<<<"name", i>>, NameText(i)>>, <<<<"variation", i>>, VariationText(i)>>,
                          <<<<"notes", i>>, NotesText(i)>>}
      BY DEF ItemTexts, TextsOf, NameText, VariationText, NotesText
    <2> QED
      BY <2>1, <2>2 DEF ShowsItem
  <1> QED
    BY <1>7, <1>8 DEF r

(* Lines that show three texts show each pair of a part and its text. *)
LEMMA ThreeCovered ==
  ASSUME NEW S, NEW p1, NEW p2, NEW p3, NEW t1, NEW t2, NEW t3,
         Covers(S, p1, t1), Covers(S, p2, t2), Covers(S, p3, t3)
  PROVE  \A t \in {<<p1, t1>>, <<p2, t2>>, <<p3, t3>>} : Covers(S, t[1], t[2])
  OBVIOUS

(* The groups of lines of a change: those of the old version, then those   *)
(* of the new one                                                          *)
LEMMA SevenJoined ==
  ASSUME NEW r \in Nat,
         NEW a \in Seq(RankLines(r)), NEW b \in Seq(RankLines(r)), NEW c \in Seq(RankLines(r)),
         NEW d \in Seq(RankLines(r + 1)), NEW e \in Seq(RankLines(r + 1)),
         NEW f \in Seq(RankLines(r + 1)), NEW g \in Seq(RankLines(r + 1))
  PROVE  /\ Ordered(a \o b \o c \o d \o e \o f \o g, r, r + 1)
         /\ ToSet(a) \cup ToSet(b) \cup ToSet(c) \cup ToSet(d) \cup ToSet(e) \cup ToSet(g)
              \subseteq ToSet(a \o b \o c \o d \o e \o f \o g)
  <1>1. PICK ab : ab = a \o b
    OBVIOUS
  <1>2. PICK old : old = ab \o c
    OBVIOUS
  <1>3. ab \in Seq(RankLines(r)) /\ ToSet(ab) = ToSet(a) \cup ToSet(b)
    BY <1>1, ToSetJoin
  <1>4. old \in Seq(RankLines(r)) /\ ToSet(old) = ToSet(ab) \cup ToSet(c)
    BY <1>2, <1>3, ToSetJoin
  <1>5. Ordered(old, r, r)
    BY <1>4, RankOrdered
  <1>6. RankLines(r) \subseteq BonLines /\ RankLines(r + 1) \subseteq BonLines
    BY DEF RankLines
  <1>7. r + 1 \in Nat /\ r <= r + 1 /\ r + 1 <= r + 1 /\ r <= r
    OBVIOUS
  <1>8. ASSUME NEW s, Ordered(s, r, r) \/ Ordered(s, r, r + 1), NEW t \in Seq(RankLines(r + 1))
        PROVE  /\ Ordered(s \o t, r, r + 1)
               /\ ToSet(s \o t) = ToSet(s) \cup ToSet(t)
    <2> DEFINE q == r + 1
    <2>1. q \in Nat /\ r <= q /\ q <= q /\ r <= r
      BY <1>7
    <2> HIDE DEF q
    <2>2. Ordered(t, q, q)
      BY <1>7, RankOrdered DEF q
    <2>3. s \in Seq(BonLines) /\ t \in Seq(BonLines)
      BY <1>8, <2>2 DEF Ordered
    <2>4. Ordered(s, r, r) => Ordered(s \o t, r, q)
      BY <2>1, <2>2, OrderedJoin
    <2>5. Ordered(s, r, q) => Ordered(s \o t, r, q)
      BY <2>1, <2>2, OrderedJoin
    <2>6. Ordered(s \o t, r, r + 1)
      BY <1>8, <2>4, <2>5 DEF q
    <2> QED
      BY <2>3, <2>6, ToSetJoin
  <1>9. PICK s1 : s1 = old \o d
    OBVIOUS
  <1>10. PICK s2 : s2 = s1 \o e
    OBVIOUS
  <1>11. PICK s3 : s3 = s2 \o f
    OBVIOUS
  <1>12. PICK s4 : s4 = s3 \o g
    OBVIOUS
  <1>13. Ordered(s1, r, r + 1) /\ ToSet(s1) = ToSet(old) \cup ToSet(d)
    BY <1>5, <1>8, <1>9
  <1>14. Ordered(s2, r, r + 1) /\ ToSet(s2) = ToSet(s1) \cup ToSet(e)
    BY <1>8, <1>10, <1>13
  <1>15. Ordered(s3, r, r + 1) /\ ToSet(s3) = ToSet(s2) \cup ToSet(f)
    BY <1>8, <1>11, <1>14
  <1>16. Ordered(s4, r, r + 1) /\ ToSet(s4) = ToSet(s3) \cup ToSet(g)
    BY <1>8, <1>12, <1>15
  <1>17. s4 = a \o b \o c \o d \o e \o f \o g
    BY <1>1, <1>2, <1>9, <1>10, <1>11, <1>12
  <1>18. ToSet(a) \cup ToSet(b) \cup ToSet(c) \cup ToSet(d) \cup ToSet(e) \cup ToSet(g)
           \subseteq ToSet(s4)
    BY <1>3, <1>4, <1>13, <1>14, <1>15, <1>16
  <1> QED
    BY <1>16, <1>17, <1>18

(* A changed item shows the texts of both versions, the old one first. *)
LEMMA ChangedItemIs ==
  ASSUME job \in Jobs, NEW i \in DOMAIN job.items, job.action = "change",
         job.previousItem # NoItem
  PROVE  /\ Ordered(ItemLines(i), 2 * i, 2 * i + 1)
         /\ ShowsItem(ToSet(ItemLines(i)), i)
  <1> DEFINE r == 2 * i
             item == job.items[i]
             old == job.previousItem
             oldName == Versioned(<<"old name", i>>, old)
             oldVariation == OldVariation(i)
             newName == Versioned(<<"name", i>>, item)
             none == <<Plain(<<"no notes", i>>, 25)>>
             newNotes == IF Notes(i) = <<>> /\ OldNotes(i) # <<>> THEN none ELSE Headed(12, Notes(i))
  <1>1. i \in Nat
    BY BlocksAre
  <1>2. /\ \A n \in {"old name", "old variation", "old notes"} :
             PartLines(<<n, i>>) \subseteq RankLines(r)
        /\ \A n \in {"name", "variation", "notes", "no notes"} :
             PartLines(<<n, i>>) \subseteq RankLines(r + 1)
        /\ <<"no notes", i>> \in BonParts
    BY <1>1, LinesRanked
  <1>3. /\ Block(newName, <<"name", i>>, NameText(i))
        /\ Block(Variation(i), <<"variation", i>>, VariationText(i))
        /\ Block(Notes(i), <<"notes", i>>, NotesText(i))
    BY BlocksAre
  <1>4. /\ Block(oldName, <<"old name", i>>, OldNameText)
        /\ Block(oldVariation, <<"old variation", i>>, OldVariationText)
        /\ Block(OldNotes(i), <<"old notes", i>>, OldNotesText)
    BY OldBlocksAre
  <1>5. ItemLines(i) = oldName \o oldVariation \o Headed(12, OldNotes(i))
                         \o newName \o Variation(i) \o <<Delta>> \o newNotes
    <2>1. ItemLines(i) = changeLines(i)
      BY DEF ItemLines
    <2> QED
      BY <2>1, Zenon DEF changeLines
  <1>6. ItemTexts(i)
          = {<<<<"name", i>>, NameText(i)>>, <<<<"variation", i>>, VariationText(i)>>,
             <<<<"notes", i>>, NotesText(i)>>}
            \cup {<<<<"old name", i>>, OldNameText>>, <<<<"old variation", i>>, OldVariationText>>,
                  <<<<"old notes", i>>, OldNotesText>>}
    BY DEF ItemTexts, TextsOf, NameText, VariationText, NotesText, OldNameText,
           OldVariationText, OldNotesText
  <1>7. none \in Seq(RankLines(r + 1))
    <2> DEFINE part == <<"no notes", i>>
    <2>1. part \in BonParts /\ PartLines(part) \subseteq RankLines(r + 1)
      BY <1>2
    <2> HIDE DEF part
    <2>2. Plain(part, 25) \in PartLines(part)
      <3>1. 25 \in Nat /\ 25 <= PaperWidth /\ <<>> \in Seq(Pieces)
        BY BonAssumption
      <3> QED
        BY <2>1, <3>1 DEF Plain, PartLines, BonLines
    <2>3. Plain(part, 25) \in RankLines(r + 1)
      BY <2>1, <2>2
    <2>4. <<Plain(part, 25)>> \in Seq(RankLines(r + 1))
      <3> HIDE DEF r
      <3> QED
        BY <2>3
    <2> QED
      BY <2>4 DEF part
  <1>8. PICK delta : delta = <<Delta>>
    OBVIOUS
  <1>9. delta \in Seq(RankLines(r + 1))
    <2> DEFINE n == IF job.delta = 0 THEN 17
                    ELSE 12 + Digits(IF job.delta > 0 THEN job.delta ELSE -job.delta)
    <2>1. n \in 0..48
      <3>1. Digits(IF job.delta > 0 THEN job.delta ELSE -job.delta) \in 1..10
        BY DigitsIs
      <3> QED
        BY <3>1
    <2> HIDE DEF n
    <2>2. Plain(<<"layout">>, n) \in RankLines(r + 1)
      BY <2>1, LayoutIs, LinesRanked
    <2>3. Delta \in RankLines(r + 1)
      BY <2>2 DEF Delta, n
    <2> HIDE DEF r
    <2> QED
      BY <1>8, <2>3
  <1> HIDE DEF r, oldName, oldVariation, newName, none
  <1>10. /\ oldName \in Seq(RankLines(r)) /\ oldVariation \in Seq(RankLines(r))
         /\ OldNotes(i) \in Seq(RankLines(r))
    BY <1>2, <1>4, SeqWider DEF Block
  <1>11. /\ newName \in Seq(RankLines(r + 1)) /\ Variation(i) \in Seq(RankLines(r + 1))
         /\ Notes(i) \in Seq(RankLines(r + 1))
    BY <1>2, <1>3, SeqWider DEF Block
  <1>12. PICK oldNotes : oldNotes = Headed(12, OldNotes(i))
    OBVIOUS
  <1>13. oldNotes \in Seq(RankLines(r)) /\ ToSet(OldNotes(i)) \subseteq ToSet(oldNotes)
    <2>1. 12 \in 0..48
      OBVIOUS
    <2> QED
      BY <1>10, <1>12, <2>1, HeadedIs
  <1>14. PICK notes : notes = newNotes
    OBVIOUS
  <1>15. notes \in Seq(RankLines(r + 1)) /\ ToSet(Notes(i)) \subseteq ToSet(notes)
    <2>1. CASE Notes(i) = <<>> /\ OldNotes(i) # <<>>
      <3>1. ToSet(Notes(i)) = {}
        BY <2>1 DEF ToSet
      <3> QED
        BY <1>7, <1>14, <2>1, <3>1
    <2>2. CASE ~(Notes(i) = <<>> /\ OldNotes(i) # <<>>)
      <3>1. notes = Headed(12, Notes(i))
        BY <1>14, <2>2
      <3> QED
        <4>1. 12 \in 0..48
          OBVIOUS
        <4> QED
          BY <1>11, <3>1, <4>1, HeadedIs
    <2> QED
      BY <2>1, <2>2
  <1> HIDE DEF newNotes
  <1>16. ItemLines(i) = oldName \o oldVariation \o oldNotes \o newName \o Variation(i)
                          \o delta \o notes
    BY <1>5, <1>8, <1>12, <1>14
  <1>17. r \in Nat
    BY <1>1 DEF r
  <1>18. /\ Ordered(ItemLines(i), r, r + 1)
         /\ ToSet(oldName) \cup ToSet(oldVariation) \cup ToSet(oldNotes) \cup ToSet(newName)
              \cup ToSet(Variation(i)) \cup ToSet(notes) \subseteq ToSet(ItemLines(i))
    BY <1>9, <1>10, <1>11, <1>13, <1>15, <1>16, <1>17, SevenJoined
  <1>19. ShowsItem(ToSet(ItemLines(i)), i)
    <2> DEFINE all == ToSet(ItemLines(i))
    <2>1. /\ ToSet(oldName) \subseteq all /\ ToSet(oldVariation) \subseteq all
          /\ ToSet(OldNotes(i)) \subseteq all /\ ToSet(newName) \subseteq all
          /\ ToSet(Variation(i)) \subseteq all /\ ToSet(Notes(i)) \subseteq all
      BY <1>13, <1>15, <1>18
    <2> HIDE DEF all
    <2>2. /\ Covers(all, <<"name", i>>, NameText(i))
          /\ Covers(all, <<"variation", i>>, VariationText(i))
          /\ Covers(all, <<"notes", i>>, NotesText(i))
      BY <1>3, <2>1, CoversMore DEF Block
    <2>3. /\ Covers(all, <<"old name", i>>, OldNameText)
          /\ Covers(all, <<"old variation", i>>, OldVariationText)
          /\ Covers(all, <<"old notes", i>>, OldNotesText)
      BY <1>4, <2>1, CoversMore DEF Block
    <2>4. \A t \in {<<<<"name", i>>, NameText(i)>>, <<<<"variation", i>>, VariationText(i)>>,
                   <<<<"notes", i>>, NotesText(i)>>} : Covers(all, t[1], t[2])
      BY <2>2, ThreeCovered
    <2>5. \A t \in {<<<<"old name", i>>, OldNameText>>, <<<<"old variation", i>>, OldVariationText>>,
                   <<<<"old notes", i>>, OldNotesText>>} : Covers(all, t[1], t[2])
      <3> DEFINE p1 == <<"old name", i>>  p2 == <<"old variation", i>>  p3 == <<"old notes", i>>
      <3>1. Covers(all, p1, OldNameText) /\ Covers(all, p2, OldVariationText) /\ Covers(all, p3, OldNotesText)
        BY <2>3
      <3> HIDE DEF p1, p2, p3
      <3>2. \A t \in {<<p1, OldNameText>>, <<p2, OldVariationText>>, <<p3, OldNotesText>>} :
              Covers(all, t[1], t[2])
        BY <3>1, ThreeCovered
      <3> QED
        BY <3>2 DEF p1, p2, p3
    <2>6. ShowsItem(all, i)
      BY <1>6, <2>4, <2>5, Zenon DEF ShowsItem
    <2> QED
      BY <2>6 DEF all
  <1> QED
    BY <1>18, <1>19 DEF r

(* The lines of any item of a valid order *)
LEMMA ItemIs ==
  ASSUME job \in Jobs, ValidJob, NEW i \in DOMAIN job.items
  PROVE  /\ i \in Nat
         /\ Ordered(ItemLines(i), 2 * i, 2 * i + 1)
         /\ ShowsItem(ToSet(ItemLines(i)), i)
  <1>1. i \in Nat
    BY BlocksAre
  <1>2. CASE job.action = "change"
    BY <1>1, <1>2, ChangedItemIs DEF ValidJob
  <1>3. CASE job.action # "change"
    BY <1>1, <1>3, PlainItemIs
  <1> QED
    BY <1>2, <1>3

(* What is put behind the items, before the last divider *)
EndFirst == IF WithPrices \/ job.notes # <<>> THEN Divider ELSE <<>>

EndNotes ==
  IF job.notes = <<>> THEN <<>>
  ELSE <<Blank, Plain(<<"layout">>, 10)>>
       \o Shown(<<"order notes", 0>>, Printed(job.notes, 1200), PaperWidth, 0, 0, 0)
       \o <<Blank>> \o Divider

EndSum ==
  IF WithPrices THEN <<Plain(<<"layout">>, alignColumns(7, formatMoney(job.total)))>> ELSE <<>>

(* An empty text has no letters to be shown. *)
LEMMA NothingLegible ==
  ASSUME NEW lead, NEW cap
  PROVE  Legible(lead, <<>>, cap) = <<>>
  <1>1. Uncut(<<>>) = <<>>
    BY DEF Uncut, InPrint, Lengths
  <1> QED
    BY <1>1 DEF Legible

(* They fit, belong to no item and show the notes of the order. *)
LEMMA EndIs ==
  ASSUME job \in Jobs
  PROVE  /\ EndFirst \in Seq(LayoutLines)
         /\ EndNotes \in Seq(LayoutLines)
         /\ EndSum \in Seq(LayoutLines)
         /\ Divider \in Seq(LayoutLines)
         /\ Covers(ToSet(EndNotes), <<"order notes", 0>>, LegibleOrderNotes)
  <1> USE BonAssumption
  <1> DEFINE part == <<"order notes", 0>>
             cap == 1200
             ws == Printed(job.notes, cap)
             legible == Legible(<<>>, job.notes, cap)
             shown == Shown(part, ws, PaperWidth, 0, 0, 0)
             top == <<Blank, Plain(<<"layout">>, 10)>>
  <1>1. part \in BonParts /\ part[1] = "order notes" /\ job.total \in Nat
    BY JobFacts DEF BonParts
  <1>12. legible = LegibleOrderNotes /\ cap \in Nat
    BY DEF LegibleOrderNotes
  <1> HIDE DEF cap
  <1>11. ws \in Seq(Nat) /\ (legible = <<>> \/ (legible = ws /\ Whole(ws)))
    <2>1. PICK lead \in Seq(Nat \ {0}) : lead = <<>>
      <3>1. <<>> \in Seq(Nat \ {0})
        OBVIOUS
      <3> QED
        BY <3>1
    <2>3. job.notes \in Seq(Word) /\ cap \in Nat
      BY <1>12, JobFacts
    <2>4. ws \in Seq(Nat) /\ (legible = <<>> \/ (legible = ws /\ Whole(lead \o ws)))
      BY <2>1, <2>3, PrintedIs
    <2> HIDE DEF ws, legible
    <2>5. lead \o ws = ws
      BY <2>1, <2>4
    <2> QED
      BY <2>4, <2>5
  <1> HIDE DEF part, ws, legible
  <1>2. /\ shown \in Seq(PartLines(part))
        /\ Whole(ws) => \A w \in DOMAIN ws : w > 0 => \A k \in 1..ws[w] :
             \E line \in ToSet(shown) : \E a \in DOMAIN line.pieces :
               Shows(line.pieces[a], w - 0, k)
    <2>1. PaperWidth \in Nat \ {0} /\ 0 \in Nat /\ 0 + PaperWidth <= PaperWidth
      OBVIOUS
    <2> QED
      BY <1>1, <1>11, <2>1, ShownIs
  <1> HIDE DEF shown
  <1>3. PartLines(part) \subseteq LayoutLines
    BY <1>1 DEF PartLines, LayoutLines, ofItem, OnPaper
  <1>4. shown \in Seq(LayoutLines)
    BY <1>2, <1>3, SeqWider
  <1>5. Covers(ToSet(shown), part, legible)
    BY <1>2, <1>11, CoversLegible
  <1>6. /\ Blank \in LayoutLines /\ Divider \in Seq(LayoutLines)
        /\ Plain(<<"layout">>, 10) \in LayoutLines
        /\ Plain(<<"layout">>, alignColumns(7, formatMoney(job.total))) \in LayoutLines
    <2> DEFINE money == formatMoney(job.total)
    <2>1. money \in 1..20
      BY <1>1, LayoutLengths
    <2> HIDE DEF money
    <2>2. 7 \in Nat /\ money \in 0..47 /\ 10 \in 0..48
      BY <2>1
    <2>3. Plain(<<"layout">>, alignColumns(7, money)) \in LayoutLines
      BY <2>2, LayoutIs
    <2> QED
      BY <2>2, <2>3, LayoutIs DEF money
  <1>7. /\ EndFirst \in Seq(LayoutLines) /\ EndSum \in Seq(LayoutLines)
        /\ top \in Seq(LayoutLines) /\ <<>> \in Seq(LayoutLines)
    <2> DEFINE l10 == Plain(<<"layout">>, 10)
               total == Plain(<<"layout">>, alignColumns(7, formatMoney(job.total)))
    <2>1. l10 \in LayoutLines /\ total \in LayoutLines
      BY <1>6
    <2> HIDE DEF l10, total
    <2>2. /\ <<Blank, l10>> \in Seq(LayoutLines) /\ <<total>> \in Seq(LayoutLines)
          /\ <<>> \in Seq(LayoutLines)
      BY <1>6, <2>1
    <2> QED
      BY <1>6, <2>2 DEF l10, total, EndFirst, EndSum
  <1> DEFINE notes == IF job.notes = <<>> THEN <<>> ELSE top \o shown \o <<Blank>> \o Divider
  <1>8. EndNotes = notes
    BY DEF EndNotes, ws, part, shown, notes, cap
  <1>9. notes \in Seq(LayoutLines) /\ (job.notes # <<>> => ToSet(shown) \subseteq ToSet(notes))
    <2> HIDE DEF top
    <2>1. <<Blank>> \in Seq(LayoutLines)
      BY <1>6
    <2> DEFINE blank == <<Blank>>
    <2> HIDE DEF blank
    <2>2. /\ top \o shown \o blank \o Divider \in Seq(LayoutLines)
          /\ ToSet(top) \cup ToSet(shown) \cup ToSet(blank) \cup ToSet(Divider)
               = ToSet(top \o shown \o blank \o Divider)
      <3>1. blank \in Seq(LayoutLines)
        BY <2>1 DEF blank
      <3> QED
        BY <1>4, <1>6, <1>7, <3>1, FourJoined
    <2> QED
      BY <1>7, <2>2 DEF blank
  <1> HIDE DEF notes
  <1>10. Covers(ToSet(notes), part, legible)
    <2>1. CASE job.notes = <<>>
      <3>1. legible = <<>>
        BY <2>1, NothingLegible DEF legible
      <3> QED
        BY <3>1 DEF Covers
    <2>2. CASE job.notes # <<>>
      BY <1>5, <1>9, <2>2, CoversMore
    <2> QED
      BY <2>1, <2>2
  <1> QED
    BY <1>6, <1>7, <1>8, <1>9, <1>10, <1>12 DEF part

-----------------------------------------------------------------------------
(* The inductive invariant: only a valid order gets lines; they fit and    *)
(* stand in order, those of the item whose turn it is behind the others;   *)
(* and the items whose turn has been show their texts.                     *)
Ended == {"guards", "refused", "printed"}

BonInv ==
  /\ job \in Jobs /\ layout \in Layouts
  /\ at \in {"parse", "rejected", "marker", "items"} \cup Ended
  /\ nextItem \in 1..(Len(job.items) + 1)
  /\ at \in {"parse", "rejected", "marker"} => nextItem = 1 /\ lines = <<>>
  /\ at \notin {"parse", "rejected"} => ValidJob
  /\ Ordered(lines, 0, 2 * nextItem)
  /\ \A i \in 1..(nextItem - 1) : ShowsItem(ToSet(lines), i)
  /\ at \in Ended =>
       /\ nextItem = Len(job.items) + 1
       /\ Covers(ToSet(lines), <<"order notes", 0>>, LegibleOrderNotes)

(* Lines of the layout may be put behind any others. *)
LEMMA LayoutAppended ==
  ASSUME NEW a \in Nat, NEW b \in Nat, a <= b, NEW s, Ordered(s, a, b),
         NEW t \in Seq(LayoutLines)
  PROVE  Ordered(s \o t, a, b) /\ ToSet(s \o t) = ToSet(s) \cup ToSet(t)
  <1>1. Ordered(t, b, b)
    BY LayoutOrdered
  <1>2. b <= b
    OBVIOUS
  <1>3. Ordered(s \o t, a, b)
    BY <1>1, <1>2, OrderedJoin
  <1>4. s \in Seq(BonLines) /\ t \in Seq(BonLines)
    BY <1>1 DEF Ordered
  <1> QED
    BY <1>3, <1>4, ToSetJoin

(* A bon has no lines at first. *)
LEMMA BonStart == BonInit => BonInv
  <1> SUFFICES ASSUME BonInit PROVE BonInv
    OBVIOUS
  <1>1. job \in Jobs /\ layout \in Layouts /\ lines = <<>> /\ at = "parse" /\ nextItem = 1
    BY DEF BonInit
  <1>2. Len(job.items) \in Nat
    BY <1>1, JobFacts
  <1>3. <<>> \in Seq(LayoutLines)
    OBVIOUS
  <1>4. Ordered(lines, 0, 2 * nextItem)
    BY <1>1, <1>3, LayoutOrdered
  <1>5. nextItem \in 1..(Len(job.items) + 1) /\ 1..(nextItem - 1) = {}
    BY <1>1, <1>2
  <1> QED
    BY <1>1, <1>4, <1>5 DEF BonInv, Ended

(* What the order is does not change while it is printed. *)
LEMMA OrderStays ==
  ASSUME UNCHANGED job
  PROVE  /\ ValidJob' <=> ValidJob
         /\ \A i : ItemTexts(i)' = ItemTexts(i)
         /\ LegibleOrderNotes' = LegibleOrderNotes
  <1>1. ValidJob' <=> ValidJob
    BY DEF ValidJob, UniqueIds, LineTotalsRight, LineTotals
  <1>2. \A i : ItemTexts(i)' = ItemTexts(i)
    BY DEF ItemTexts, TextsOf, LegibleName, LegibleVariation, LegibleNotes
  <1>3. LegibleOrderNotes' = LegibleOrderNotes
    BY DEF LegibleOrderNotes
  <1> QED
    BY <1>1, <1>2, <1>3

(* Parsing *)
LEMMA BonParse == BonInv /\ Parse => BonInv'
  <1> SUFFICES ASSUME BonInv, Parse PROVE BonInv'
    OBVIOUS
  <1>1. /\ at = "parse" /\ at' = IF ValidJob THEN "marker" ELSE "rejected"
        /\ UNCHANGED <<job, layout, lines, nextItem>>
    BY DEF Parse
  <1>2. /\ ValidJob' <=> ValidJob
        /\ \A i : ItemTexts(i)' = ItemTexts(i)
        /\ LegibleOrderNotes' = LegibleOrderNotes
    BY <1>1, OrderStays
  <1>3. (at' = "marker" /\ ValidJob) \/ at' = "rejected"
    BY <1>1
  <1>4. /\ job \in Jobs /\ layout \in Layouts /\ nextItem \in 1..(Len(job.items) + 1)
        /\ nextItem = 1 /\ lines = <<>> /\ Ordered(lines, 0, 2 * nextItem)
        /\ \A i \in 1..(nextItem - 1) : ShowsItem(ToSet(lines), i)
    BY <1>1 DEF BonInv
  <1>5. \A i \in 1..(nextItem' - 1) : ShowsItem(ToSet(lines), i)'
    BY <1>1, <1>2, <1>4 DEF ShowsItem
  <1>6. Ordered(lines', 0, 2 * nextItem')
    BY <1>1, <1>4
  <1> QED
    BY <1>1, <1>2, <1>3, <1>4, <1>5, <1>6 DEF BonInv, Ended

(* The lines above the items *)
LEMMA BonBegin == BonInv /\ Begin => BonInv'
  <1> SUFFICES ASSUME BonInv, Begin PROVE BonInv'
    OBVIOUS
  <1> DEFINE reprint == IF job.reprint THEN <<Plain(<<"layout">>, 25), Blank>> ELSE <<>>
  <1>1. /\ at = "marker" /\ at' = "items" /\ lines' = reprint \o Marker \o Header
        /\ UNCHANGED <<job, layout, nextItem>>
    BY DEF Begin
  <1>2. job \in Jobs /\ layout \in Layouts /\ nextItem = 1 /\ ValidJob
        /\ nextItem \in 1..(Len(job.items) + 1)
    BY <1>1 DEF BonInv, Ended
  <1>3. ValidJob'
    BY <1>1, <1>2, OrderStays
  <1>4. reprint \in Seq(LayoutLines)
    <2> DEFINE title == Plain(<<"layout">>, 25)
    <2>1. 25 \in 0..48
      OBVIOUS
    <2>2. title \in LayoutLines /\ Blank \in LayoutLines
      BY <2>1, LayoutIs
    <2> HIDE DEF title
    <2>3. <<title, Blank>> \in Seq(LayoutLines)
      BY <2>2
    <2> QED
      BY <2>3 DEF title
  <1>5. Marker \in Seq(LayoutLines) /\ Header \in Seq(LayoutLines)
    BY <1>2, MarkerIs, HeaderIs
  <1> HIDE DEF reprint
  <1>6. lines' \in Seq(LayoutLines)
    BY <1>1, <1>4, <1>5
  <1>7. Ordered(lines', 0, 2 * nextItem')
    BY <1>6, LayoutOrdered
  <1>8. 1..(nextItem' - 1) = {}
    BY <1>1, <1>2
  <1> QED
    BY <1>1, <1>2, <1>3, <1>7, <1>8 DEF BonInv, Ended

(* The lines of one item *)
LEMMA BonItem == BonInv /\ Item => BonInv'
  <1> SUFFICES ASSUME BonInv, Item PROVE BonInv'
    OBVIOUS
  <1> DEFINE gap == IF nextItem < Len(job.items) THEN <<Blank>> ELSE <<>>
  <1>1. /\ at = "items" /\ nextItem \in DOMAIN job.items
        /\ lines' = lines \o ItemLines(nextItem) \o gap
        /\ nextItem' = nextItem + 1
        /\ UNCHANGED <<job, layout, at>>
    BY DEF Item
  <1>2. /\ job \in Jobs /\ layout \in Layouts /\ ValidJob /\ Ordered(lines, 0, 2 * nextItem)
        /\ \A i \in 1..(nextItem - 1) : ShowsItem(ToSet(lines), i)
    BY <1>1 DEF BonInv, Ended
  <1>3. ValidJob' /\ \A i : ItemTexts(i)' = ItemTexts(i)
    BY <1>1, <1>2, OrderStays
  <1>4. PICK n \in Nat : n = nextItem
    BY <1>1, <1>2, ItemIs
  <1>5. PICK item : item = ItemLines(n)
    OBVIOUS
  <1>6. Ordered(item, 2 * n, 2 * n + 1) /\ ShowsItem(ToSet(item), n)
    BY <1>1, <1>2, <1>4, <1>5, ItemIs
  <1>7. gap \in Seq(LayoutLines)
    <2>1. Blank \in LayoutLines
      BY LayoutIs
    <2>2. <<Blank>> \in Seq(LayoutLines)
      BY <2>1
    <2> QED
      BY <2>2
  <1> HIDE DEF gap
  <1>8. PICK s : s = lines \o item
    OBVIOUS
  <1>9. Ordered(s, 0, 2 * n + 1) /\ ToSet(s) = ToSet(lines) \cup ToSet(item)
    <2> DEFINE b == 2 * n  d == 2 * n + 1  a == 0
    <2>1. a \in Nat /\ b \in Nat /\ d \in Nat /\ a <= b /\ b <= b /\ b <= d
      OBVIOUS
    <2>2. Ordered(lines, a, b) /\ Ordered(item, b, d)
      BY <1>2, <1>4, <1>6
    <2> HIDE DEF a, b, d
    <2>3. Ordered(s, a, d)
      BY <1>8, <2>1, <2>2, OrderedJoin
    <2>4. lines \in Seq(BonLines) /\ item \in Seq(BonLines)
      BY <2>2 DEF Ordered
    <2>5. ToSet(s) = ToSet(lines) \cup ToSet(item)
      BY <1>8, <2>4, ToSetJoin
    <2> QED
      BY <2>3, <2>5 DEF a, d
  <1>10. Ordered(lines', 0, 2 * nextItem') /\ ToSet(lines') = ToSet(s) \cup ToSet(gap)
    <2> DEFINE d == 2 * n + 1  e == 2 * nextItem'  a == 0
    <2>1. a \in Nat /\ d \in Nat /\ e \in Nat /\ a <= e /\ d <= e /\ e <= e
      BY <1>1, <1>4
    <2>2. Ordered(s, a, d) /\ lines' = s \o gap
      BY <1>1, <1>4, <1>5, <1>8, <1>9
    <2> HIDE DEF a, d, e
    <2>3. Ordered(gap, e, e)
      BY <1>7, LayoutOrdered
    <2>4. Ordered(lines', a, e)
      BY <2>1, <2>2, <2>3, OrderedJoin
    <2>5. s \in Seq(BonLines) /\ gap \in Seq(BonLines)
      BY <2>2, <2>3 DEF Ordered
    <2>6. ToSet(lines') = ToSet(s) \cup ToSet(gap)
      BY <2>2, <2>5, ToSetJoin
    <2> QED
      BY <2>4, <2>6 DEF a, e
  <1>11. ASSUME NEW i \in 1..(nextItem' - 1) PROVE ShowsItem(ToSet(lines), i)'
    <2>1. i \in 1..(nextItem - 1) \/ i = n
      BY <1>1, <1>4
    <2>2. ToSet(lines) \subseteq ToSet(lines') /\ ToSet(item) \subseteq ToSet(lines')
      BY <1>9, <1>10
    <2>3. \A t \in ItemTexts(i) : Covers(ToSet(lines'), t[1], t[2])
      <3>1. CASE i = n
        BY <1>6, <2>2, <3>1, CoversMore DEF ShowsItem
      <3>2. CASE i \in 1..(nextItem - 1)
        BY <1>2, <2>2, <3>2, CoversMore DEF ShowsItem
      <3> QED
        BY <2>1, <3>1, <3>2
    <2> QED
      BY <1>3, <2>3 DEF ShowsItem
  <1>12. nextItem' \in 1..(Len(job'.items) + 1)
    <2>1. Len(job.items) \in Nat /\ DOMAIN job.items = 1..Len(job.items)
      BY <1>2, JobFacts
    <2> QED
      BY <1>1, <2>1
  <1> QED
    BY <1>1, <1>2, <1>3, <1>10, <1>11, <1>12 DEF BonInv, Ended

(* The lines below the items *)
LEMMA BonEnd == BonInv /\ End => BonInv'
  <1> SUFFICES ASSUME BonInv, End PROVE BonInv'
    OBVIOUS
  <1>1. /\ at = "items" /\ nextItem \notin DOMAIN job.items /\ at' = "guards"
        /\ lines' = lines \o EndFirst \o EndNotes \o EndSum \o Divider
        /\ UNCHANGED <<job, layout, nextItem>>
    BY DEF End, EndFirst, EndNotes, EndSum
  <1>2. /\ job \in Jobs /\ layout \in Layouts /\ ValidJob /\ Ordered(lines, 0, 2 * nextItem)
        /\ nextItem \in 1..(Len(job.items) + 1)
        /\ \A i \in 1..(nextItem - 1) : ShowsItem(ToSet(lines), i)
    BY <1>1 DEF BonInv, Ended
  <1>3. ValidJob' /\ \A i : ItemTexts(i)' = ItemTexts(i)
    BY <1>1, <1>2, OrderStays
  <1>4. nextItem = Len(job.items) + 1
    <2>1. Len(job.items) \in Nat /\ DOMAIN job.items = 1..Len(job.items)
      BY <1>2, JobFacts
    <2> QED
      BY <1>1, <1>2, <2>1
  <1>5. /\ EndFirst \in Seq(LayoutLines) /\ EndNotes \in Seq(LayoutLines)
        /\ EndSum \in Seq(LayoutLines) /\ Divider \in Seq(LayoutLines)
    BY <1>2, EndIs
  <1>6. PICK b \in Nat : b = 2 * nextItem
    BY <1>2, <1>4, JobFacts
  <1>7. PICK a \in Nat : a = 0 /\ a <= b
    BY <1>6
  <1>8. PICK s1 : s1 = lines \o EndFirst
    OBVIOUS
  <1>9. PICK s2 : s2 = s1 \o EndNotes
    OBVIOUS
  <1>10. PICK s3 : s3 = s2 \o EndSum
    OBVIOUS
  <1>20. Ordered(lines, a, b)
    BY <1>2, <1>6, <1>7
  <1>11. Ordered(s1, a, b) /\ ToSet(s1) = ToSet(lines) \cup ToSet(EndFirst)
    BY <1>5, <1>6, <1>7, <1>8, <1>20, LayoutAppended
  <1>12. Ordered(s2, a, b) /\ ToSet(s2) = ToSet(s1) \cup ToSet(EndNotes)
    BY <1>5, <1>7, <1>9, <1>11, LayoutAppended
  <1>13. Ordered(s3, a, b) /\ ToSet(s3) = ToSet(s2) \cup ToSet(EndSum)
    BY <1>5, <1>7, <1>10, <1>12, LayoutAppended
  <1>14. lines' = s3 \o Divider
    BY <1>1, <1>8, <1>9, <1>10
  <1>15. Ordered(lines', a, b) /\ ToSet(lines') = ToSet(s3) \cup ToSet(Divider)
    BY <1>5, <1>7, <1>13, <1>14, LayoutAppended
  <1>16. ToSet(lines) \subseteq ToSet(lines') /\ ToSet(EndNotes) \subseteq ToSet(lines')
    BY <1>11, <1>12, <1>13, <1>15
  <1>17. Covers(ToSet(lines'), <<"order notes", 0>>, LegibleOrderNotes')
    <2>1. Covers(ToSet(EndNotes), <<"order notes", 0>>, LegibleOrderNotes)
      BY <1>2, EndIs
    <2>2. LegibleOrderNotes' = LegibleOrderNotes
      BY <1>1, OrderStays
    <2>3. Covers(ToSet(lines'), <<"order notes", 0>>, LegibleOrderNotes)
      BY <1>16, <2>1, CoversMore
    <2> QED
      BY <2>2, <2>3
  <1>18. ASSUME NEW i \in 1..(nextItem' - 1) PROVE ShowsItem(ToSet(lines), i)'
    <2>1. \A t \in ItemTexts(i) : Covers(ToSet(lines'), t[1], t[2])
      BY <1>1, <1>2, <1>16, CoversMore DEF ShowsItem
    <2> QED
      BY <1>3, <2>1 DEF ShowsItem
  <1>19. Ordered(lines', 0, 2 * nextItem')
    BY <1>1, <1>6, <1>7, <1>15
  <1> QED
    BY <1>1, <1>2, <1>3, <1>4, <1>17, <1>18, <1>19 DEF BonInv, Ended

(* The guards, and a step of another part, leave the lines as they are. *)
LEMMA BonRest == BonInv /\ (Guards \/ UNCHANGED bonVars) => BonInv'
  <1> SUFFICES ASSUME BonInv, Guards \/ UNCHANGED bonVars PROVE BonInv'
    OBVIOUS
  <1>1. /\ UNCHANGED <<job, layout, lines, nextItem>>
        /\ \/ at' = at
           \/ at = "guards" /\ at' \in {"refused", "printed"}
    BY DEF Guards, bonVars
  <1>2. /\ ValidJob' <=> ValidJob
        /\ \A i : ItemTexts(i)' = ItemTexts(i)
        /\ LegibleOrderNotes' = LegibleOrderNotes
    BY <1>1, OrderStays
  <1>3. \A i \in 1..(nextItem' - 1) : ShowsItem(ToSet(lines), i)'
    <2>1. \A i \in 1..(nextItem - 1) : ShowsItem(ToSet(lines), i)
      BY DEF BonInv
    <2> QED
      BY <1>1, <1>2, <2>1 DEF ShowsItem
  <1>4. Ordered(lines', 0, 2 * nextItem')
    BY <1>1 DEF BonInv
  <1> QED
    BY <1>1, <1>2, <1>3, <1>4 DEF BonInv, Ended

(* The invariant holds in every state. *)
LEMMA BonInvHolds == BonInit /\ [][BonNext]_bonVars => []BonInv
  <1>1. BonInv /\ [BonNext]_bonVars => BonInv'
    BY BonParse, BonBegin, BonItem, BonEnd, BonRest DEF BonNext
  <1> QED
    BY <1>1, BonStart, PTL

-----------------------------------------------------------------------------
(* Every state of a bon is one the types admit. *)
LEMMA BonTyped == BonInv => BonTypeOK
  <1> SUFFICES ASSUME BonInv PROVE BonTypeOK
    OBVIOUS
  <1>1. job \in Jobs /\ layout \in Layouts /\ nextItem \in 1..(Len(job.items) + 1)
    BY DEF BonInv
  <1>2. job.action \in Actions
    BY <1>1, JobFacts
  <1>3. \A i \in DOMAIN lines : lines[i].len \in Nat
    <2>1. lines \in Seq(BonLines)
      BY DEF BonInv, Ordered
    <2>2. \A i \in DOMAIN lines : lines[i] \in BonLines
      BY <2>1
    <2> QED
      BY <2>2 DEF BonLines
  <1>4. at \in {"parse", "marker", "items", "guards", "rejected", "refused", "printed"}
    BY DEF BonInv, Ended
  <1> QED
    BY <1>1, <1>2, <1>3, <1>4 DEF BonTypeOK

(* What stands in order fits. *)
LEMMA LinesFitPaper == BonInv => EveryLineFits
  BY DEF BonInv, Ordered, EveryLineFits

(* Each text belongs to the order or to one of its items. *)
LEMMA TextsAre ==
  ASSUME NEW t \in Texts
  PROVE  \/ t = <<<<"order notes", 0>>, LegibleOrderNotes>>
         \/ \E i \in DOMAIN job.items : t \in ItemTexts(i)
  <1>1. CASE t \in OrderTexts
    BY <1>1, Zenon DEF OrderTexts
  <1>2. CASE t \in HeldTexts
    BY <1>2 DEF HeldTexts, ItemTexts
  <1>3. CASE t \in ReplacedTexts
    BY <1>3 DEF ReplacedTexts, ItemTexts
  <1> QED
    BY <1>1, <1>2, <1>3 DEF Texts

(* A text that is covered by the lines is found among the pieces on them.  *)
LEMMA CoveredIsShown ==
  ASSUME NEW part, NEW ws, Covers(ToSet(lines), part, ws),
         NEW w \in DOMAIN ws, NEW k \in 1..ws[w]
  PROVE  \E p \in {q \in UNION {Range(lines[i].pieces) :
                                  i \in {j \in DOMAIN lines : lines[j].part = part}} : q.word = w} :
           p.from < k /\ k <= p.to
  <1>1. PICK line \in ToSet(lines) :
          line.part = part /\ \E a \in DOMAIN line.pieces : Shows(line.pieces[a], w, k)
    BY DEF Covers
  <1>2. PICK i \in DOMAIN lines : line = lines[i]
    BY <1>1 DEF ToSet
  <1>3. PICK a \in DOMAIN line.pieces : Shows(line.pieces[a], w, k)
    BY <1>1
  <1>4. line.pieces[a] \in Range(lines[i].pieces)
    BY <1>2 DEF Range
  <1>5. line.pieces[a] \in UNION {Range(lines[j].pieces) :
                                    j \in {j \in DOMAIN lines : lines[j].part = part}}
    BY <1>1, <1>2, <1>4
  <1> QED
    BY <1>3, <1>5 DEF Shows

(* What is printed shows every letter of every text. *)
LEMMA AllPrinted == BonInv => EverythingPrinted
  <1> SUFFICES ASSUME BonInv, at = "printed", NEW t \in Texts,
                      NEW w \in DOMAIN t[2], NEW k \in 1..t[2][w]
               PROVE  \E p \in {q \in UNION {Range(lines[i].pieces) :
                                  i \in {j \in DOMAIN lines : lines[j].part = t[1]}} : q.word = w} :
                        p.from < k /\ k <= p.to
    BY DEF EverythingPrinted
  <1>1. /\ nextItem = Len(job.items) + 1 /\ job \in Jobs
        /\ Covers(ToSet(lines), <<"order notes", 0>>, LegibleOrderNotes)
        /\ \A i \in 1..(nextItem - 1) : ShowsItem(ToSet(lines), i)
    BY DEF BonInv, Ended
  <1>2. Covers(ToSet(lines), t[1], t[2])
    <2>1. CASE t = <<<<"order notes", 0>>, LegibleOrderNotes>>
      <3>1. t[1] = <<"order notes", 0>> /\ t[2] = LegibleOrderNotes
        BY <2>1, Zenon
      <3> QED
        BY <1>1, <3>1
    <2>2. ASSUME NEW i \in DOMAIN job.items, t \in ItemTexts(i)
          PROVE  Covers(ToSet(lines), t[1], t[2])
      <3>1. i \in 1..(nextItem - 1)
        <4>1. job \in Jobs /\ nextItem = Len(job.items) + 1
          BY <1>1
        <4>2. Len(job.items) \in Nat /\ DOMAIN job.items = 1..Len(job.items)
          BY <4>1, JobFacts
        <4> QED
          BY <4>1, <4>2
      <3> QED
        BY <1>1, <2>2, <3>1 DEF ShowsItem
    <2> QED
      BY <2>1, <2>2, TextsAre
  <1> QED
    BY <1>2, CoveredIsShown

(* The lines of items stand by item and by version. *)
LEMMA AllTogether == BonInv => ItemsStandTogether
  <1> SUFFICES ASSUME BonInv, NEW i \in DOMAIN lines, NEW j \in DOMAIN lines, i < j,
                      ofItem(lines[i]), ofItem(lines[j])
               PROVE  LET here == lines[i].part  later == lines[j].part
                      IN \/ here[2] < later[2]
                         \/ here[2] = later[2] /\ VersionRank(here) <= VersionRank(later)
    BY DEF ItemsStandTogether
  <1>1. PICK here : here = lines[i].part
    OBVIOUS
  <1>2. PICK later : later = lines[j].part
    OBVIOUS
  <1>3. lines[i] \in BonLines /\ lines[j] \in BonLines
    <2>1. lines \in Seq(BonLines)
      BY DEF BonInv, Ordered
    <2> QED
      BY <2>1
  <1>7. Rank(here) <= Rank(later)
    <2>1. \A a, b \in DOMAIN lines :
            a < b /\ ofItem(lines[a]) /\ ofItem(lines[b])
              => Rank(lines[a].part) <= Rank(lines[b].part)
      BY DEF BonInv, Ordered
    <2> QED
      BY <1>1, <1>2, <2>1
  <1>4. here[2] \in Nat /\ VersionRank(here) \in {0, 1}
    BY <1>1, <1>3, RankIsNat
  <1>5. later[2] \in Nat /\ VersionRank(later) \in {0, 1}
    BY <1>2, <1>3, RankIsNat
  <1>6. \/ here[2] < later[2]
        \/ here[2] = later[2] /\ VersionRank(here) <= VersionRank(later)
    BY <1>4, <1>5, <1>7 DEF Rank
  <1> QED
    BY <1>1, <1>2, <1>6

(* As many identities as items are one for each. *)
LEMMA IdsDiffer ==
  ASSUME job \in Jobs, UniqueIds
  PROVE  \A i, j \in DOMAIN job.items : i # j => job.items[i].id # job.items[j].id
  <1> DEFINE n == Len(job.items)
             T == {job.items[i].id : i \in DOMAIN job.items}
             f == [i \in 1..n |-> job.items[i].id]
  <1>1. n \in Nat /\ DOMAIN job.items = 1..n
    BY JobFacts
  <1>2. Cardinality(T) = n
    BY DEF UniqueIds
  <1>3. f \in Surjection(1..n, T)
    BY <1>1 DEF Surjection
  <1> HIDE DEF n, T, f
  <1>4. IsFiniteSet(1..n) /\ Cardinality(1..n) = n
    <2> DEFINE a == 1
    <2>1. a \in Int /\ n \in Int
      BY <1>1
    <2>2. IsFiniteSet(a..n) /\ Cardinality(a..n) = IF a > n THEN 0 ELSE n - a + 1
      <3> HIDE DEF a
      <3> QED
        BY <2>1, FS_Interval
    <2> QED
      BY <1>1, <2>2
  <1>5. f \in Injection(1..n, T)
    BY <1>2, <1>3, <1>4, FS_SurjSameCardinalityImpliesInj
  <1>6. \A i, j \in 1..n : f[i] = f[j] => i = j
    BY <1>5 DEF Injection, IsInjective
  <1>7. \A i \in 1..n : f[i] = job.items[i].id
    BY DEF f
  <1> QED
    BY <1>1, <1>6, <1>7

(* The total of a valid order is what its items cost. *)
LEMMA AddsUp == BonInv => PrintedAddsUp
  <1> SUFFICES ASSUME BonInv, at = "printed"
               PROVE  /\ job.total = Added([i \in DOMAIN job.items |->
                                        job.items[i].unitPrice * job.items[i].quantity])
                      /\ \A i, j \in DOMAIN job.items : i # j => job.items[i].id # job.items[j].id
    BY DEF PrintedAddsUp
  <1>1. job \in Jobs /\ UniqueIds /\ LineTotalsRight /\ LineTotals = job.total
    BY DEF BonInv, Ended, ValidJob
  <1>2. [i \in DOMAIN job.items |-> job.items[i].lineTotal]
          = [i \in DOMAIN job.items |-> job.items[i].unitPrice * job.items[i].quantity]
    BY <1>1 DEF LineTotalsRight
  <1>3. job.total = Added([i \in DOMAIN job.items |->
                             job.items[i].unitPrice * job.items[i].quantity])
    BY <1>1, <1>2 DEF LineTotals
  <1> QED
    BY <1>1, <1>3, IdsDiffer

(* Layouts, orders, texts and paper of any size: the variables of the bon  *)
(* have their types.                                                       *)
THEOREM BonTypeCorrect == BonSpec => []BonTypeOK
  BY BonInvHolds, BonTyped, PTL DEF BonSpec

(* Nothing but a reference to an order runs over the paper.                *)
THEOREM EveryLineFitsHolds == BonSpec => []EveryLineFits
  BY BonInvHolds, LinesFitPaper, PTL DEF BonSpec

(* No letter of a name, a variation or a note, of an allergy for instance, *)
(* is missing from a printed bon, where the text is within the caps of     *)
(* buildBonDocument as it is typed and of wrapText as it is printed.       *)
THEOREM EverythingPrintedHolds == BonSpec => []EverythingPrinted
  BY BonInvHolds, AllPrinted, PTL DEF BonSpec

(* No line of a dish stands among those of another one, and the old        *)
(* version of a changed one is above the new.                              *)
THEOREM ItemsStandTogetherHolds == BonSpec => []ItemsStandTogether
  BY BonInvHolds, AllTogether, PTL DEF BonSpec

(* The total on a printed bon is the sum over its items, no two of them    *)
(* the same.                                                               *)
THEOREM PrintedAddsUpHolds == BonSpec => []PrintedAddsUp
  BY BonInvHolds, AddsUp, PTL DEF BonSpec

(* All of it *)
THEOREM BonFaithfulHolds == BonSpec => []BonFaithful
  <1>1. BonInv => BonFaithful
    BY LinesFitPaper, AllPrinted, AllTogether, AddsUp DEF BonFaithful
  <1> QED
    BY <1>1, BonInvHolds, PTL DEF BonSpec

-----------------------------------------------------------------------------
(* Where the parts stand beside each other each of them behaves as it does *)
(* by itself, so that all that is proved of one holds there.               *)
LEMMA PartsStepAlone ==
  [PartsNext]_partsVars =>
    /\ [BonNext]_bonVars /\ [WrapNext]_wrapVars /\ [SocketNext]_socketVars
    /\ [SpoolerNext]_spoolerVars /\ [ScanNext]_scanVars /\ [LogNext]_logVars
    /\ [UpdateNext]_updateVars
  <1>1. 0..MaxLength \subseteq Nat
    OBVIOUS
  <1>2. WordNext => WrapNext
    BY <1>1 DEF WordNext, WrapNext
  <1> QED
    BY <1>2, Zenon DEF PartsNext, partsVars

(* The parts of a behaviour of all of them are behaviours of each. *)
LEMMA PartsRunAlone ==
  PartsSpec =>
    /\ BonInit /\ [][BonNext]_bonVars
    /\ WrapSpec /\ SocketSpec /\ SpoolerSpec /\ ScanSpec /\ LogSpec /\ UpdateSpec
  <1>1. PartsInit =>
          /\ BonInit /\ WrapInit /\ SocketInit /\ SpoolerInit /\ ScanInit /\ LogInit
          /\ UpdateInit
    BY Zenon DEF PartsInit
  <1> QED
    BY <1>1, PartsStepAlone, PTL
      DEF PartsSpec, WrapSpec, SocketSpec, SpoolerSpec, ScanSpec, LogSpec, UpdateSpec

(* The variables of all the parts keep their types. *)
THEOREM PartsTypeCorrect == PartsSpec => []PartsTypeOK
  <1>1. PartsTypeOK <=>
          /\ BonTypeOK /\ WrapTypeOK /\ SocketTypeOK /\ SpoolerTypeOK /\ ScanTypeOK
          /\ LogTypeOK /\ UpdateTypeOK
    BY Zenon DEF PartsTypeOK
  <1> QED
    BY <1>1, PartsRunAlone, BonInvHolds, BonTyped, TypeCorrect, SocketTypeCorrect,
       SpoolerTypeCorrect, ScanTypeCorrect, LogTypeCorrect, UpdateTypeCorrect, PTL
=============================================================================
