--------------------------- MODULE TerminalProofs ---------------------------
(***************************************************************************)
(* Proofs about the line editor and the history of the shell and about     *)
(* what the screen shows, for any size of the line, of the history and of  *)
(* the console that has rows for the line.                                 *)
(***************************************************************************)
EXTENDS Terminal, NatRecursion, SequenceTheorems

Lines == {t \in Seq(Bytes) : Len(t) <= InputSize}

-----------------------------------------------------------------------------
(* The line and its halves, of an array a, a length n and a cursor c.      *)

LeftOf(a, n, c) == SubSeq(SubSeq(a, 1, n), 1, c)

RightOf(a, n, c) == SubSeq(SubSeq(a, 1, n), c + 1, n)

LEMMA LineFacts ==
    ASSUME NEW a \in [1 .. InputSize -> Bytes], NEW n \in 0 .. InputSize
    PROVE  /\ SubSeq(a, 1, n) \in Lines /\ Len(SubSeq(a, 1, n)) = n
           /\ \A i \in 1 .. n : SubSeq(a, 1, n)[i] = a[i]
<1>1. 1 \in Int /\ n \in Int /\ InputSize \in Nat /\ \A i \in 1 .. n : a[i] \in Bytes
    BY ShellAssumption
<1>2. /\ SubSeq(a, 1, n) \in Seq(Bytes)
      /\ Len(SubSeq(a, 1, n)) = IF 1 <= n THEN n - 1 + 1 ELSE 0
      /\ \A i \in 1 .. n - 1 + 1 : SubSeq(a, 1, n)[i] = a[1 + i - 1]
    BY <1>1, SubSeqProperties
<1>3. Len(SubSeq(a, 1, n)) = n
    BY <1>1, <1>2
<1>4. ASSUME NEW i \in 1 .. n PROVE SubSeq(a, 1, n)[i] = a[i]
    <2>1. i \in 1 .. n - 1 + 1 /\ 1 + i - 1 = i
        BY <1>1
    <2>2. QED
        BY <1>2, <2>1
<1>5. QED
    BY <1>1, <1>2, <1>3, <1>4 DEF Lines

LEMMA HalvesFacts ==
    ASSUME NEW a \in [1 .. InputSize -> Bytes], NEW n \in 0 .. InputSize, NEW c \in 0 .. n
    PROVE  /\ LeftOf(a, n, c) \in Seq(Bytes) /\ Len(LeftOf(a, n, c)) = c
           /\ \A i \in 1 .. c : LeftOf(a, n, c)[i] = a[i]
           /\ RightOf(a, n, c) \in Seq(Bytes) /\ Len(RightOf(a, n, c)) = n - c
           /\ \A i \in 1 .. n - c : RightOf(a, n, c)[i] = a[c + i]
<1> DEFINE t == SubSeq(a, 1, n)
<1>1. /\ 1 \in Int /\ n \in Int /\ c \in Int /\ c + 1 \in Int /\ InputSize \in Nat
    BY ShellAssumption
<1>2. \A i \in 1 .. n : t[i] = a[i] /\ t[i] \in Bytes
    BY <1>1, LineFacts
<1> HIDE DEF t
<1>3. (\A i \in 1 .. c : t[i] \in Bytes) /\ (\A i \in c + 1 .. n : t[i] \in Bytes)
    BY <1>1, <1>2
<1>4. /\ SubSeq(t, 1, c) \in Seq(Bytes)
      /\ Len(SubSeq(t, 1, c)) = IF 1 <= c THEN c - 1 + 1 ELSE 0
      /\ \A i \in 1 .. c - 1 + 1 : SubSeq(t, 1, c)[i] = t[1 + i - 1]
    BY <1>1, <1>3, SubSeqProperties
<1>5. /\ SubSeq(t, c + 1, n) \in Seq(Bytes)
      /\ Len(SubSeq(t, c + 1, n)) = IF c + 1 <= n THEN n - (c + 1) + 1 ELSE 0
      /\ \A i \in 1 .. n - (c + 1) + 1 : SubSeq(t, c + 1, n)[i] = t[c + 1 + i - 1]
    BY <1>1, <1>3, SubSeqProperties
<1>6. Len(SubSeq(t, 1, c)) = c /\ Len(SubSeq(t, c + 1, n)) = n - c
    BY <1>1, <1>4, <1>5
<1>7. ASSUME NEW i \in 1 .. c PROVE SubSeq(t, 1, c)[i] = a[i]
    <2>1. i \in 1 .. c - 1 + 1 /\ 1 + i - 1 = i /\ i \in 1 .. n
        BY <1>1
    <2>2. QED
        BY <1>2, <1>4, <2>1
<1>8. ASSUME NEW i \in 1 .. n - c PROVE SubSeq(t, c + 1, n)[i] = a[c + i]
    <2>1. i \in 1 .. n - (c + 1) + 1 /\ c + 1 + i - 1 = c + i /\ c + i \in 1 .. n
        BY <1>1
    <2>2. QED
        BY <1>2, <1>5, <2>1
<1>9. QED
    BY <1>4, <1>5, <1>6, <1>7, <1>8 DEF LeftOf, RightOf, t

-----------------------------------------------------------------------------
(* Trimming.                                                               *)

\* What is left begins and ends with a byte that is not blank, and the rest is
\* blank.
LEMMA TrimFacts ==
    ASSUME NEW text \in Seq(Bytes)
    PROVE  \/ Trim(text) = <<>> /\ \A i \in 1 .. Len(text) : text[i] = Blank
           \/ \E b, e \in 1 .. Len(text) :
                 /\ b <= e /\ text[b] # Blank /\ text[e] # Blank
                 /\ \A i \in 1 .. Len(text) : i < b \/ i > e => text[i] = Blank
                 /\ Trim(text) = SubSeq(text, b, e)
<1> DEFINE solid == {i \in 1 .. Len(text) : text[i] # Blank}
           b == CHOOSE i \in solid : \A j \in solid : i <= j
           e == CHOOSE i \in solid : \A j \in solid : i >= j
<1>1. CASE solid = {}
    BY <1>1 DEF Trim
<1>2. CASE solid # {}
    <2>1. Len(text) \in Nat
        BY LenProperties
    <2>2. \E i \in solid : \A j \in solid : i <= j
        <3>1. solid \in SUBSET Nat
            BY <2>1
        <3> HIDE DEF solid
        <3>2. QED
            BY <1>2, <3>1, LeastNatural
    <2>3. \E i \in solid : \A j \in solid : i >= j
        <3> DEFINE back == {Len(text) - i : i \in solid}
        <3>1. back \in SUBSET Nat /\ back # {}
            BY <1>2, <2>1
        <3>2. PICK m \in back : \A k \in back : m <= k
            <4> HIDE DEF back
            <4>1. QED
                BY <3>1, LeastNatural
        <3>3. PICK i \in solid : m = Len(text) - i
            BY <3>2
        <3>4. ASSUME NEW j \in solid PROVE i >= j
            <4>1. Len(text) - j \in back /\ i \in Int /\ j \in Int
                OBVIOUS
            <4>2. Len(text) - i <= Len(text) - j
                BY <3>2, <3>3, <4>1
            <4>3. QED
                BY <2>1, <4>1, <4>2
        <3>5. QED
            BY <3>4
    <2>4. b \in solid /\ \A j \in solid : b <= j
        <3> HIDE DEF solid
        <3>1. QED
            BY <2>2
    <2>5. e \in solid /\ \A j \in solid : e >= j
        <3> HIDE DEF solid
        <3>1. QED
            BY <2>3
    <2>6. Trim(text) = SubSeq(text, b, e)
        BY <1>2 DEF Trim
    <2> HIDE DEF b, e
    <2>7. b \in 1 .. Len(text) /\ e \in 1 .. Len(text) /\ b <= e
          /\ text[b] # Blank /\ text[e] # Blank
        BY <2>4, <2>5
    <2>8. ASSUME NEW i \in 1 .. Len(text), i < b \/ i > e
          PROVE  text[i] = Blank
        <3>1. i \notin solid
            <4> HIDE DEF solid
            <4>1. i \in Int /\ b \in Int /\ e \in Int
                BY <2>7
            <4>2. QED
                BY <2>4, <2>5, <2>8, <4>1
        <3>2. QED
            BY <3>1
    <2>9. QED
        BY <2>6, <2>7, <2>8
<1>3. QED
    BY <1>1, <1>2

\* A text that begins and ends like that is left as it is.
LEMMA TrimKeeps ==
    ASSUME NEW u \in Seq(Bytes), u # <<>>, u[1] # Blank, u[Len(u)] # Blank
    PROVE  Trim(u) = u
<1> DEFINE solid == {i \in 1 .. Len(u) : u[i] # Blank}
           b == CHOOSE i \in solid : \A j \in solid : i <= j
           e == CHOOSE i \in solid : \A j \in solid : i >= j
<1>1. Len(u) \in Nat \ {0}
    BY EmptySeq
<1>2. 1 \in solid /\ Len(u) \in solid
    BY <1>1
<1>3. \A j \in solid : j \in Int /\ 1 <= j /\ Len(u) >= j
    BY <1>1
<1>4. Trim(u) = SubSeq(u, b, e)
    BY <1>2 DEF Trim
<1> HIDE DEF solid
<1>5. b \in solid /\ \A j \in solid : b <= j
    BY <1>2, <1>3
<1>6. e \in solid /\ \A j \in solid : e >= j
    BY <1>2, <1>3
<1> HIDE DEF b, e
<1>7. b = 1 /\ e = Len(u)
    BY <1>1, <1>2, <1>3, <1>5, <1>6
<1>8. QED
    BY <1>4, <1>7, SubSeqFull

LEMMA TrimOfLine ==
    ASSUME NEW text \in Lines
    PROVE  Trim(text) \in Lines /\ Trim(Trim(text)) = Trim(text)
<1>0. text \in Seq(Bytes) /\ Len(text) \in Nat /\ Len(text) <= InputSize /\ InputSize \in Nat
    BY LenProperties, ShellAssumption DEF Lines
<1>1. CASE Trim(text) = <<>>
    <2>1. <<>> \in Lines
        BY <1>0, EmptySeq DEF Lines
    <2>2. Trim(<<>>) = <<>>
        BY DEF Trim
    <2>3. QED
        BY <1>1, <2>1, <2>2
<1>2. ASSUME NEW b \in 1 .. Len(text), NEW e \in 1 .. Len(text), b <= e,
             text[b] # Blank, text[e] # Blank, Trim(text) = SubSeq(text, b, e)
      PROVE  Trim(text) \in Lines /\ Trim(Trim(text)) = Trim(text)
    <2> DEFINE u == SubSeq(text, b, e)
    <2>1. b \in Int /\ e \in Int /\ \A i \in b .. e : text[i] \in Bytes
        BY <1>0, ElementOfSeq
    <2>2. /\ u \in Seq(Bytes) /\ Len(u) = IF b <= e THEN e - b + 1 ELSE 0
          /\ \A i \in 1 .. e - b + 1 : u[i] = text[b + i - 1]
        BY <2>1, SubSeqProperties
    <2> HIDE DEF u
    <2>3. Len(u) = e - b + 1 /\ Len(u) \in Nat \ {0} /\ Len(u) <= InputSize
        BY <1>0, <1>2, <2>2
    <2>4. u[1] = text[b] /\ u[Len(u)] = text[e]
        <3>1. /\ 1 \in 1 .. e - b + 1 /\ b + 1 - 1 = b
              /\ Len(u) \in 1 .. e - b + 1 /\ b + Len(u) - 1 = e
            BY <1>0, <1>2, <2>3
        <3>2. QED
            BY <2>2, <3>1
    <2>5. u # <<>>
        BY <2>3, EmptySeq
    <2>6. Trim(u) = u
        BY <1>2, <2>2, <2>4, <2>5, TrimKeeps
    <2>7. QED
        BY <1>2, <2>2, <2>3, <2>6 DEF Lines, u
<1>3. QED
    BY <1>0, <1>1, <1>2, TrimFacts

-----------------------------------------------------------------------------
(* The inductive invariant of the editor.                                  *)

\* The entries h are what HistoryClean says, and each fits into the line.
GoodHistory(h) ==
    /\ h \in Seq(Lines) /\ Len(h) <= HistorySize
    /\ \A i \in 1 .. Len(h) : h[i] # <<>> /\ Trim(h[i]) = h[i]
    /\ \A i \in 1 .. Len(h) - 1 : h[i] # h[i + 1]

EInv ==
    /\ input \in [1 .. InputSize -> Bytes]
    /\ len \in 0 .. InputSize /\ cursor \in 0 .. len
    /\ GoodHistory(history)
    /\ selected \in 0 .. Len(history)
    /\ mode = "edit" /\ selected # None => Line = history[selected]

\* The key that the loop has taken is one that it handles.
KeyGood == key \in Keys \cup {NoKey}

LEMMA HistoryFacts ==
    ASSUME GoodHistory(history)
    PROVE  /\ Len(history) \in Nat /\ HistoryClean
           /\ \A i \in 1 .. Len(history) :
                 history[i] \in Lines /\ Len(history[i]) \in 0 .. InputSize
<1>1. Len(history) \in Nat /\ HistoryClean
    BY LenProperties DEF GoodHistory, HistoryClean
<1>2. ASSUME NEW i \in 1 .. Len(history)
      PROVE  history[i] \in Lines /\ Len(history[i]) \in 0 .. InputSize
    <2>1. history[i] \in Lines
        BY ElementOfSeq DEF GoodHistory
    <2>2. Len(history[i]) \in Nat /\ Len(history[i]) <= InputSize
        BY <2>1, LenProperties DEF Lines
    <2>3. QED
        BY <2>1, <2>2, ShellAssumption
<1>3. QED
    BY <1>1, <1>2

\* CommandHistory::push keeps the history in order and does not shorten it.
LEMMA RememberedGood ==
    ASSUME GoodHistory(history), NEW text \in Lines
    PROVE  GoodHistory(Remembered(text)) /\ Len(Remembered(text)) >= Len(history)
<1> DEFINE h == history
           n == Len(history)
           t == Trim(text)
<1>1. /\ n \in Nat /\ n <= HistorySize /\ HistorySize \in Nat \ {0}
      /\ h \in Seq(Lines)
      /\ \A i \in 1 .. n : h[i] # <<>> /\ Trim(h[i]) = h[i]
      /\ \A i \in 1 .. n - 1 : h[i] # h[i + 1]
    BY HistoryFacts, ShellAssumption DEF GoodHistory
<1>2. t \in Lines /\ Trim(t) = t
    BY TrimOfLine
<1>3. CASE t = <<>> \/ (n > 0 /\ h[n] = t)
    BY <1>1, <1>3 DEF Remembered
<1>4. CASE ~ (t = <<>> \/ (n > 0 /\ h[n] = t)) /\ n # HistorySize
    <2> DEFINE g == Append(h, t)
    <2>1. Remembered(text) = g
        BY <1>4 DEF Remembered
    <2> HIDE DEF t
    <2>2. /\ g \in Seq(Lines) /\ Len(g) = n + 1
          /\ \A i \in 1 .. n : g[i] = h[i]
          /\ g[n + 1] = t
        BY <1>1, <1>2, AppendProperties
    <2> HIDE DEF g, h, n
    <2>3. ASSUME NEW i \in 1 .. Len(g)
          PROVE  g[i] # <<>> /\ Trim(g[i]) = g[i]
        <3>1. CASE i \in 1 .. n
            BY <1>1, <2>2, <3>1
        <3>2. CASE i = n + 1
            BY <1>2, <1>4, <2>2, <3>2
        <3>3. QED
            BY <1>1, <2>2, <3>1, <3>2
    <2>4. ASSUME NEW i \in 1 .. Len(g) - 1
          PROVE  g[i] # g[i + 1]
        <3>1. i \in 1 .. n
            BY <1>1, <2>2
        <3>2. CASE i \in 1 .. n - 1
            <4>1. i + 1 \in 1 .. n
                BY <1>1, <3>2
            <4>2. QED
                BY <1>1, <2>2, <3>1, <3>2, <4>1
        <3>3. CASE i = n
            BY <1>1, <1>4, <2>2, <3>1, <3>3
        <3>4. QED
            BY <1>1, <3>1, <3>2, <3>3
    <2>5. Len(g) <= HistorySize /\ Len(g) >= n
        BY <1>1, <1>4, <2>2
    <2>6. QED
        BY <2>1, <2>2, <2>3, <2>4, <2>5 DEF GoodHistory, n
<1>5. CASE ~ (t = <<>> \/ (n > 0 /\ h[n] = t)) /\ n = HistorySize
    <2> DEFINE r == Tail(h)
               g == Append(r, t)
    <2>1. Remembered(text) = g
        BY <1>5 DEF Remembered
    <2>2. h # <<>>
        BY <1>1, <1>5, EmptySeq
    <2> HIDE DEF t
    <2>3. /\ r \in Seq(Lines) /\ Len(r) = n - 1
          /\ \A i \in 1 .. n - 1 : r[i] = h[i + 1]
        BY <1>1, <2>2, HeadTailProperties
    <2> HIDE DEF r, h, n
    <2>4. /\ g \in Seq(Lines) /\ Len(g) = n
          /\ \A i \in 1 .. n - 1 : g[i] = r[i]
          /\ g[n] = t
        <3>1. /\ g \in Seq(Lines) /\ Len(g) = Len(r) + 1
              /\ \A i \in 1 .. Len(r) : g[i] = r[i]
              /\ g[Len(r) + 1] = t
            BY <1>2, <2>3, AppendProperties
        <3> HIDE DEF g
        <3>2. Len(r) + 1 = n
            BY <1>1, <2>3
        <3>3. QED
            BY <2>3, <3>1, <3>2
    <2> HIDE DEF g
    <2>5. ASSUME NEW i \in 1 .. n - 1
          PROVE  g[i] = h[i + 1] /\ i + 1 \in 1 .. n
        BY <1>1, <2>3, <2>4
    <2>6. ASSUME NEW i \in 1 .. Len(g)
          PROVE  g[i] # <<>> /\ Trim(g[i]) = g[i]
        <3>1. CASE i \in 1 .. n - 1
            BY <1>1, <2>5, <3>1
        <3>2. CASE i = n
            BY <1>2, <1>5, <2>4, <3>2
        <3>3. QED
            BY <1>1, <2>4, <3>1, <3>2
    <2>7. ASSUME NEW i \in 1 .. Len(g) - 1
          PROVE  g[i] # g[i + 1]
        <3>1. i \in 1 .. n - 1 /\ g[i] = h[i + 1] /\ i + 1 \in 1 .. n
            BY <2>4, <2>5
        <3>2. CASE i + 1 \in 1 .. n - 1
            BY <1>1, <2>5, <3>1, <3>2
        <3>3. CASE i + 1 = n
            BY <1>1, <1>5, <2>4, <3>1, <3>3
        <3>4. QED
            BY <1>1, <3>1, <3>2, <3>3
    <2>8. Len(g) <= HistorySize /\ Len(g) >= n
        BY <1>1, <2>4
    <2>9. QED
        BY <2>1, <2>4, <2>6, <2>7, <2>8 DEF GoodHistory, n
<1>6. QED
    BY <1>3, <1>4, <1>5

\* CommandHistory::load makes the line the entry, whatever was behind it.
LEMMA LoadFacts ==
    ASSUME EInv, NEW index \in 1 .. Len(history), Load(index)
    PROVE  /\ input' \in [1 .. InputSize -> Bytes]
           /\ len' \in 0 .. InputSize /\ cursor' = len'
           /\ Line' = history[index]
<1> DEFINE text == history[index]
<1>1. text \in Seq(Bytes) /\ Len(text) \in 0 .. InputSize /\ len' = Len(text) /\ cursor' = Len(text)
    BY HistoryFacts DEF EInv, Load, Lines
<1>2. input' = [i \in 1 .. InputSize |-> IF i <= Len(text) THEN text[i] ELSE input[i]]
    BY DEF Load
<1> HIDE DEF text
<1>3. \A i \in 1 .. Len(text) : text[i] \in Bytes
    BY <1>1, ElementOfSeq
<1>4. input' \in [1 .. InputSize -> Bytes]
    <2>1. ASSUME NEW i \in 1 .. InputSize
          PROVE  (IF i <= Len(text) THEN text[i] ELSE input[i]) \in Bytes
        BY <1>1, <1>3 DEF EInv
    <2>2. QED
        BY <1>2, <2>1
<1>5. ASSUME NEW i \in 1 .. Len(text) PROVE input'[i] = text[i]
    <2>1. i \in 1 .. InputSize /\ i <= Len(text)
        BY <1>1, ShellAssumption
    <2>2. QED
        BY <1>2, <2>1
<1>6. /\ SubSeq(input', 1, len') \in Seq(Bytes) /\ Len(SubSeq(input', 1, len')) = Len(text)
      /\ \A i \in 1 .. Len(text) : SubSeq(input', 1, len')[i] = input'[i]
    BY <1>1, <1>4, LineFacts DEF Lines
<1>7. SubSeq(input', 1, len') = text
    <2> DEFINE s == SubSeq(input', 1, len')
    <2>1. s \in Seq(Bytes) /\ Len(s) = Len(text) /\ \A i \in 1 .. Len(s) : s[i] = text[i]
        BY <1>5, <1>6
    <2> HIDE DEF s
    <2>2. s = text
        BY <1>1, <2>1, SeqEqual
    <2>3. QED
        BY <2>2 DEF s
<1>8. QED
    BY <1>1, <1>4, <1>7 DEF Line, text

-----------------------------------------------------------------------------
(* The keys keep the invariant.                                            *)

\* The part of EInv that does not speak of the selection.
LineGood ==
    /\ input \in [1 .. InputSize -> Bytes]
    /\ len \in 0 .. InputSize /\ cursor \in 0 .. len

LEMMA InsertGood ==
    ASSUME LineGood, NEW byte \in Bytes, Insert(byte)
    PROVE  LineGood'
<1>1. InputSize \in Nat /\ len \in 0 .. InputSize /\ cursor \in 0 .. len /\ len < InputSize
    BY ShellAssumption DEF LineGood, Insert
<1>2. len' \in 0 .. InputSize /\ cursor' \in 0 .. len'
    BY <1>1 DEF Insert
<1>3. ASSUME NEW i \in 1 .. InputSize
      PROVE  (IF i <= cursor \/ i > len + 1 THEN input[i]
              ELSE IF i = cursor + 1 THEN byte ELSE input[i - 1]) \in Bytes
    <2>1. CASE i <= cursor \/ i > len + 1 \/ i = cursor + 1
        BY <2>1 DEF LineGood
    <2>2. CASE ~ (i <= cursor \/ i > len + 1 \/ i = cursor + 1)
        <3>1. i - 1 \in 1 .. InputSize
            BY <1>1, <2>2
        <3>2. QED
            BY <2>2, <3>1 DEF LineGood
    <2>3. QED
        BY <2>1, <2>2
<1>4. input' \in [1 .. InputSize -> Bytes]
    BY <1>3 DEF Insert
<1>5. QED
    BY <1>2, <1>4 DEF LineGood

LEMMA BackspaceGood ==
    ASSUME LineGood, Backspace
    PROVE  LineGood'
<1>1. /\ InputSize \in Nat /\ len \in 0 .. InputSize /\ cursor \in 0 .. len
      /\ len > 0 /\ cursor > 0
    BY ShellAssumption DEF LineGood, Backspace
<1>2. len' \in 0 .. InputSize /\ cursor' \in 0 .. len'
    BY <1>1 DEF Backspace
<1>3. ASSUME NEW i \in 1 .. InputSize
      PROVE  (IF i >= cursor /\ i < len THEN input[i + 1] ELSE input[i]) \in Bytes
    <2>1. CASE i >= cursor /\ i < len
        <3>1. i + 1 \in 1 .. InputSize
            BY <1>1, <2>1
        <3>2. QED
            BY <2>1, <3>1 DEF LineGood
    <2>2. CASE ~ (i >= cursor /\ i < len)
        BY <2>2 DEF LineGood
    <2>3. QED
        BY <2>1, <2>2
<1>4. input' \in [1 .. InputSize -> Bytes]
    BY <1>3 DEF Backspace
<1>5. QED
    BY <1>2, <1>4 DEF LineGood

LEMMA EInvParts ==
    EInv <=> /\ LineGood /\ GoodHistory(history) /\ selected \in 0 .. Len(history)
             /\ mode = "edit" /\ selected # None => Line = history[selected]
    BY DEF EInv, LineGood

\* A line that is given up leaves nothing selected.
LEMMA ClearGood ==
    ASSUME EInv, Clear, UNCHANGED <<input, history>>
    PROVE  EInv'
<1>1. Len(history) \in Nat /\ InputSize \in Nat
    BY HistoryFacts, ShellAssumption DEF EInv
<1>2. QED
    BY <1>1 DEF EInv, Clear, None

\* A key that changes a recalled line ends the selection.
LEMMA EditedGood ==
    ASSUME EInv, LineGood', selected' = None, UNCHANGED history
    PROVE  EInv'
<1>1. Len(history) \in Nat
    BY HistoryFacts DEF EInv
<1>2. QED
    BY <1>1 DEF EInv, LineGood, None

LEMMA RecallGood ==
    ASSUME EInv, selected' \in 1 .. Len(history), Load(selected'), UNCHANGED history
    PROVE  EInv'
<1>1. Len(history) \in Nat
    BY HistoryFacts DEF EInv
<1>2. /\ input' \in [1 .. InputSize -> Bytes]
      /\ len' \in 0 .. InputSize /\ cursor' = len' /\ Line' = history[selected']
    BY LoadFacts
<1>3. cursor' \in 0 .. len'
    BY <1>2, ShellAssumption
<1>4. QED
    BY <1>1, <1>2, <1>3 DEF EInv

\* The entry that an arrow selects exists.
LEMMA ArrowUpRecalls ==
    ASSUME EInv, ArrowUp
    PROVE  selected' \in 1 .. Len(history) /\ Load(selected') /\ UNCHANGED history
<1>1. Len(history) \in Nat \ {0} /\ selected \in 0 .. Len(history)
    BY HistoryFacts, EmptySeq DEF EInv, GoodHistory, ArrowUp
<1>2. QED
    BY <1>1 DEF ArrowUp, None

LEMMA ArrowDownRecalls ==
    ASSUME EInv, ArrowDown
    PROVE  /\ UNCHANGED history
           /\ \/ selected' \in 1 .. Len(history) /\ Load(selected')
              \/ Clear /\ UNCHANGED input
<1>1. Len(history) \in Nat /\ selected \in 1 .. Len(history)
    BY HistoryFacts DEF EInv, ArrowDown, None
<1>2. QED
    BY <1>1 DEF ArrowDown

LEMMA KeyFacts ==
    ASSUME KeyGood
    PROVE  key.kind = "Char" => key.byte \in Bytes
<1>1. CASE key \in [kind : {"Char"}, byte : Bytes]
    BY <1>1
<1>2. CASE key = NoKey
    BY <1>2 DEF NoKey, Key
<1>3. ASSUME NEW kind \in {"Enter", "Escape", "Backspace", "Left", "Right", "Up", "Down"},
             key = Key(kind)
      PROVE  key.kind # "Char"
    BY <1>3 DEF Key
<1>4. QED
    BY <1>1, <1>2, <1>3 DEF KeyGood, Keys

LEMMA KeyGoodStep ==
    ASSUME KeyGood, [TerminalNext]_allVars
    PROVE  KeyGood'
<1>1. key' \in Keys \/ key' = NoKey \/ key' = key
    BY DEF TerminalNext, TakeKey, Edit, Ignore, PressEnter, CommandWrites, CommandClears,
           CommandEnds, Timer, Panic, KernelException, Halt, allVars
<1>2. QED
    BY <1>1 DEF KeyGood, Keys, NoKey, Key

LEMMA EInvStep ==
    ASSUME EInv, KeyGood, [TerminalNext]_allVars
    PROVE  EInv'
<1>0. LineGood
    BY EInvParts
<1>1. CASE Edit
    <2>1. CASE Escape
        BY <2>1, ClearGood DEF Escape
    <2>2. CASE Backspace
        BY <1>0, <2>2, BackspaceGood, EditedGood DEF Backspace
    <2>3. CASE ArrowLeft \/ ArrowRight
        <3>1. LineGood' /\ UNCHANGED <<input, len, history, selected, mode>>
            BY <1>0, <1>1, <2>3, ShellAssumption DEF LineGood, ArrowLeft, ArrowRight, Edit
        <3>2. QED
            BY <3>1 DEF EInv, LineGood, Line
    <2>4. CASE ArrowUp
        BY <2>4, ArrowUpRecalls, RecallGood
    <2>5. CASE ArrowDown
        BY <2>5, ArrowDownRecalls, RecallGood, ClearGood
    <2>6. ASSUME NEW byte \in Bytes, Insert(byte)
          PROVE  EInv'
        BY <1>0, <2>6, InsertGood, EditedGood DEF Insert
    <2>7. QED
        BY <1>1, <2>1, <2>2, <2>3, <2>4, <2>5, <2>6, KeyFacts DEF Edit, Changes
<1>2. CASE PressEnter
    <2>1. /\ UNCHANGED <<input, len, cursor, selected>> /\ mode' = "run"
          /\ history' = Remembered(Line)
        BY <1>2 DEF PressEnter
    <2>2. Line \in Lines
        BY LineFacts DEF EInv, Line
    <2>3. GoodHistory(history') /\ Len(history') >= Len(history)
        BY <2>1, <2>2, RememberedGood DEF EInv
    <2>4. Len(history) \in Nat /\ Len(history') \in Nat
        BY <2>3, LenProperties DEF EInv, GoodHistory
    <2>5. selected' \in 0 .. Len(history')
        BY <2>1, <2>3, <2>4 DEF EInv
    <2>6. QED
        BY <2>1, <2>3, <2>5 DEF EInv
<1>3. CASE CommandEnds
    BY <1>3, ClearGood DEF CommandEnds
<1>4. CASE UNCHANGED <<vars, mode>>
    BY <1>4 DEF EInv, vars, Line
<1>5. CASE Halt
    BY <1>5 DEF EInv, vars, Halt
<1>6. QED
    BY <1>1, <1>2, <1>3, <1>4, <1>5
    DEF TerminalNext, TakeKey, Ignore, CommandWrites, CommandClears, Timer, Panic,
        KernelException, allVars

LEMMA EInvInit == TerminalInit => EInv /\ KeyGood
<1> SUFFICES ASSUME TerminalInit PROVE EInv /\ KeyGood
    OBVIOUS
<1>1. InputSize \in Nat /\ HistorySize \in Nat
    BY ShellAssumption
<1>2. history = <<>> /\ history \in Seq(Lines) /\ Len(history) = 0
    BY EmptySeq DEF TerminalInit, Init
<1>3. GoodHistory(history)
    BY <1>1, <1>2 DEF GoodHistory
<1>4. EInv
    BY <1>1, <1>2, <1>3 DEF EInv, TerminalInit, Init, None, Bytes
<1>5. QED
    BY <1>4 DEF KeyGood, TerminalInit

\* The line, the cursor and the selection stay within their arrays, and the
\* history is clean, whatever keys, commands and interrupts follow each other.
THEOREM EditorInvariant == TerminalSpec => [](EInv /\ KeyGood)
<1>1. EInv /\ KeyGood /\ [TerminalNext]_allVars => (EInv /\ KeyGood)'
    BY EInvStep, KeyGoodStep
<1>2. QED
    BY EInvInit, <1>1, PTL DEF TerminalSpec

\* CommandHistory and shell::run: the history keeps its bound and holds no
\* empty, padded or repeated entry, and while a line is edited a selected
\* entry is the line, whatever was recalled, edited and entered before.
THEOREM EditorIsSound == TerminalSpec => []EditorSound
<1>1. ASSUME EInv PROVE EditorSound
    <2>1. HistoryClean /\ Len(history) \in Nat
        BY <1>1, HistoryFacts DEF EInv
    <2>2. ASSUME mode = "edit" PROVE SelectionIsShown
        BY <1>1, <2>1, <2>2 DEF EInv, SelectionIsShown
    <2>3. QED
        BY <2>1, <2>2 DEF EditorSound
<1>2. QED
    BY <1>1, EditorInvariant, PTL

-----------------------------------------------------------------------------
(* The editor edits a text.                                                *)

\* What the halves l and r of the line in the array a look like.
AreHalves(l, r, a, n, c) ==
    /\ InputSize \in Nat /\ n \in 0 .. InputSize /\ c \in 0 .. n
    /\ l \in Seq(Bytes) /\ Len(l) = c /\ \A i \in 1 .. c : l[i] = a[i]
    /\ r \in Seq(Bytes) /\ Len(r) = n - c /\ \A i \in 1 .. n - c : r[i] = a[c + i]

LEMMA Halved ==
    /\ LineGood => AreHalves(SubSeq(Line, 1, cursor), SubSeq(Line, cursor + 1, len),
                             input, len, cursor)
    /\ LineGood' => AreHalves(SubSeq(Line, 1, cursor)', SubSeq(Line, cursor + 1, len)',
                              input', len', cursor')
<1>1. ASSUME LineGood
      PROVE  AreHalves(SubSeq(Line, 1, cursor), SubSeq(Line, cursor + 1, len),
                       input, len, cursor)
    <2>1. input \in [1 .. InputSize -> Bytes] /\ len \in 0 .. InputSize /\ cursor \in 0 .. len
        BY <1>1 DEF LineGood
    <2>2. /\ SubSeq(Line, 1, cursor) = LeftOf(input, len, cursor)
          /\ SubSeq(Line, cursor + 1, len) = RightOf(input, len, cursor)
        BY DEF LeftOf, RightOf, Line
    <2>3. InputSize \in Nat
        BY ShellAssumption
    <2>4. AreHalves(LeftOf(input, len, cursor), RightOf(input, len, cursor), input, len, cursor)
        BY <2>1, <2>3, HalvesFacts DEF AreHalves
    <2>5. QED
        BY <2>2, <2>4
<1>2. ASSUME LineGood'
      PROVE  AreHalves(SubSeq(Line, 1, cursor)', SubSeq(Line, cursor + 1, len)',
                       input', len', cursor')
    <2>1. input' \in [1 .. InputSize -> Bytes] /\ len' \in 0 .. InputSize /\ cursor' \in 0 .. len'
        BY <1>2 DEF LineGood
    <2>2. /\ SubSeq(Line, 1, cursor)' = LeftOf(input', len', cursor')
          /\ SubSeq(Line, cursor + 1, len)' = RightOf(input', len', cursor')
        BY DEF LeftOf, RightOf, Line
    <2>3. InputSize \in Nat
        BY ShellAssumption
    <2>4. AreHalves(LeftOf(input', len', cursor'), RightOf(input', len', cursor'),
                    input', len', cursor')
        BY <2>1, <2>3, HalvesFacts DEF AreHalves
    <2>5. QED
        BY <2>2, <2>4
<1>3. QED
    BY <1>1, <1>2

\* insert_input_byte
LEMMA InsertText ==
    ASSUME NEW a, NEW n, NEW c, NEW l, NEW r, AreHalves(l, r, a, n, c),
           NEW byte \in Bytes, n < InputSize,
           NEW b, NEW k, NEW q, AreHalves(k, q, b, n + 1, c + 1),
           \A i \in 1 .. InputSize : b[i] = IF i <= c \/ i > n + 1 THEN a[i]
                                            ELSE IF i = c + 1 THEN byte ELSE a[i - 1]
    PROVE  k = Append(l, byte) /\ q = r
<1>1. n \in Nat /\ c \in Nat /\ c <= n /\ InputSize \in Nat
    BY DEF AreHalves
<1>2. k = Append(l, byte)
    <2> DEFINE s == Append(l, byte)
    <2>1. /\ s \in Seq(Bytes) /\ Len(s) = c + 1
          /\ \A i \in 1 .. c : s[i] = l[i]
          /\ s[c + 1] = byte
        BY AppendProperties DEF AreHalves
    <2> HIDE DEF s
    <2>2. k \in Seq(Bytes) /\ Len(k) = c + 1 /\ \A i \in 1 .. c + 1 : k[i] = b[i]
        BY DEF AreHalves
    <2>3. ASSUME NEW i \in 1 .. Len(k) PROVE k[i] = s[i]
        <3>1. i \in 1 .. c + 1 /\ i \in 1 .. InputSize
            BY <1>1, <2>2
        <3>2. CASE i = c + 1
            <4>1. b[i] = byte
                BY <1>1, <3>1, <3>2
            <4>2. QED
                BY <2>1, <2>2, <3>1, <3>2, <4>1
        <3>3. CASE i # c + 1
            <4>1. i \in 1 .. c
                BY <1>1, <3>1, <3>3
            <4>2. b[i] = a[i] /\ l[i] = a[i]
                BY <3>1, <4>1 DEF AreHalves
            <4>3. QED
                BY <2>1, <2>2, <3>1, <4>1, <4>2
        <3>4. QED
            BY <3>2, <3>3
    <2>4. k = s
        BY <2>1, <2>2, <2>3, SeqEqual
    <2>5. QED
        BY <2>4 DEF s
<1>3. q = r
    <2>1. /\ q \in Seq(Bytes) /\ Len(q) = n - c /\ r \in Seq(Bytes) /\ Len(r) = n - c
          /\ \A i \in 1 .. n - c : r[i] = a[c + i]
        BY <1>1 DEF AreHalves
    <2>2. \A i \in 1 .. (n + 1) - (c + 1) : q[i] = b[(c + 1) + i]
        BY DEF AreHalves
    <2>3. ASSUME NEW i \in 1 .. Len(q) PROVE q[i] = r[i]
        <3>1. /\ i \in 1 .. n - c /\ i \in 1 .. (n + 1) - (c + 1)
              /\ (c + 1) + i \in 1 .. InputSize
              /\ ~ ((c + 1) + i <= c) /\ ~ ((c + 1) + i > n + 1)
              /\ (c + 1) + i # c + 1 /\ ((c + 1) + i) - 1 = c + i
            <4>1. i \in Nat /\ 1 <= i /\ i <= n - c /\ n + 1 <= InputSize
                BY <1>1, <2>1
            <4>2. QED
                BY <1>1, <4>1
        <3>2. b[(c + 1) + i] = a[c + i]
            BY <3>1
        <3>3. QED
            BY <2>1, <2>2, <3>1, <3>2
    <2>4. QED
        BY <2>1, <2>3, SeqEqual
<1>4. QED
    BY <1>2, <1>3

\* delete_previous_input_byte
LEMMA EraseText ==
    ASSUME NEW a, NEW n, NEW c, NEW l, NEW r, AreHalves(l, r, a, n, c), c > 0,
           NEW b, NEW k, NEW q, AreHalves(k, q, b, n - 1, c - 1),
           \A i \in 1 .. InputSize : b[i] = IF i >= c /\ i < n THEN a[i + 1] ELSE a[i]
    PROVE  l # <<>> /\ k = SubSeq(l, 1, Len(l) - 1) /\ q = r
<1>1. n \in Nat /\ c \in Nat \ {0} /\ c <= n /\ InputSize \in Nat /\ n <= InputSize
    BY DEF AreHalves
<1>2. /\ l \in Seq(Bytes) /\ Len(l) = c /\ \A i \in 1 .. c : l[i] = a[i]
      /\ k \in Seq(Bytes) /\ Len(k) = c - 1 /\ \A i \in 1 .. c - 1 : k[i] = b[i]
    BY DEF AreHalves
<1>3. l # <<>>
    BY <1>1, <1>2, EmptySeq
<1>4. k = SubSeq(l, 1, Len(l) - 1)
    <2> DEFINE s == SubSeq(l, 1, c - 1)
    <2>1. 1 \in Int /\ c - 1 \in Int /\ \A i \in 1 .. c - 1 : l[i] \in Bytes
        BY <1>1, <1>2, ElementOfSeq
    <2>2. /\ s \in Seq(Bytes) /\ Len(s) = IF 1 <= c - 1 THEN c - 1 - 1 + 1 ELSE 0
          /\ \A i \in 1 .. c - 1 - 1 + 1 : s[i] = l[1 + i - 1]
        BY <2>1, SubSeqProperties
    <2> HIDE DEF s
    <2>3. Len(s) = c - 1
        BY <1>1, <2>2
    <2>4. ASSUME NEW i \in 1 .. Len(k) PROVE k[i] = s[i]
        <3>1. /\ i \in 1 .. c - 1 /\ i \in 1 .. c - 1 - 1 + 1 /\ 1 + i - 1 = i
              /\ i \in 1 .. InputSize /\ ~ (i >= c) /\ i \in 1 .. c
            BY <1>1, <1>2
        <3>2. b[i] = a[i]
            BY <3>1
        <3>3. QED
            BY <1>2, <2>2, <3>1, <3>2
    <2>5. k = s
        BY <1>2, <2>2, <2>3, <2>4, SeqEqual
    <2>6. QED
        BY <1>2, <2>5 DEF s
<1>5. q = r
    <2>1. /\ q \in Seq(Bytes) /\ Len(q) = n - c /\ r \in Seq(Bytes) /\ Len(r) = n - c
          /\ \A i \in 1 .. n - c : r[i] = a[c + i]
        BY <1>1 DEF AreHalves
    <2>2. \A i \in 1 .. (n - 1) - (c - 1) : q[i] = b[(c - 1) + i]
        BY DEF AreHalves
    <2>3. ASSUME NEW i \in 1 .. Len(q) PROVE q[i] = r[i]
        <3>1. /\ i \in 1 .. n - c /\ i \in 1 .. (n - 1) - (c - 1)
              /\ (c - 1) + i \in 1 .. InputSize
              /\ (c - 1) + i >= c /\ (c - 1) + i < n /\ ((c - 1) + i) + 1 = c + i
            BY <1>1, <2>1
        <3>2. b[(c - 1) + i] = a[c + i]
            BY <3>1
        <3>3. QED
            BY <2>1, <2>2, <3>1, <3>2
    <2>4. QED
        BY <2>1, <2>3, SeqEqual
<1>6. QED
    BY <1>3, <1>4, <1>5

\* The first byte of r goes over to the left and back.
Shifted(l, r, k, q) ==
    /\ r # <<>> /\ k = Append(l, Head(r)) /\ q = Tail(r)
    /\ k # <<>> /\ l = SubSeq(k, 1, Len(k) - 1) /\ r = <<k[Len(k)]>> \o q

\* The cursor moves between the bytes of the same array.
LEMMA MoveText ==
    ASSUME NEW a, NEW n, NEW c, NEW l, NEW r, AreHalves(l, r, a, n, c), c < n,
           NEW k, NEW q, AreHalves(k, q, a, n, c + 1)
    PROVE  Shifted(l, r, k, q)
<1>1. n \in Nat /\ c \in Nat /\ c + 1 <= n /\ InputSize \in Nat /\ n <= InputSize
    BY DEF AreHalves
<1>2. /\ l \in Seq(Bytes) /\ Len(l) = c /\ \A i \in 1 .. c : l[i] = a[i]
      /\ k \in Seq(Bytes) /\ Len(k) = c + 1 /\ \A i \in 1 .. c + 1 : k[i] = a[i]
    BY DEF AreHalves
<1>3. /\ r \in Seq(Bytes) /\ Len(r) = n - c /\ \A i \in 1 .. n - c : r[i] = a[c + i]
      /\ q \in Seq(Bytes) /\ Len(q) = n - (c + 1)
      /\ \A i \in 1 .. n - (c + 1) : q[i] = a[(c + 1) + i]
    BY DEF AreHalves
<1>4. r # <<>> /\ k # <<>>
    BY <1>1, <1>2, <1>3, EmptySeq
<1>5. r[1] = a[c + 1] /\ k[c + 1] = a[c + 1] /\ a[c + 1] \in Bytes /\ Head(r) = r[1]
    <2>1. 1 \in 1 .. n - c /\ c + 1 \in 1 .. c + 1 /\ 1 \in 1 .. Len(r)
        BY <1>1, <1>3
    <2>2. r[1] = a[c + 1] /\ k[c + 1] = a[c + 1]
        BY <1>2, <1>3, <2>1
    <2>3. r[1] \in Bytes
        BY <1>3, <2>1, ElementOfSeq
    <2>4. QED
        BY <1>3, <1>4, <2>2, <2>3
<1>6. k = Append(l, Head(r))
    <2> DEFINE s == Append(l, a[c + 1])
    <2>1. /\ s \in Seq(Bytes) /\ Len(s) = c + 1
          /\ \A i \in 1 .. c : s[i] = l[i]
          /\ s[c + 1] = a[c + 1]
        BY <1>2, <1>5, AppendProperties
    <2> HIDE DEF s
    <2>2. ASSUME NEW i \in 1 .. Len(k) PROVE k[i] = s[i]
        <3>1. i \in 1 .. c + 1 /\ (i = c + 1 \/ i \in 1 .. c)
            BY <1>1, <1>2
        <3>2. QED
            BY <1>2, <2>1, <3>1
    <2>3. k = s
        BY <1>2, <2>1, <2>2, SeqEqual
    <2>4. QED
        BY <1>5, <2>3 DEF s
<1>7. q = Tail(r)
    <2> DEFINE s == Tail(r)
    <2>1. /\ s \in Seq(Bytes) /\ Len(s) = Len(r) - 1
          /\ \A i \in 1 .. Len(s) : s[i] = r[i + 1]
        BY <1>3, <1>4, HeadTailProperties
    <2> HIDE DEF s
    <2>2. Len(q) = Len(s)
        BY <1>1, <1>3, <2>1
    <2>3. ASSUME NEW i \in 1 .. Len(q) PROVE q[i] = s[i]
        <3>1. /\ i \in 1 .. n - (c + 1) /\ i + 1 \in 1 .. n - c
              /\ c + (i + 1) = (c + 1) + i /\ i \in 1 .. Len(s)
            BY <1>1, <1>3, <2>2
        <3>2. QED
            BY <1>3, <2>1, <3>1
    <2>4. q = s
        BY <1>3, <2>1, <2>2, <2>3, SeqEqual
    <2>5. QED
        BY <2>4 DEF s
<1>8. l = SubSeq(k, 1, Len(k) - 1)
    <2> DEFINE s == SubSeq(k, 1, c)
    <2>1. 1 \in Int /\ c \in Int /\ Len(k) - 1 = c /\ \A i \in 1 .. c : k[i] \in Bytes
        BY <1>1, <1>2, ElementOfSeq
    <2>2. /\ s \in Seq(Bytes) /\ Len(s) = IF 1 <= c THEN c - 1 + 1 ELSE 0
          /\ \A i \in 1 .. c - 1 + 1 : s[i] = k[1 + i - 1]
        BY <2>1, SubSeqProperties
    <2> HIDE DEF s
    <2>3. Len(s) = c
        BY <1>1, <2>2
    <2>4. ASSUME NEW i \in 1 .. Len(l) PROVE l[i] = s[i]
        <3>1. /\ i \in 1 .. c /\ i \in 1 .. c - 1 + 1 /\ 1 + i - 1 = i /\ i \in 1 .. c + 1
            BY <1>1, <1>2
        <3>2. QED
            BY <1>2, <2>2, <3>1
    <2>5. l = s
        BY <1>2, <2>2, <2>3, <2>4, SeqEqual
    <2>6. QED
        BY <2>1, <2>5 DEF s
<1>9. r = <<k[Len(k)]>> \o q
    <2> DEFINE h == <<a[c + 1]>>
               s == h \o q
    <2>1. h \in Seq(Bytes) /\ Len(h) = 1 /\ h[1] = a[c + 1]
        BY <1>5
    <2> HIDE DEF h
    <2>2. /\ s \in Seq(Bytes) /\ Len(s) = 1 + Len(q)
          /\ \A i \in 1 .. 1 + Len(q) : s[i] = IF i <= 1 THEN h[i] ELSE q[i - 1]
        <3>1. /\ s \in Seq(Bytes) /\ Len(s) = Len(h) + Len(q)
              /\ \A i \in 1 .. Len(h) + Len(q) :
                    s[i] = IF i <= Len(h) THEN h[i] ELSE q[i - Len(h)]
            BY <1>3, <2>1, ConcatProperties
        <3> HIDE DEF s
        <3>2. QED
            BY <2>1, <3>1
    <2> HIDE DEF s
    <2>3. Len(r) = Len(s)
        BY <1>1, <1>3, <2>2
    <2>4. ASSUME NEW i \in 1 .. Len(r) PROVE r[i] = s[i]
        <3>1. i \in 1 .. n - c /\ i \in 1 .. 1 + Len(q)
            BY <1>1, <1>3
        <3>2. CASE i = 1
            BY <1>5, <2>1, <2>2, <3>1, <3>2
        <3>3. CASE i # 1
            <4>1. i - 1 \in 1 .. n - (c + 1) /\ (c + 1) + (i - 1) = c + i /\ ~ (i <= 1)
                BY <1>1, <3>1, <3>3
            <4>2. QED
                BY <1>3, <2>2, <3>1, <4>1
        <3>4. QED
            BY <3>2, <3>3
    <2>5. r = s
        BY <1>3, <2>2, <2>3, <2>4, SeqEqual
    <2>6. QED
        BY <1>2, <1>5, <2>5 DEF s, h
<1>10. QED
    BY <1>4, <1>6, <1>7, <1>8, <1>9 DEF Shifted

-----------------------------------------------------------------------------
(* Every step is one of the text.  The halves of the line before and after *)
(* it are l, r, k and q, and the user has gone GoneBack entries back.      *)

GoneBack == IF mode = "edit" /\ selected # None THEN Len(history) + 1 - selected ELSE 0

\* What the keys do to the text is stated on these terms.
LEMMA TextBecomes ==
    ASSUME NEW l, NEW r, NEW n
    PROVE  Editor!Becomes(l, r, n) <=> /\ SubSeq(Line, 1, cursor)' = l
                                       /\ SubSeq(Line, cursor + 1, len)' = r
                                       /\ GoneBack' = n
    BY DEF Editor!Becomes, GoneBack

\* A key with nothing to do leaves the text as it is.
LEMMA TextStays ==
    ASSUME UNCHANGED <<vars, mode>>
    PROVE  Editor!Same
<1>1. /\ SubSeq(Line, 1, cursor)' = SubSeq(Line, 1, cursor)
      /\ SubSeq(Line, cursor + 1, len)' = SubSeq(Line, cursor + 1, len)
      /\ GoneBack' = GoneBack
    BY DEF vars, Line, GoneBack
<1>2. QED
    BY <1>1 DEF Editor!Same, Editor!Becomes, GoneBack

\* An empty line has empty halves, and so has a recalled one behind the cursor.
LEMMA HalvesAtEnd ==
    ASSUME LineGood', cursor' = len'
    PROVE  /\ SubSeq(Line, 1, cursor)' = Line'
           /\ SubSeq(Line, cursor + 1, len)' = <<>>
<1> DEFINE n == len'
           t == Line'
<1>1. InputSize \in Nat /\ n \in 0 .. InputSize /\ input' \in [1 .. InputSize -> Bytes]
    BY ShellAssumption DEF LineGood
<1>2. t = SubSeq(input', 1, n)
    BY DEF Line
<1>3. /\ SubSeq(Line, 1, cursor)' = SubSeq(t, 1, n)
      /\ SubSeq(Line, cursor + 1, len)' = SubSeq(t, n + 1, n)
    OBVIOUS
<1>4. t \in Seq(Bytes) /\ Len(t) = n
    <2> DEFINE a == input'
    <2> HIDE DEF a, n, t
    <2>1. SubSeq(a, 1, n) \in Seq(Bytes) /\ Len(SubSeq(a, 1, n)) = n
        BY <1>1, LineFacts DEF Lines, a
    <2>2. QED
        BY <1>2, <2>1 DEF a
<1> HIDE DEF n, t
<1>5. SubSeq(t, 1, n) = t
    BY <1>4, SubSeqFull
<1>6. SubSeq(t, n + 1, n) = <<>>
    BY <1>1, SubSeqEmpty
<1>7. QED
    BY <1>3, <1>5, <1>6 DEF t

LEMMA LoadedText ==
    ASSUME EInv, EInv', mode = "edit", mode' = mode,
           selected' \in 1 .. Len(history), Load(selected'), UNCHANGED history,
           NEW n, n = Len(history) + 1 - selected'
    PROVE  Editor!Recall(n)
<1>1. Len(history) \in Nat /\ n \in 1 .. Len(history) /\ Len(history) + 1 - n = selected'
    BY HistoryFacts DEF EInv
<1>2. cursor' = len' /\ Line' = history[selected']
    BY LoadFacts
<1>3. /\ SubSeq(Line, 1, cursor)' = history[selected']
      /\ SubSeq(Line, cursor + 1, len)' = <<>>
    BY <1>2, HalvesAtEnd, EInvParts DEF EInv, LineGood
<1>4. GoneBack' = n
    BY <1>1 DEF GoneBack, None
<1>5. n # 0
    BY <1>1
<1>6. Editor!Becomes(history[Len(history) + 1 - n], <<>>, n)
    BY <1>1, <1>3, <1>4, TextBecomes
<1>7. QED
    BY <1>5, <1>6 DEF Editor!Recall

LEMMA ClearedText ==
    ASSUME EInv', Clear
    PROVE  Editor!Becomes(<<>>, <<>>, 0)
<1>1. len' = 0 /\ cursor' = 0 /\ selected' = None
    BY DEF Clear
<1>2. Line' = <<>>
    BY <1>1, SubSeqEmpty DEF Line
<1>3. /\ SubSeq(Line, 1, cursor)' = <<>>
      /\ SubSeq(Line, cursor + 1, len)' = <<>>
    BY <1>1, <1>2, HalvesAtEnd DEF EInv, LineGood
<1>4. GoneBack' = 0
    BY <1>1 DEF GoneBack
<1>5. QED
    BY <1>3, <1>4, TextBecomes

\* A key that changes the line has its effect on the text.
LEMMA KeyEffect ==
    ASSUME EInv, EInv', KeyGood, mode = "edit", mode' = mode, Changes(key)
    PROVE  Editor!Effect /\ UNCHANGED history
<1> DEFINE l == SubSeq(Line, 1, cursor)
           r == SubSeq(Line, cursor + 1, len)
           k == SubSeq(Line, 1, cursor)'
           q == SubSeq(Line, cursor + 1, len)'
<1>1. AreHalves(l, r, input, len, cursor) /\ AreHalves(k, q, input', len', cursor')
    BY Halved, EInvParts DEF EInv, LineGood
<1>2. /\ InputSize \in Nat /\ len \in 0 .. InputSize /\ cursor \in 0 .. len
      /\ Len(l) = cursor /\ Len(r) = len - cursor
    BY <1>1 DEF AreHalves
<1>3. Len(history) \in Nat /\ selected \in 0 .. Len(history)
    BY HistoryFacts DEF EInv
<1>4. CASE key.kind = "Char" /\ Insert(key.byte)
    <2> DEFINE byte == key.byte
    <2>0. byte \in Bytes
        BY <1>4, KeyFacts
    <2>1. AreHalves(k, q, input', len + 1, cursor + 1)
        BY <1>1, <1>4 DEF Insert
    <2>2. \A i \in 1 .. InputSize : input'[i] = IF i <= cursor \/ i > len + 1 THEN input[i]
                                                ELSE IF i = cursor + 1 THEN byte ELSE input[i - 1]
        BY <1>4 DEF Insert
    <2>3. len < InputSize /\ selected' = None /\ UNCHANGED history
        BY <1>4 DEF Insert
    <2>4. k = Append(l, byte) /\ q = r
        <3> HIDE DEF l, r, k, q, byte
        <3>1. QED
            BY <1>1, <2>0, <2>1, <2>2, <2>3, InsertText
    <2>5. Len(l) + Len(r) < InputSize
        BY <1>2, <2>3
    <2>6. GoneBack' = 0
        BY <2>3 DEF GoneBack
    <2>7. Editor!Becomes(Append(l, key.byte), r, 0)
        BY <2>4, <2>6, TextBecomes
    <2>8. QED
        BY <1>4, <2>3, <2>5, <2>7 DEF Editor!Effect
<1>5. CASE key.kind = "Backspace" /\ Backspace
    <2>1. AreHalves(k, q, input', len - 1, cursor - 1)
        BY <1>1, <1>5 DEF Backspace
    <2>2. \A i \in 1 .. InputSize :
             input'[i] = IF i >= cursor /\ i < len THEN input[i + 1] ELSE input[i]
        BY <1>5 DEF Backspace
    <2>3. cursor > 0 /\ selected' = None /\ UNCHANGED history
        BY <1>5 DEF Backspace
    <2>4. l # <<>> /\ k = SubSeq(l, 1, Len(l) - 1) /\ q = r
        <3> HIDE DEF l, r, k, q
        <3>1. QED
            BY <1>1, <2>1, <2>2, <2>3, EraseText
    <2>5. GoneBack' = 0
        BY <2>3 DEF GoneBack
    <2>6. Editor!Becomes(Editor!Most, r, 0)
        BY <2>4, <2>5, TextBecomes DEF Editor!Most
    <2>7. QED
        BY <1>5, <2>3, <2>4, <2>6 DEF Editor!Effect
<1>6. CASE key.kind = "Right" /\ ArrowRight
    <2>1. /\ AreHalves(k, q, input, len, cursor + 1) /\ cursor < len
          /\ UNCHANGED <<selected, history>>
        BY <1>1, <1>6 DEF ArrowRight
    <2>2. r # <<>> /\ k = Append(l, Head(r)) /\ q = Tail(r)
        <3>1. AreHalves(l, r, input, len, cursor) /\ AreHalves(k, q, input, len, cursor + 1)
            BY <1>1, <2>1
        <3> HIDE DEF l, r, k, q
        <3> DEFINE c == cursor
        <3>2. AreHalves(l, r, input, len, c) /\ AreHalves(k, q, input, len, c + 1) /\ c < len
            BY <2>1, <3>1
        <3> HIDE DEF c
        <3>3. Shifted(l, r, k, q)
            BY <3>2, MoveText
        <3>4. QED
            BY <3>3 DEF Shifted
    <2>3. GoneBack' = GoneBack
        BY <2>1 DEF GoneBack
    <2>4. Editor!Becomes(Append(l, Head(r)), Tail(r), GoneBack)
        BY <2>2, <2>3, TextBecomes
    <2>5. QED
        BY <1>6, <2>1, <2>2, <2>4 DEF Editor!Effect, GoneBack
<1>7. CASE key.kind = "Left" /\ ArrowLeft
    <2>1. /\ AreHalves(k, q, input, len, cursor - 1) /\ cursor > 0
          /\ UNCHANGED <<selected, history>>
        BY <1>1, <1>7 DEF ArrowLeft
    <2>2. (cursor - 1) + 1 = cursor /\ cursor - 1 < len
        BY <1>2
    <2>3. l # <<>> /\ k = SubSeq(l, 1, Len(l) - 1) /\ q = <<l[Len(l)]>> \o r
        <3> HIDE DEF l, r, k, q
        <3> DEFINE c == cursor - 1
        <3>1. AreHalves(k, q, input, len, c) /\ c < len /\ AreHalves(l, r, input, len, c + 1)
            BY <1>1, <2>1, <2>2
        <3> HIDE DEF c
        <3>2. Shifted(k, q, l, r)
            BY <3>1, MoveText
        <3>3. QED
            BY <3>2 DEF Shifted
    <2>4. GoneBack' = GoneBack
        BY <2>1 DEF GoneBack
    <2>5. Editor!Becomes(Editor!Most, <<l[Len(l)]>> \o r, GoneBack)
        BY <2>3, <2>4, TextBecomes DEF Editor!Most
    <2>6. QED
        BY <1>7, <2>1, <2>3, <2>5 DEF Editor!Effect, GoneBack
<1>8. CASE key.kind = "Escape" /\ Escape
    BY <1>8, ClearedText DEF Escape, Editor!Effect
<1>9. CASE key.kind = "Up" /\ ArrowUp
    <2>1. /\ history # <<>> /\ UNCHANGED history /\ Load(selected')
          /\ selected' \in 1 .. Len(history)
        BY <1>9, ArrowUpRecalls DEF ArrowUp
    <2>2. selected' = IF selected = None THEN Len(history)
                      ELSE IF selected > 1 THEN selected - 1 ELSE selected
        BY <1>9 DEF ArrowUp
    <2> DEFINE n == IF GoneBack < Len(history) THEN GoneBack + 1 ELSE GoneBack
    <2>3. n = Len(history) + 1 - selected'
        <3>1. CASE selected = None
            BY <1>3, <2>1, <2>2, <3>1 DEF GoneBack, None
        <3>2. CASE selected # None
            <4>1. GoneBack = Len(history) + 1 - selected /\ selected \in 1 .. Len(history)
                BY <1>3, <3>2 DEF GoneBack, None
            <4>2. selected' = IF selected > 1 THEN selected - 1 ELSE selected
                BY <2>2, <3>2
            <4>3. ASSUME NEW g, NEW h \in Nat, NEW i \in 1 .. h, g = h + 1 - i
                  PROVE  (IF g < h THEN g + 1 ELSE g) =
                            h + 1 - (IF i > 1 THEN i - 1 ELSE i)
                BY <4>3
            <4>4. n = Len(history) + 1 - (IF selected > 1 THEN selected - 1 ELSE selected)
                BY <1>3, <4>1, <4>3
            <4>5. QED
                BY <4>2, <4>4
        <3>3. QED
            BY <3>1, <3>2
    <2>4. Editor!Recall(n)
        <3> HIDE DEF n
        <3>1. QED
            BY <2>1, <2>3, LoadedText
    <2>5. QED
        BY <1>9, <2>1, <2>4 DEF Editor!Effect, GoneBack
<1>10. CASE key.kind = "Down" /\ ArrowDown
    <2>1. UNCHANGED history /\ selected # None /\ selected \in 1 .. Len(history)
        BY <1>3, <1>10 DEF ArrowDown, None
    <2>2. GoneBack = Len(history) + 1 - selected /\ GoneBack # 0
        BY <1>3, <2>1 DEF GoneBack
    <2>3. Editor!Recall(GoneBack - 1)
        <3>1. CASE selected < Len(history)
            <4>1. selected' = selected + 1 /\ Load(selected')
                BY <1>10, <3>1 DEF ArrowDown
            <4>2. /\ selected' \in 1 .. Len(history)
                  /\ GoneBack - 1 = Len(history) + 1 - selected'
                BY <1>3, <2>1, <2>2, <3>1, <4>1
            <4>3. QED
                BY <2>1, <4>1, <4>2, LoadedText
        <3>2. CASE ~ (selected < Len(history))
            <4>1. Clear
                BY <1>10, <3>2 DEF ArrowDown
            <4>2. GoneBack - 1 = 0
                BY <1>3, <2>1, <2>2, <3>2
            <4>3. Editor!Becomes(<<>>, <<>>, 0)
                BY <4>1, ClearedText
            <4>4. QED
                BY <4>2, <4>3 DEF Editor!Recall
        <3>3. QED
            BY <3>1, <3>2
    <2>4. QED
        BY <1>10, <2>1, <2>2, <2>3 DEF Editor!Effect, GoneBack
<1>11. QED
    BY <1>4, <1>5, <1>6, <1>7, <1>8, <1>9, <1>10 DEF Changes

\* A key that the loop ignores has no effect on the text either.
LEMMA IdleEffect ==
    ASSUME EInv, mode = "edit", Idle(key), UNCHANGED <<vars, mode>>
    PROVE  Editor!Effect
<1> DEFINE l == SubSeq(Line, 1, cursor)
           r == SubSeq(Line, cursor + 1, len)
<1>1. AreHalves(l, r, input, len, cursor)
    BY Halved, EInvParts
<1>2. /\ InputSize \in Nat /\ len \in 0 .. InputSize /\ cursor \in 0 .. len
      /\ l \in Seq(Bytes) /\ r \in Seq(Bytes) /\ Len(l) = cursor /\ Len(r) = len - cursor
    BY <1>1 DEF AreHalves
<1>3. Editor!Same
    BY TextStays
<1>4. CASE key.kind = "Char" /\ len >= InputSize
    <2>1. ~ (Len(l) + Len(r) < InputSize)
        <3> HIDE DEF l, r
        <3>1. QED
            BY <1>2, <1>4
    <2>2. QED
        BY <1>3, <1>4, <2>1 DEF Editor!Effect
<1>5. CASE key.kind = "Backspace" /\ (cursor = 0 \/ len = 0)
    <2>1. l = <<>>
        <3> HIDE DEF l, r
        <3>1. cursor = 0
            BY <1>2, <1>5
        <3>2. QED
            BY <1>2, <3>1, EmptySeq
    <2>2. QED
        BY <1>3, <1>5, <2>1 DEF Editor!Effect
<1>6. CASE key.kind = "Left" /\ cursor = 0
    <2>1. l = <<>>
        <3> HIDE DEF l, r
        <3>1. QED
            BY <1>2, <1>6, EmptySeq
    <2>2. QED
        BY <1>3, <1>6, <2>1 DEF Editor!Effect
<1>7. CASE key.kind = "Right" /\ cursor >= len
    <2>1. r = <<>>
        <3> HIDE DEF l, r
        <3>1. Len(r) = 0
            BY <1>2, <1>7
        <3>2. QED
            BY <1>2, <3>1, EmptySeq
    <2>2. QED
        BY <1>3, <1>7, <2>1 DEF Editor!Effect
<1>8. CASE key.kind = "Up" /\ selected = None /\ history = <<>>
    BY <1>3, <1>8 DEF Editor!Effect
<1>9. CASE key.kind = "Down" /\ selected = None
    <2>1. GoneBack = 0
        BY <1>9 DEF GoneBack
    <2>2. QED
        BY <1>3, <1>9, <2>1 DEF Editor!Effect, GoneBack
<1>10. QED
    BY <1>4, <1>5, <1>6, <1>7, <1>8, <1>9 DEF Idle

\* The halves of the line make up the line.
LEMMA HalvesJoined ==
    ASSUME LineGood
    PROVE  SubSeq(Line, 1, cursor) \o SubSeq(Line, cursor + 1, len) = Line
<1> DEFINE l == SubSeq(Line, 1, cursor)
           r == SubSeq(Line, cursor + 1, len)
           s == l \o r
<1>1. AreHalves(l, r, input, len, cursor)
    BY Halved
<1>2. Line \in Seq(Bytes) /\ Len(Line) = len /\ \A i \in 1 .. len : Line[i] = input[i]
    BY LineFacts DEF LineGood, Line, Lines
<1> HIDE DEF l, r
<1>3. /\ len \in Nat /\ cursor \in 0 .. len
      /\ l \in Seq(Bytes) /\ Len(l) = cursor /\ \A i \in 1 .. cursor : l[i] = input[i]
      /\ r \in Seq(Bytes) /\ Len(r) = len - cursor
      /\ \A i \in 1 .. len - cursor : r[i] = input[cursor + i]
    BY <1>1 DEF AreHalves
<1>4. /\ s \in Seq(Bytes) /\ Len(s) = Len(l) + Len(r)
      /\ \A i \in 1 .. Len(l) + Len(r) : s[i] = IF i <= Len(l) THEN l[i] ELSE r[i - Len(l)]
    BY <1>3, ConcatProperties
<1> HIDE DEF s
<1>5. Len(s) = len
    BY <1>3, <1>4
<1>6. ASSUME NEW i \in 1 .. Len(s) PROVE s[i] = Line[i]
    <2>1. i \in 1 .. len /\ i \in 1 .. Len(l) + Len(r)
        BY <1>4, <1>5
    <2>2. CASE i <= cursor
        BY <1>2, <1>3, <1>4, <2>1, <2>2
    <2>3. CASE ~ (i <= cursor)
        <3>1. i - cursor \in 1 .. len - cursor /\ cursor + (i - cursor) = i
            BY <1>3, <2>1, <2>3
        <3>2. s[i] = r[i - cursor]
            BY <1>3, <1>4, <2>1, <2>3
        <3>3. QED
            BY <1>2, <1>3, <2>1, <3>1, <3>2
    <2>4. QED
        BY <2>2, <2>3
<1>7. s = Line
    BY <1>2, <1>4, <1>5, <1>6, SeqEqual
<1>8. QED
    BY <1>7 DEF s, l, r

\* trim_ascii strips the blanks around the line.
LEMMA TrimStrips ==
    ASSUME NEW text \in Seq(Bytes)
    PROVE  \E a, b \in 0 .. Len(text) :
              Editor!Stripped(text, a, b) /\ Trim(text) = SubSeq(text, a + 1, b)
<1>0. Len(text) \in Nat
    BY LenProperties
<1>1. CASE Trim(text) = <<>> /\ \A i \in 1 .. Len(text) : text[i] = Blank
    <2>1. SubSeq(text, 0 + 1, 0) = <<>>
        BY SubSeqEmpty
    <2>2. Editor!Stripped(text, 0, 0)
        BY <1>1 DEF Editor!Stripped
    <2>3. 0 \in 0 .. Len(text)
        BY <1>0
    <2>4. QED
        BY <1>1, <2>1, <2>2, <2>3
<1>2. ASSUME NEW b \in 1 .. Len(text), NEW e \in 1 .. Len(text), b <= e,
             text[b] # Blank, text[e] # Blank,
             \A i \in 1 .. Len(text) : i < b \/ i > e => text[i] = Blank,
             Trim(text) = SubSeq(text, b, e)
      PROVE  \E a, c \in 0 .. Len(text) :
                Editor!Stripped(text, a, c) /\ Trim(text) = SubSeq(text, a + 1, c)
    <2> DEFINE a == b - 1
    <2>1. a \in 0 .. Len(text) /\ a + 1 = b /\ e \in 0 .. Len(text) /\ a <= e
        BY <1>0, <1>2
    <2>2. \A i \in 1 .. Len(text) : i <= a => i < b
        BY <1>0
    <2> HIDE DEF a
    <2>3. Editor!Stripped(text, a, e)
        BY <1>2, <2>1, <2>2 DEF Editor!Stripped
    <2>4. QED
        BY <1>2, <2>1, <2>3
<1>3. QED
    BY <1>1, <1>2, TrimFacts

\* Enter remembers the line, as the user sees it, without the blanks around it.
LEMMA EnterText ==
    ASSUME EInv, PressEnter
    PROVE  Editor!Enter
<1> DEFINE text == SubSeq(Line, 1, cursor) \o SubSeq(Line, cursor + 1, len)
<1>1. Line \in Seq(Bytes)
    BY LineFacts DEF EInv, Line, Lines
<1>2. text = Line
    BY HalvesJoined, EInvParts
<1>3. PICK a \in 0 .. Len(Line), b \in 0 .. Len(Line) :
         Editor!Stripped(Line, a, b) /\ Trim(Line) = SubSeq(Line, a + 1, b)
    BY <1>1, TrimStrips
<1>4. history' = Editor!With(Trim(Line))
    <2> DEFINE n == Len(history)
    <2>1. n \in Nat /\ n <= HistorySize /\ HistorySize \in Nat /\ (n > 0 <=> history # <<>>)
        BY HistoryFacts, EmptySeq, ShellAssumption DEF EInv, GoodHistory
    <2>2. n = HistorySize <=> ~ (n < HistorySize)
        BY <2>1
    <2>3. history' = Remembered(Line)
        BY DEF PressEnter
    <2> HIDE DEF n
    <2>4. QED
        BY <2>1, <2>2, <2>3 DEF Remembered, Editor!With, n
<1>5. /\ mode = "edit" /\ key.kind = "Enter" /\ key' = Editor!NoKey /\ mode' = "run"
      /\ UNCHANGED <<input, len, cursor>>
    BY DEF PressEnter, NoKey, Key, Editor!NoKey, Editor!Key
<1>6. GoneBack' = 0
    BY <1>5 DEF GoneBack
<1>7. /\ SubSeq(Line, 1, cursor)' = SubSeq(Line, 1, cursor)
      /\ SubSeq(Line, cursor + 1, len)' = SubSeq(Line, cursor + 1, len)
    BY <1>5 DEF Line
<1>8. \E c, d \in 0 .. Len(text) :
         Editor!Stripped(text, c, d) /\ history' = Editor!With(SubSeq(text, c + 1, d))
    <2> HIDE DEF text
    <2>1. QED
        BY <1>2, <1>3, <1>4
<1>9. QED
    BY <1>5, <1>6, <1>7, <1>8 DEF Editor!Enter, GoneBack

\* Each step of the shell is a step of the text or leaves it as it is.
LEMMA EditorStep ==
    ASSUME EInv, EInv', KeyGood, [TerminalNext]_allVars
    PROVE  Editor!Next \/ UNCHANGED Editor!vars
<1>1. CASE TakeKey
    <2>1. /\ mode = "edit" /\ key = Editor!NoKey /\ key' \in Editor!Keys /\ UNCHANGED <<vars, mode>>
        BY <1>1 DEF TakeKey, Keys, NoKey, Key, Editor!Keys, Editor!NoKey, Editor!Key
    <2>2. /\ SubSeq(Line, 1, cursor)' = SubSeq(Line, 1, cursor)
          /\ SubSeq(Line, cursor + 1, len)' = SubSeq(Line, cursor + 1, len)
          /\ GoneBack' = GoneBack /\ history' = history
        BY <2>1 DEF vars, Line, GoneBack
    <2>3. Editor!Take(key')
        BY <2>1, <2>2 DEF Editor!Take, GoneBack
    <2>4. QED
        BY <2>1, <2>3 DEF Editor!Next
<1>2. CASE Edit
    <2>1. mode = "edit" /\ mode' = mode /\ Changes(key) /\ key' = Editor!NoKey
        BY <1>2 DEF Edit, NoKey, Key, Editor!NoKey, Editor!Key
    <2>2. Editor!Effect /\ UNCHANGED history
        BY <2>1, KeyEffect
    <2>3. Editor!Handle
        BY <2>1, <2>2 DEF Editor!Handle
    <2>4. QED
        BY <2>3 DEF Editor!Next
<1>3. CASE Ignore
    <2>1. /\ mode = "edit" /\ UNCHANGED <<vars, mode>> /\ Idle(key) /\ key' = Editor!NoKey
          /\ UNCHANGED history
        BY <1>3 DEF Ignore, vars, NoKey, Key, Editor!NoKey, Editor!Key
    <2>2. Editor!Effect
        BY <2>1, IdleEffect
    <2>3. Editor!Handle
        BY <2>1, <2>2 DEF Editor!Handle
    <2>4. QED
        BY <2>3 DEF Editor!Next
<1>4. CASE PressEnter
    BY <1>4, EnterText DEF Editor!Next
<1>5. CASE CommandEnds
    <2>1. mode = "run" /\ mode' = "edit" /\ Clear /\ UNCHANGED <<history, key>>
        BY <1>5 DEF CommandEnds
    <2>2. Editor!Becomes(<<>>, <<>>, 0)
        BY <2>1, ClearedText
    <2>3. /\ SubSeq(Line, 1, cursor)' = <<>>
          /\ SubSeq(Line, cursor + 1, len)' = <<>>
          /\ GoneBack' = 0
        BY <2>2, TextBecomes
    <2>4. GoneBack' = GoneBack
        BY <2>1, <2>3 DEF GoneBack
    <2>5. Editor!Begin
        BY <2>1, <2>3, <2>4 DEF Editor!Begin, GoneBack
    <2>6. QED
        BY <2>5 DEF Editor!Next
<1>6. CASE Halt
    <2>1. mode # "halted" /\ mode' = "halted" /\ UNCHANGED <<vars, key>>
        BY <1>6 DEF Halt
    <2>2. /\ SubSeq(Line, 1, cursor)' = SubSeq(Line, 1, cursor)
          /\ SubSeq(Line, cursor + 1, len)' = SubSeq(Line, cursor + 1, len)
          /\ GoneBack' = 0 /\ history' = history /\ key' = key
        BY <2>1 DEF vars, Line, GoneBack
    <2>3. Editor!Stop
        BY <2>1, <2>2 DEF Editor!Stop, GoneBack
    <2>4. QED
        BY <2>3 DEF Editor!Next
<1>7. CASE UNCHANGED <<vars, mode, key>>
    <2>1. /\ SubSeq(Line, 1, cursor)' = SubSeq(Line, 1, cursor)
          /\ SubSeq(Line, cursor + 1, len)' = SubSeq(Line, cursor + 1, len)
          /\ GoneBack' = GoneBack /\ history' = history /\ key' = key /\ mode' = mode
        BY <1>7 DEF vars, Line, GoneBack
    <2>2. QED
        BY <2>1 DEF Editor!vars, GoneBack
<1>8. QED
    BY <1>1, <1>2, <1>3, <1>4, <1>5, <1>6, <1>7
    DEF TerminalNext, CommandWrites, CommandClears, Timer, Panic, KernelException, allVars

\* shell::run with its input array and its history: whatever keys, commands and
\* interrupts follow each other, every key that was taken has its effect on the
\* text exactly once, the byte that goes in is the one that was typed, an arrow
\* recalls the entry next to the one shown, and Enter remembers the line as it
\* stands; for every length of the line and of the history.
THEOREM EditorEditsAText == TerminalSpec => EditsAText
<1>1. TerminalInit => Editor!Init
    <2> SUFFICES ASSUME TerminalInit PROVE Editor!Init
        OBVIOUS
    <2>1. /\ len = 0 /\ cursor = 0 /\ selected = None /\ history = <<>> /\ mode = "edit"
          /\ key = Editor!NoKey
        BY DEF TerminalInit, Init, NoKey, Key, Editor!NoKey, Editor!Key
    <2>2. SubSeq(Line, 1, 0) = <<>> /\ SubSeq(Line, 0 + 1, 0) = <<>>
        BY SubSeqEmpty
    <2>3. QED
        BY <2>1, <2>2 DEF Editor!Init
<1>2. QED
    BY <1>1, EditorStep, EditorInvariant, PTL DEF TerminalSpec, EditsAText, Editor!Spec


-----------------------------------------------------------------------------
(* The writer.                                                             *)

Chars == Bytes \cup Output \cup {Space, Cursor, Prompt, Frame, "panic"}

Screens ==
    [cell : [Cells -> Chars], row : Nat, column : Nat, inputRow : Nat,
     visible : BOOLEAN, saved : Chars]

\* The writer is at a place of the console area.
Inside(c) == c.row \in Top .. Bottom /\ c.column \in Left .. Right

\* No cursor is drawn, and the frame is whole.
Clean(c) ==
    /\ c \in Screens /\ ~ c.visible /\ c.saved # Cursor
    /\ \A p \in Cells : c.cell[p] # Cursor
    /\ \A p \in Cells \ Area : c.cell[p] = Frame

\* The same with the cursor in the writer's cell while it is visible.
Whole(c) ==
    /\ c \in Screens /\ c.saved # Cursor
    /\ \A p \in Cells : c.cell[p] = Cursor <=> c.visible /\ p = <<c.row, c.column>>
    /\ Inside(c)
    /\ \A p \in Cells \ Area : c.cell[p] = Frame

LEMMA Layout ==
    /\ Top \in Nat \ {0} /\ Bottom \in Nat \ {0} /\ Left \in Nat \ {0} /\ Right \in Nat \ {0}
    /\ Top <= Bottom /\ Left + 2 <= Right
    /\ InputColumns \in Nat \ {0} /\ InputColumns = Right - Left - 1
    /\ Area \subseteq Cells
    /\ \A x \in Top .. Bottom, y \in Left .. Right : <<x, y>> \in Area /\ <<x, y>> \in Cells
<1>1. /\ Top \in Nat \ {0} /\ Bottom \in Nat \ {0} /\ Left \in Nat \ {0} /\ Right \in Nat \ {0}
      /\ Top <= Bottom /\ Left + 2 <= Right
    BY ConsoleAssumption
<1>2. InputColumns \in Nat \ {0} /\ InputColumns = Right - Left - 1
    BY <1>1 DEF InputColumns
<1>3. (Top .. Bottom) \subseteq (0 .. Bottom + 1) /\ (Left .. Right) \subseteq (0 .. Right + 1)
    BY <1>1
<1>4. Area \subseteq Cells
    BY <1>3 DEF Area, Cells
<1>5. ASSUME NEW x \in Top .. Bottom, NEW y \in Left .. Right
      PROVE  <<x, y>> \in Area
    BY DEF Area
<1>6. QED
    BY <1>1, <1>2, <1>4, <1>5

\* Bytes that the writer draws.
LEMMA CharFacts ==
    /\ Space \in Chars /\ Frame \in Chars /\ Prompt \in Chars /\ Cursor \in Chars
    /\ "panic" \in Chars /\ Bytes \subseteq Chars /\ Output \subseteq Chars
    /\ Space # Cursor /\ Frame # Cursor /\ Prompt # Cursor /\ "panic" # Cursor
    /\ Cursor \notin Bytes /\ Cursor \notin Output
    BY TerminalAssumption DEF Chars, Cursor, Prompt, Frame

LEMMA ScreenTypes ==
    ASSUME NEW c \in Screens
    PROVE  /\ c.cell \in [Cells -> Chars] /\ c.row \in Nat /\ c.column \in Nat
           /\ c.inputRow \in Nat /\ c.visible \in BOOLEAN /\ c.saved \in Chars
    BY DEF Screens

\* hide_cursor
LEMMA HideFields ==
    ASSUME NEW c \in Screens, <<c.row, c.column>> \in Cells
    PROVE  /\ HideCursor(c) \in Screens
           /\ HideCursor(c).row = c.row /\ HideCursor(c).column = c.column
           /\ HideCursor(c).inputRow = c.inputRow /\ HideCursor(c).saved = c.saved
           /\ ~ HideCursor(c).visible
           /\ \A p \in Cells : HideCursor(c).cell[p] =
                 IF c.visible /\ p = <<c.row, c.column>> THEN c.saved ELSE c.cell[p]
<1>0. /\ c.cell \in [Cells -> Chars] /\ c.row \in Nat /\ c.column \in Nat
      /\ c.inputRow \in Nat /\ c.visible \in BOOLEAN /\ c.saved \in Chars
    BY ScreenTypes
<1>1. CASE ~ c.visible
    BY <1>0, <1>1 DEF HideCursor
<1>2. CASE c.visible
    <2> DEFINE place == <<c.row, c.column>>
               f == [c.cell EXCEPT ![place] = c.saved]
               h == [c EXCEPT !.cell = f, !.visible = FALSE]
    <2>1. HideCursor(c) = h
        BY <1>2 DEF HideCursor
    <2>2. f \in [Cells -> Chars] /\ \A p \in Cells : f[p] = IF p = place THEN c.saved ELSE c.cell[p]
        BY <1>0
    <2> HIDE DEF f, place
    <2>3. /\ h \in Screens
          /\ h.row = c.row /\ h.column = c.column /\ h.inputRow = c.inputRow
          /\ h.saved = c.saved /\ h.visible = FALSE /\ h.cell = f
        BY <2>2 DEF Screens
    <2> HIDE DEF h
    <2>4. QED
        BY <1>2, <2>1, <2>2, <2>3 DEF place
<1>3. QED
    BY <1>0, <1>1, <1>2

\* show_cursor
LEMMA ShowFields ==
    ASSUME NEW c \in Screens, <<c.row, c.column>> \in Cells
    PROVE  /\ ShowCursor(c) \in Screens
           /\ ShowCursor(c).row = c.row /\ ShowCursor(c).column = c.column
           /\ ShowCursor(c).inputRow = c.inputRow
           /\ ShowCursor(c).saved = c.cell[<<c.row, c.column>>]
           /\ ShowCursor(c).visible
           /\ \A p \in Cells : ShowCursor(c).cell[p] =
                 IF p = <<c.row, c.column>> THEN Cursor ELSE c.cell[p]
<1>0. /\ c.cell \in [Cells -> Chars] /\ c.row \in Nat /\ c.column \in Nat
      /\ c.inputRow \in Nat /\ c.visible \in BOOLEAN /\ c.saved \in Chars
    BY ScreenTypes
<1> DEFINE place == <<c.row, c.column>>
           v == c.cell[place]
           f == [c.cell EXCEPT ![place] = Cursor]
           h == [c EXCEPT !.saved = v, !.cell = f, !.visible = TRUE]
<1>1. ShowCursor(c) = h
    BY DEF ShowCursor
<1>2. /\ f \in [Cells -> Chars] /\ v \in Chars
      /\ \A p \in Cells : f[p] = IF p = place THEN Cursor ELSE c.cell[p]
    BY <1>0, CharFacts
<1> HIDE DEF f, v
<1>3. /\ h \in Screens
      /\ h.row = c.row /\ h.column = c.column /\ h.inputRow = c.inputRow
      /\ h.saved = v /\ h.visible = TRUE /\ h.cell = f
    BY <1>2 DEF Screens
<1> HIDE DEF h
<1>4. QED
    BY <1>1, <1>2, <1>3 DEF v

LEMMA WholeFacts ==
    ASSUME NEW c, Whole(c)
    PROVE  /\ c \in Screens /\ <<c.row, c.column>> \in Cells /\ <<c.row, c.column>> \in Area
           /\ c.row \in Top .. Bottom /\ c.column \in Left .. Right /\ Inside(c)
           /\ c.visible \in BOOLEAN /\ c.saved # Cursor
           /\ \A p \in Cells : c.cell[p] = Cursor <=> c.visible /\ p = <<c.row, c.column>>
           /\ \A p \in Cells \ Area : c.cell[p] = Frame
<1>1. c \in Screens /\ c.visible \in BOOLEAN /\ Inside(c) /\ c.saved # Cursor
    BY ScreenTypes DEF Whole
<1>2. c.row \in Top .. Bottom /\ c.column \in Left .. Right
    BY <1>1 DEF Inside
<1>3. <<c.row, c.column>> \in Cells /\ <<c.row, c.column>> \in Area
    BY <1>2, Layout
<1>4. QED
    BY <1>1, <1>2, <1>3 DEF Whole

\* Without the cursor the screen is clean, and the writer where it was.
LEMMA HideClean ==
    ASSUME NEW c, Whole(c)
    PROVE  /\ Clean(HideCursor(c))
           /\ HideCursor(c).row = c.row /\ HideCursor(c).column = c.column
           /\ HideCursor(c).inputRow = c.inputRow
<1>1. /\ c \in Screens /\ <<c.row, c.column>> \in Cells /\ <<c.row, c.column>> \in Area
      /\ c.visible \in BOOLEAN /\ c.saved # Cursor
      /\ \A p \in Cells : c.cell[p] = Cursor <=> c.visible /\ p = <<c.row, c.column>>
      /\ \A p \in Cells \ Area : c.cell[p] = Frame
    BY WholeFacts
<1> DEFINE h == HideCursor(c)
           place == <<c.row, c.column>>
<1>2. /\ h \in Screens
      /\ h.row = c.row /\ h.column = c.column /\ h.inputRow = c.inputRow
      /\ h.saved = c.saved /\ ~ h.visible
      /\ \A p \in Cells : h.cell[p] = IF c.visible /\ p = place THEN c.saved ELSE c.cell[p]
    BY <1>1, HideFields
<1> HIDE DEF h, place
<1>3. ASSUME NEW p \in Cells PROVE h.cell[p] # Cursor
    BY <1>1, <1>2 DEF place
<1>4. ASSUME NEW p \in Cells \ Area PROVE h.cell[p] = Frame
    BY <1>1, <1>2 DEF place
<1>5. QED
    BY <1>1, <1>2, <1>3, <1>4 DEF Clean, h

LEMMA CleanWhole ==
    ASSUME NEW c, Clean(c), Inside(c)
    PROVE  Whole(c)
    BY DEF Clean, Whole

\* toggle_cursor draws the cursor or takes it away, and nothing else.
LEMMA ToggleWhole ==
    ASSUME NEW c, Whole(c)
    PROVE  /\ Whole(ToggleCursor(c))
           /\ ToggleCursor(c).row = c.row /\ ToggleCursor(c).column = c.column
           /\ ToggleCursor(c).inputRow = c.inputRow
           /\ \A p \in Cells : HideCursor(ToggleCursor(c)).cell[p] = HideCursor(c).cell[p]
<1>1. /\ c \in Screens /\ <<c.row, c.column>> \in Cells /\ <<c.row, c.column>> \in Area
      /\ c.visible \in BOOLEAN /\ c.saved # Cursor /\ Inside(c)
      /\ \A p \in Cells : c.cell[p] = Cursor <=> c.visible /\ p = <<c.row, c.column>>
      /\ \A p \in Cells \ Area : c.cell[p] = Frame
    BY WholeFacts
<1>2. CASE c.visible
    <2> DEFINE h == HideCursor(c)
    <2>1. Clean(h) /\ h.row = c.row /\ h.column = c.column /\ h.inputRow = c.inputRow
        BY HideClean
    <2> HIDE DEF h
    <2>2. Inside(h)
        BY <1>1, <2>1 DEF Inside
    <2>3. Whole(h)
        BY <2>1, <2>2, CleanWhole
    <2>4. HideCursor(h) = h
        BY <2>1 DEF Clean, HideCursor
    <2>5. ToggleCursor(c) = h
        BY <1>2 DEF ToggleCursor, h
    <2>6. QED
        BY <2>1, <2>3, <2>4, <2>5 DEF h
<1>3. CASE ~ c.visible
    <2> DEFINE s == ShowCursor(c)
               place == <<c.row, c.column>>
    <2>1. /\ s \in Screens /\ s.row = c.row /\ s.column = c.column
          /\ s.inputRow = c.inputRow /\ s.saved = c.cell[place] /\ s.visible
          /\ \A p \in Cells : s.cell[p] = IF p = place THEN Cursor ELSE c.cell[p]
        BY <1>1, ShowFields
    <2>2. ToggleCursor(c) = s /\ HideCursor(c) = c
        BY <1>3 DEF ToggleCursor, HideCursor
    <2> HIDE DEF s
    <2>3. <<s.row, s.column>> = place
        BY <2>1
    <2>4. \A p \in Cells : HideCursor(s).cell[p] =
             IF s.visible /\ p = <<s.row, s.column>> THEN s.saved ELSE s.cell[p]
        BY <1>1, <2>1, <2>3, HideFields
    <2>5. place \in Cells /\ place \in Area
        BY <1>1
    <2>6. \A p \in Cells : c.cell[p] # Cursor
        BY <1>1, <1>3
    <2> HIDE DEF place
    <2>7. ASSUME NEW p \in Cells PROVE HideCursor(s).cell[p] = c.cell[p]
        BY <2>1, <2>3, <2>4
    <2>8. s.saved # Cursor
        BY <2>1, <2>5, <2>6
    <2>9. ASSUME NEW p \in Cells PROVE s.cell[p] = Cursor <=> s.visible /\ p = <<s.row, s.column>>
        BY <2>1, <2>3, <2>6
    <2>10. ASSUME NEW p \in Cells \ Area PROVE s.cell[p] = Frame
        BY <1>1, <2>1, <2>5
    <2>11. Inside(s)
        BY <1>1, <2>1 DEF Inside
    <2>12. Whole(s)
        BY <2>1, <2>8, <2>9, <2>10, <2>11 DEF Whole
    <2>13. QED
        BY <2>1, <2>2, <2>7, <2>12
<1>4. QED
    BY <1>2, <1>3

\* Other cells for the same writer.
LEMMA CellsFields ==
    ASSUME NEW c \in Screens, NEW f \in [Cells -> Chars]
    PROVE  /\ [c EXCEPT !.cell = f] \in Screens
           /\ [c EXCEPT !.cell = f].cell = f
           /\ [c EXCEPT !.cell = f].row = c.row /\ [c EXCEPT !.cell = f].column = c.column
           /\ [c EXCEPT !.cell = f].inputRow = c.inputRow
           /\ [c EXCEPT !.cell = f].visible = c.visible /\ [c EXCEPT !.cell = f].saved = c.saved
    BY DEF Screens

\* Another place for the writer.
MoveTo(c, x, y) == [c EXCEPT !.row = x, !.column = y]

LEMMA PlaceClean ==
    ASSUME NEW c, Clean(c), NEW x \in Nat, NEW y \in Nat
    PROVE  /\ Clean(MoveTo(c, x, y)) /\ MoveTo(c, x, y).cell = c.cell
           /\ MoveTo(c, x, y).row = x /\ MoveTo(c, x, y).column = y
           /\ MoveTo(c, x, y).inputRow = c.inputRow
<1> DEFINE d == [c EXCEPT !.row = x, !.column = y]
<1>1. c \in Screens
    BY DEF Clean
<1>2. /\ d \in Screens /\ d.cell = c.cell /\ d.row = x /\ d.column = y
      /\ d.inputRow = c.inputRow /\ d.visible = c.visible /\ d.saved = c.saved
    BY <1>1 DEF Screens
<1> HIDE DEF d
<1>3. Clean(d)
    BY <1>2 DEF Clean
<1>4. QED
    BY <1>2, <1>3 DEF d, MoveTo

\* clear_console_row for the rows below.
LEMMA ClearRowsClean ==
    ASSUME NEW c, Clean(c), NEW row \in Nat
    PROVE  /\ Clean(ClearRows(c, row))
           /\ ClearRows(c, row).row = c.row /\ ClearRows(c, row).column = c.column
           /\ ClearRows(c, row).inputRow = c.inputRow
           /\ \A p \in Cells : ClearRows(c, row).cell[p] =
                 IF p \in Area /\ p[1] >= row THEN Space ELSE c.cell[p]
<1> DEFINE f == [p \in Cells |-> IF p \in Area /\ p[1] >= row THEN Space ELSE c.cell[p]]
           d == [c EXCEPT !.cell = f]
<1>1. c \in Screens /\ c.cell \in [Cells -> Chars]
    BY ScreenTypes DEF Clean
<1>2. f \in [Cells -> Chars]
    BY <1>1, CharFacts
<1>3. \A p \in Cells : f[p] = IF p \in Area /\ p[1] >= row THEN Space ELSE c.cell[p]
    OBVIOUS
<1>4. ClearRows(c, row) = d
    BY DEF ClearRows
<1> HIDE DEF f
<1>5. /\ d \in Screens /\ d.cell = f /\ d.row = c.row /\ d.column = c.column
      /\ d.inputRow = c.inputRow /\ d.visible = c.visible /\ d.saved = c.saved
    BY <1>1, <1>2, CellsFields
<1> HIDE DEF d
<1>6. ASSUME NEW p \in Cells PROVE d.cell[p] # Cursor
    BY <1>3, <1>5, CharFacts DEF Clean
<1>7. ASSUME NEW p \in Cells \ Area PROVE d.cell[p] = Frame
    BY <1>3, <1>5 DEF Clean
<1>8. Clean(d)
    BY <1>5, <1>6, <1>7 DEF Clean
<1>9. QED
    BY <1>3, <1>4, <1>5, <1>8

\* scroll_console_up
LEMMA ScrollClean ==
    ASSUME NEW c, Clean(c)
    PROVE  /\ Clean(ScrollConsoleUp(c))
           /\ ScrollConsoleUp(c).row = Bottom /\ ScrollConsoleUp(c).column = Left
           /\ ScrollConsoleUp(c).inputRow = c.inputRow
<1> DEFINE f == [p \in Cells |-> IF p \in Area /\ p[1] < Bottom
                                 THEN c.cell[<<p[1] + 1, p[2]>>] ELSE c.cell[p]]
           d == [c EXCEPT !.cell = f]
           e == ClearRows(d, Bottom)
           g == MoveTo(e, Bottom, Left)
<1>1. c \in Screens /\ c.cell \in [Cells -> Chars] /\ ~ c.visible
    BY ScreenTypes DEF Clean
<1>2. ASSUME NEW p \in Area, p[1] < Bottom
      PROVE  <<p[1] + 1, p[2]>> \in Cells
    <2>1. p[1] \in Top .. Bottom /\ p[2] \in Left .. Right
        BY DEF Area
    <2>2. p[1] + 1 \in Top .. Bottom
        BY <1>2, <2>1, Layout
    <2>3. QED
        BY <2>1, <2>2, Layout
<1>3. f \in [Cells -> Chars]
    <2>1. ASSUME NEW p \in Cells
          PROVE  (IF p \in Area /\ p[1] < Bottom THEN c.cell[<<p[1] + 1, p[2]>>]
                  ELSE c.cell[p]) \in Chars
        BY <1>1, <1>2
    <2>2. QED
        BY <2>1
<1>4. ASSUME NEW p \in Cells
      PROVE  f[p] # Cursor /\ (p \notin Area => f[p] = Frame)
    BY <1>2 DEF Clean
<1>5. ScrollConsoleUp(c) = g
    BY <1>1 DEF ScrollConsoleUp, HideCursor, MoveTo
<1> HIDE DEF f
<1>6. /\ d \in Screens /\ d.cell = f /\ d.row = c.row /\ d.column = c.column
      /\ d.inputRow = c.inputRow /\ d.visible = c.visible /\ d.saved = c.saved
    BY <1>1, <1>3, CellsFields
<1> HIDE DEF d
<1>7. Clean(d)
    BY <1>4, <1>6 DEF Clean
<1>8. Clean(e) /\ e.inputRow = d.inputRow
    BY <1>7, Layout, ClearRowsClean
<1> HIDE DEF e
<1>9. Clean(g) /\ g.row = Bottom /\ g.column = Left /\ g.inputRow = e.inputRow
    BY <1>8, Layout, PlaceClean
<1>10. QED
    BY <1>5, <1>6, <1>8, <1>9

\* new_line, from a column of the console or just behind it.
LEMMA NewLineClean ==
    ASSUME NEW c, Clean(c), c.row \in Top .. Bottom
    PROVE  /\ Clean(NewLine(c)) /\ Inside(NewLine(c))
           /\ NewLine(c).column = Left /\ NewLine(c).inputRow = c.inputRow
<1> DEFINE d == [c EXCEPT !.column = Left]
<1>1. c \in Screens /\ c.row \in Nat
    BY ScreenTypes DEF Clean
<1>2. d = MoveTo(c, c.row, Left)
    BY <1>1 DEF Screens, MoveTo
<1>3. Left \in Nat /\ c.row \in Nat
    BY <1>1, Layout
<1>4. NewLine(c) = IF d.row >= Bottom THEN ScrollConsoleUp(d)
                   ELSE [d EXCEPT !.row = IF d.row + 1 < Top THEN Top ELSE d.row + 1]
    BY DEF NewLine
<1> HIDE DEF d
<1>5. Clean(d) /\ d.row = c.row /\ d.column = Left /\ d.inputRow = c.inputRow
    <2>1. \A x, y \in Nat : /\ Clean(MoveTo(c, x, y)) /\ MoveTo(c, x, y).row = x
                            /\ MoveTo(c, x, y).column = y
                            /\ MoveTo(c, x, y).inputRow = c.inputRow
        BY PlaceClean
    <2>2. QED
        BY <1>2, <1>3, <2>1
<1>6. CASE d.row >= Bottom
    <2>1. NewLine(c) = ScrollConsoleUp(d)
        BY <1>4, <1>6
    <2>2. Inside(ScrollConsoleUp(d))
        BY <1>5, Layout, ScrollClean DEF Inside
    <2>3. QED
        BY <1>5, <2>1, <2>2, ScrollClean
<1>7. CASE ~ (d.row >= Bottom)
    <2> DEFINE e == MoveTo(d, d.row + 1, Left)
    <2>1. d.row + 1 \in Top .. Bottom /\ ~ (d.row + 1 < Top) /\ d.row + 1 \in Nat
        BY <1>5, <1>7, Layout
    <2>2. d \in Screens
        BY <1>5 DEF Clean
    <2>3. [d EXCEPT !.row = d.row + 1] = e
        BY <1>5, <2>2 DEF Screens, MoveTo
    <2>4. NewLine(c) = e
        BY <1>4, <1>7, <2>1, <2>3
    <2>5. Clean(e) /\ e.row = d.row + 1 /\ e.column = Left /\ e.inputRow = d.inputRow
        <3> DEFINE x == d.row + 1
        <3>1. x \in Nat /\ Left \in Nat
            BY <2>1, Layout
        <3> HIDE DEF x
        <3>2. /\ Clean(MoveTo(d, x, Left)) /\ MoveTo(d, x, Left).row = x
              /\ MoveTo(d, x, Left).column = Left
              /\ MoveTo(d, x, Left).inputRow = d.inputRow
            BY <1>5, <3>1, PlaceClean
        <3>3. QED
            BY <3>2 DEF x
    <2> HIDE DEF e
    <2>6. Inside(e)
        BY <2>1, <2>5, Layout DEF Inside
    <2>7. QED
        BY <1>5, <2>4, <2>5, <2>6
<1>8. QED
    BY <1>6, <1>7

\* Writer::write_byte
LEMMA PutByteClean ==
    ASSUME NEW c, Clean(c), Inside(c), NEW byte \in Chars \cup {Newline}, byte # Cursor
    PROVE  Clean(PutByte(c, byte)) /\ Inside(PutByte(c, byte))
<1>1. /\ c \in Screens /\ c.cell \in [Cells -> Chars]
      /\ c.row \in Top .. Bottom /\ c.column \in Left .. Right
    BY ScreenTypes DEF Clean, Inside
<1>2. CASE byte = Newline
    <2>1. PutByte(c, byte) = NewLine(c)
        BY <1>2 DEF PutByte
    <2>2. QED
        BY <1>1, <2>1, NewLineClean
<1>3. CASE byte # Newline
    <2> DEFINE place == <<c.row, c.column>>
               f == [c.cell EXCEPT ![place] = byte]
               d == [c EXCEPT !.cell = f]
               e == MoveTo(d, c.row, c.column + 1)
    <2>1. ~ (c.column < Left) /\ ~ (c.column > Right) /\ c.column + 1 \in Nat /\ c.row \in Nat
        BY <1>1, Layout
    <2>2. [c EXCEPT !.column = c.column] = c
        BY <1>1 DEF Screens
    <2>3. place \in Cells /\ place \in Area
        BY <1>1, Layout
    <2>4. f \in [Cells -> Chars] /\ \A p \in Cells : f[p] = IF p = place THEN byte ELSE c.cell[p]
        BY <1>1, <1>3, <2>3
    <2>5. [c EXCEPT !.cell[<<c.row, c.column>>] = byte, !.column = c.column + 1] = e
        BY <1>1 DEF Screens, MoveTo
    <2>6. PutByte(c, byte) = IF e.column > Right THEN NewLine(e) ELSE e
        <3> DEFINE g == [c EXCEPT !.column = IF c.column < Left THEN Left ELSE c.column]
        <3>1. g = c
            BY <2>1, <2>2
        <3>2. PutByte(c, byte) =
                 LET k == IF g.column > Right THEN NewLine(g) ELSE g
                     m == [k EXCEPT !.cell[<<k.row, k.column>>] = byte, !.column = k.column + 1]
                 IN  IF m.column > Right THEN NewLine(m) ELSE m
            BY <1>3 DEF PutByte
        <3> HIDE DEF g, e
        <3>3. (IF g.column > Right THEN NewLine(g) ELSE g) = c
            BY <2>1, <3>1
        <3>4. QED
            BY <2>5, <3>2, <3>3
    <2> HIDE DEF f, place
    <2>7. /\ d \in Screens /\ d.cell = f /\ d.row = c.row /\ d.column = c.column
          /\ d.inputRow = c.inputRow /\ d.visible = c.visible /\ d.saved = c.saved
        BY <1>1, <2>4, CellsFields
    <2> HIDE DEF d
    <2>8. ASSUME NEW p \in Cells PROVE d.cell[p] # Cursor
        BY <2>4, <2>7 DEF Clean
    <2>9. ASSUME NEW p \in Cells \ Area PROVE d.cell[p] = Frame
        BY <2>3, <2>4, <2>7 DEF Clean
    <2>10. Clean(d)
        BY <2>7, <2>8, <2>9 DEF Clean
    <2>11. Clean(e) /\ e.row = c.row /\ e.column = c.column + 1
        <3> DEFINE x == c.row
                   y == c.column + 1
        <3>1. x \in Nat /\ y \in Nat
            BY <2>1
        <3> HIDE DEF x, y
        <3>2. /\ Clean(MoveTo(d, x, y)) /\ MoveTo(d, x, y).row = x
              /\ MoveTo(d, x, y).column = y
            BY <2>10, <3>1, PlaceClean
        <3>3. QED
            BY <3>2 DEF x, y
    <2> HIDE DEF e
    <2>12. CASE e.column > Right
        BY <1>1, <2>6, <2>11, <2>12, NewLineClean
    <2>13. CASE ~ (e.column > Right)
        <3>1. Inside(e)
            BY <1>1, <2>11, <2>13, Layout DEF Inside
        <3>2. QED
            BY <2>6, <2>11, <2>13, <3>1
    <2>14. QED
        BY <2>12, <2>13
<1>4. QED
    BY <1>2, <1>3

\* write_byte hides the cursor first.
LEMMA WriteByteWhole ==
    ASSUME NEW c, Whole(c), NEW byte \in Chars \cup {Newline}, byte # Cursor
    PROVE  Whole(WriteByte(c, byte))
<1> DEFINE h == HideCursor(c)
<1>1. Clean(h) /\ h.row = c.row /\ h.column = c.column
    BY HideClean
<1> HIDE DEF h
<1>2. Inside(h)
    BY <1>1, WholeFacts DEF Inside
<1>3. Whole(PutByte(h, byte))
    BY <1>1, <1>2, PutByteClean, CleanWhole
<1>4. QED
    BY <1>3 DEF WriteByte, h

-----------------------------------------------------------------------------
(* Rows and columns of the input.                                          *)

\* Division by the columns of a row, as far as it is needed.
LEMMA RowsMonotonic ==
    ASSUME NEW m \in Nat, NEW n \in Nat, m <= n
    PROVE  /\ m \div InputColumns \in Nat /\ m % InputColumns \in 0 .. InputColumns - 1
           /\ m = (m \div InputColumns) * InputColumns + (m % InputColumns)
           /\ m \div InputColumns <= n \div InputColumns
<1> DEFINE w == InputColumns
<1>1. w \in Nat \ {0}
    BY Layout
<1> HIDE DEF w
<1>2. /\ m \div w \in Nat /\ m % w \in 0 .. w - 1 /\ m = (m \div w) * w + (m % w)
      /\ n \div w \in Nat /\ n % w \in 0 .. w - 1 /\ n = (n \div w) * w + (n % w)
    BY <1>1
<1> DEFINE a == m \div w
           b == n \div w
           r == m % w
           s == n % w
<1>3. a \in Nat /\ b \in Nat /\ r \in 0 .. w - 1 /\ s \in 0 .. w - 1 /\ a * w + r <= b * w + s
    BY <1>2
<1> HIDE DEF a, b, r, s
<1>4. a <= b
    <2> SUFFICES ASSUME a > b PROVE FALSE
        BY <1>3
    <2>1. PICK d \in Nat : a = b + 1 + d
        <3>1. a - b - 1 \in Nat /\ a = b + 1 + (a - b - 1)
            BY <1>3
        <3>2. QED
            BY <3>1
    <2>2. a * w = b * w + w + d * w
        BY <1>1, <1>3, <2>1
    <2>3. d * w \in Nat /\ a * w \in Nat /\ b * w \in Nat
        BY <1>1, <1>3, <2>1
    <2>4. QED
        BY <1>1, <1>3, <2>2, <2>3
<1>5. QED
    BY <1>2, <1>4 DEF a, b, w

\* A row and a column determine the byte that is there.
LEMMA PlaceUnique ==
    ASSUME NEW q \in Nat, NEW r \in 0 .. InputColumns - 1
    PROVE  /\ q * InputColumns + r \in Nat
           /\ (q * InputColumns + r) \div InputColumns = q
           /\ (q * InputColumns + r) % InputColumns = r
<1> DEFINE w == InputColumns
<1>1. w \in Nat \ {0}
    BY Layout
<1> HIDE DEF w
<1>2. q * w \in Nat /\ r \in Nat /\ r < w
    BY <1>1 DEF w
<1> DEFINE i == q * w + r
           b == i \div w
           s == i % w
<1>3. i \in Nat
    BY <1>2
<1> HIDE DEF i
<1>4. b \in Nat /\ s \in 0 .. w - 1 /\ i = b * w + s
    BY <1>1, <1>3
<1>5. b * w + s = q * w + r
    BY <1>4 DEF i
<1> HIDE DEF b, s
<1>6. b = q
    <2>1. ASSUME b > q PROVE FALSE
        <3>1. PICK d \in Nat : b = q + 1 + d
            <4>1. b - q - 1 \in Nat /\ b = q + 1 + (b - q - 1)
                BY <1>4, <2>1
            <4>2. QED
                BY <4>1
        <3>2. b * w = q * w + w + d * w /\ d * w \in Nat
            BY <1>1, <1>4, <3>1
        <3>3. QED
            BY <1>1, <1>2, <1>4, <1>5, <3>2
    <2>2. ASSUME b < q PROVE FALSE
        <3>1. PICK d \in Nat : q = b + 1 + d
            <4>1. q - b - 1 \in Nat /\ q = b + 1 + (q - b - 1)
                BY <1>4, <2>2
            <4>2. QED
                BY <4>1
        <3>2. q * w = b * w + w + d * w /\ d * w \in Nat /\ b * w \in Nat
            BY <1>1, <1>4, <3>1
        <3>3. QED
            BY <1>1, <1>2, <1>4, <1>5, <3>2
    <2>3. QED
        BY <1>4, <2>1, <2>2
<1>7. s = r
    BY <1>1, <1>2, <1>4, <1>5, <1>6
<1>8. QED
    BY <1>3, <1>6, <1>7 DEF b, s, i, w

-----------------------------------------------------------------------------
(* render_input_with_cursor.                                               *)

\* Clean screens whose input begins in this row.
CleanAt(row) == {c \in Screens : Clean(c) /\ c.inputRow = row}

\* The loop that scrolls.
LEMMA ScrolledClean ==
    ASSUME NEW c, Clean(c), NEW n \in Nat,
           NEW up, up = CHOOSE g : g = [i \in 0 .. n |->
                           IF i = 0 THEN c ELSE ScrollConsoleUp(g[i - 1])]
    PROVE  Clean(up[n]) /\ up[n].inputRow = c.inputRow
<1> DEFINE D == CleanAt(c.inputRow)
           Rec(f) == f = [i \in 0 .. n |-> IF i = 0 THEN c ELSE ScrollConsoleUp(f[i - 1])]
           step == [z \in D \X (1 .. n) |-> ScrollConsoleUp(z[1])]
<1>1. c \in D
    BY DEF CleanAt, Clean
<1>2. ASSUME NEW x \in D PROVE ScrollConsoleUp(x) \in D
    <2>1. Clean(x) /\ x.inputRow = c.inputRow
        BY DEF CleanAt
    <2>2. Clean(ScrollConsoleUp(x)) /\ ScrollConsoleUp(x).inputRow = x.inputRow
        BY <2>1, ScrollClean
    <2>3. QED
        BY <2>1, <2>2 DEF CleanAt, Clean
<1> HIDE DEF D
<1>3. step \in [D \X (1 .. n) -> D]
    BY <1>2
<1>4. PICK f \in [0 .. n -> D] :
         f[0] = c /\ \A i \in 1 .. n : f[i] = step[<<f[i - 1], i>>]
    <2> HIDE DEF step
    <2>1. IsStep(step, n, D)
        BY <1>3 DEF IsStep
    <2>2. PICK f : IsRun(f, n, D, c, step)
        BY <1>1, <2>1, RunExists
    <2>3. QED
        BY <2>2 DEF IsRun
<1>5. ASSUME NEW i \in 1 .. n PROVE f[i] = ScrollConsoleUp(f[i - 1])
    <2>1. <<f[i - 1], i>> \in D \X (1 .. n)
        OBVIOUS
    <2>2. \A z \in D \X (1 .. n) : step[z] = ScrollConsoleUp(z[1])
        OBVIOUS
    <2>3. <<f[i - 1], i>>[1] = f[i - 1]
        OBVIOUS
    <2> HIDE DEF step
    <2>4. step[<<f[i - 1], i>>] = ScrollConsoleUp(f[i - 1])
        BY <2>1, <2>2, <2>3
    <2>5. QED
        BY <1>4, <2>4
<1>6. Rec(f)
    <2>1. \A i \in 0 .. n : f[i] = IF i = 0 THEN c ELSE ScrollConsoleUp(f[i - 1])
        BY <1>4, <1>5
    <2>2. QED
        BY <2>1
<1>7. Rec(up)
    BY <1>6
<1>8. ASSUME NEW i \in 0 .. n
      PROVE  up[i] = IF i = 0 THEN c ELSE ScrollConsoleUp(up[i - 1])
    BY <1>7
<1> DEFINE T == {i \in 0 .. n : up[i] \in D}
<1>9. 0 \in T
    BY <1>1, <1>8
<1>10. ASSUME NEW i \in 0 .. n - 1, i \in T PROVE i + 1 \in T
    <2>1. i + 1 \in 0 .. n /\ i + 1 # 0 /\ (i + 1) - 1 = i
        OBVIOUS
    <2>2. up[i + 1] = ScrollConsoleUp(up[i])
        BY <1>8, <2>1
    <2>3. QED
        BY <1>2, <1>10, <2>1, <2>2
<1>11. n \in T
    <2> HIDE DEF T
    <2>1. 0 .. n \subseteq T
        BY <1>9, <1>10, InductionUpTo
    <2>2. QED
        BY <2>1
<1>12. QED
    BY <1>11 DEF D, CleanAt

\* The rows that the input needs are on the console, and the input begins
\* where it did or as far up as it must.
LEMMA MakeRoomClean ==
    ASSUME NEW c, Clean(c), c.inputRow \in Top .. Bottom,
           NEW more \in Nat, more <= Bottom - Top
    PROVE  /\ Clean(MakeRoom(c, more + 1))
           /\ MakeRoom(c, more + 1).inputRow \in Top .. Bottom
           /\ MakeRoom(c, more + 1).inputRow + more <= Bottom
<1> DEFINE rows == more + 1
           over == c.inputRow + rows - 1 - Bottom
           up == CHOOSE g : g = [i \in 0 .. over |->
                                    IF i = 0 THEN c ELSE ScrollConsoleUp(g[i - 1])]
           d == up[over]
           r == IF d.inputRow - over < Top THEN Top ELSE d.inputRow - over
<1>1. MakeRoom(c, rows) = IF over <= 0 THEN c ELSE [d EXCEPT !.inputRow = r]
    BY DEF MakeRoom
<1>2. over = c.inputRow + more - Bottom /\ over \in Int
    BY Layout
<1>3. CASE over <= 0
    <2>1. MakeRoom(c, rows) = c
        BY <1>1, <1>3
    <2>2. c.inputRow + more <= Bottom
        BY <1>2, <1>3, Layout
    <2>3. QED
        BY <2>1, <2>2
<1>4. CASE ~ (over <= 0)
    <2>1. over \in Nat
        BY <1>2, <1>4
    <2> HIDE DEF over
    <2>2. Clean(d) /\ d.inputRow = c.inputRow
        <3> HIDE DEF d, up
        <3>1. up = CHOOSE g : g = [i \in 0 .. over |->
                                    IF i = 0 THEN c ELSE ScrollConsoleUp(g[i - 1])]
            BY DEF up
        <3>2. Clean(up[over]) /\ up[over].inputRow = c.inputRow
            BY <2>1, <3>1, ScrolledClean
        <3>3. QED
            BY <3>2 DEF d
    <2> HIDE DEF d
    <2>3. r = Bottom - more /\ r \in Top .. Bottom /\ r \in Nat /\ r + more <= Bottom
        BY <1>2, <2>2, Layout
    <2> HIDE DEF r
    <2> DEFINE e == [d EXCEPT !.inputRow = r]
    <2>4. /\ e \in Screens /\ e.cell = d.cell /\ e.inputRow = r
          /\ e.visible = d.visible /\ e.saved = d.saved
        <3>1. d \in Screens
            BY <2>2 DEF Clean
        <3>2. QED
            BY <2>3, <3>1 DEF Screens
    <2>5. MakeRoom(c, rows) = e
        BY <1>1, <1>4
    <2> HIDE DEF e
    <2>6. Clean(e)
        BY <2>2, <2>4 DEF Clean
    <2>7. QED
        BY <2>3, <2>4, <2>5, <2>6
<1>5. QED
    BY <1>3, <1>4

\* The number of the byte that is shown at p, if the input begins in row r.
ByteAt(r, p) == (p[1] - r) * InputColumns + (p[2] - Left - 2) + 1

\* What a cell of the rows from r on shows.
Drawn(r, text, p) ==
    IF p[1] > r + Len(text) \div InputColumns THEN Space
    ELSE IF p[2] < Left + 2 THEN Prompt
    ELSE IF ByteAt(r, p) <= Len(text) THEN text[ByteAt(r, p)]
    ELSE Space

Rendered(c, text, index) ==
    /\ Clean(c) /\ Inside(c)
    /\ c.inputRow \in Top .. Bottom /\ c.inputRow + Len(text) \div InputColumns <= Bottom
    /\ c.row = c.inputRow + index \div InputColumns
    /\ c.column = Left + 2 + (index % InputColumns)
    /\ \A p \in Area : p[1] >= c.inputRow => c.cell[p] = Drawn(c.inputRow, text, p)

LEMMA ByteAtFacts ==
    ASSUME NEW r \in Nat, NEW p \in Area, p[1] >= r, p[2] >= Left + 2
    PROVE  /\ ByteAt(r, p) \in Nat \ {0}
           /\ r + (ByteAt(r, p) - 1) \div InputColumns = p[1]
           /\ Left + 2 + ((ByteAt(r, p) - 1) % InputColumns) = p[2]
<1>1. p[1] \in Top .. Bottom /\ p[2] \in Left .. Right
    BY DEF Area
<1> DEFINE q == p[1] - r
           s == p[2] - Left - 2
<1>2. q \in Nat /\ s \in 0 .. InputColumns - 1 /\ r + q = p[1] /\ Left + 2 + s = p[2]
    BY <1>1, Layout
<1>3. ByteAt(r, p) = q * InputColumns + s + 1
    BY DEF ByteAt
<1> HIDE DEF q, s
<1> DEFINE m == q * InputColumns + s
<1>4. m \in Nat /\ m \div InputColumns = q /\ m % InputColumns = s
    BY <1>2, PlaceUnique
<1>5. ByteAt(r, p) = m + 1
    BY <1>3
<1> HIDE DEF m
<1>6. ByteAt(r, p) - 1 = m /\ ByteAt(r, p) \in Nat \ {0}
    BY <1>4, <1>5
<1>7. QED
    BY <1>2, <1>4, <1>6

\* The first row of a long line goes as far up as it must.
LEMMA RenderFacts ==
    ASSUME NEW c, Whole(c), c.inputRow \in Top .. Bottom,
           NEW text \in Lines, NEW index \in 0 .. Len(text)
    PROVE  Rendered(RenderInput(c, text, index), text, index)
<1> DEFINE more == Len(text) \div InputColumns
           h == HideCursor(c)
           room == MakeRoom(h, more + 1)
           d == ClearRows(room, room.inputRow)
           f == InputCells(d, text)
           x == d.inputRow + index \div InputColumns
           y == Left + 2 + (index % InputColumns)
           e == [d EXCEPT !.cell = f]
<1>1. /\ text \in Seq(Bytes) /\ Len(text) \in Nat /\ Len(text) <= InputSize /\ InputSize \in Nat
    BY LenProperties, ShellAssumption DEF Lines
<1>2. /\ more \in Nat /\ more <= Bottom - Top
      /\ index \div InputColumns \in Nat /\ index \div InputColumns <= more
      /\ index % InputColumns \in 0 .. InputColumns - 1
    <2>1. more \in Nat /\ more <= InputSize \div InputColumns
        BY <1>1, RowsMonotonic
    <2>2. index \in Nat /\ index <= Len(text)
        BY <1>1
    <2>3. /\ index \div InputColumns \in Nat /\ index \div InputColumns <= more
          /\ index % InputColumns \in 0 .. InputColumns - 1
        BY <1>1, <2>2, RowsMonotonic
    <2>4. InputSize \div InputColumns \in Nat
        BY <1>1, RowsMonotonic
    <2> HIDE DEF more
    <2>5. more <= Bottom - Top
        BY <2>1, <2>4, TerminalAssumption, Layout
    <2>6. QED
        BY <2>1, <2>3, <2>5
<1>3. Clean(h) /\ h.inputRow = c.inputRow
    BY HideClean
<1>4. RenderInput(c, text, index) = [d EXCEPT !.cell = f, !.row = x, !.column = y]
    BY DEF RenderInput
<1> HIDE DEF h
<1>5. /\ Clean(room) /\ room.inputRow \in Top .. Bottom /\ room.inputRow + more <= Bottom
    <2> HIDE DEF more
    <2>1. QED
        BY <1>2, <1>3, MakeRoomClean
<1> HIDE DEF room
<1>6. /\ Clean(d) /\ d.inputRow = room.inputRow
      /\ \A p \in Cells : d.cell[p] =
            IF p \in Area /\ p[1] >= room.inputRow THEN Space ELSE room.cell[p]
    <2>1. room.inputRow \in Nat
        BY <1>5, Layout
    <2>2. QED
        BY <1>5, <2>1, ClearRowsClean
<1> HIDE DEF d
<1>7. /\ d \in Screens /\ d.cell \in [Cells -> Chars] /\ d.inputRow \in Top .. Bottom
      /\ d.inputRow \in Nat /\ d.inputRow + more <= Bottom
      /\ \A p \in Cells : d.cell[p] # Cursor
      /\ \A p \in Cells \ Area : d.cell[p] = Frame
      /\ \A p \in Area : p[1] >= d.inputRow => d.cell[p] = Space
    BY <1>5, <1>6, Layout, ScreenTypes DEF Clean
<1>8. \A p \in Cells : f[p] =
         IF ~ (p \in Area /\ p[1] \in d.inputRow .. d.inputRow + more) THEN d.cell[p]
         ELSE IF p[2] < Left + 2 THEN Prompt
         ELSE IF ByteAt(d.inputRow, p) <= Len(text) THEN text[ByteAt(d.inputRow, p)]
         ELSE d.cell[p]
    BY DEF InputCells, ByteAt
<1>9. f = [p \in Cells |-> f[p]]
    BY DEF InputCells
<1> HIDE DEF f
<1>10. ASSUME NEW p \in Area, p[1] >= d.inputRow, p[2] >= Left + 2,
              ByteAt(d.inputRow, p) <= Len(text)
       PROVE  text[ByteAt(d.inputRow, p)] \in Bytes
    <2>1. ByteAt(d.inputRow, p) \in Nat \ {0}
        BY <1>7, <1>10, ByteAtFacts
    <2>2. ByteAt(d.inputRow, p) \in 1 .. Len(text)
        BY <1>1, <1>10, <2>1
    <2>3. QED
        BY <1>1, <2>2, ElementOfSeq
<1>11. ASSUME NEW p \in Cells
       PROVE  f[p] \in Chars /\ f[p] # Cursor /\ (p \notin Area => f[p] = Frame)
    <2>1. CASE ~ (p \in Area /\ p[1] \in d.inputRow .. d.inputRow + more)
        BY <1>7, <1>8, <2>1
    <2>2. CASE p \in Area /\ p[1] \in d.inputRow .. d.inputRow + more
        <3>1. /\ p[1] >= d.inputRow /\ p[2] \in Int /\ Left + 2 \in Int
            BY <1>7, <2>2, Layout DEF Area
        <3>2. CASE p[2] < Left + 2
            BY <1>8, <2>2, <3>2, CharFacts
        <3>3. CASE ~ (p[2] < Left + 2)
            <4>1. p[2] >= Left + 2
                BY <3>1, <3>3
            <4>2. CASE ByteAt(d.inputRow, p) <= Len(text)
                <5>1. text[ByteAt(d.inputRow, p)] \in Bytes
                    BY <1>10, <2>2, <3>1, <4>1, <4>2
                <5>2. f[p] = text[ByteAt(d.inputRow, p)]
                    BY <1>8, <2>2, <3>3, <4>2
                <5>3. QED
                    BY <2>2, <5>1, <5>2, CharFacts
            <4>3. CASE ~ (ByteAt(d.inputRow, p) <= Len(text))
                <5>1. f[p] = d.cell[p]
                    BY <1>8, <2>2, <3>3, <4>3
                <5>2. QED
                    BY <1>7, <2>2, <5>1
            <4>4. QED
                BY <4>2, <4>3
        <3>4. QED
            BY <3>2, <3>3
    <2>3. QED
        BY <2>1, <2>2
<1>12. f \in [Cells -> Chars]
    BY <1>9, <1>11
<1>13. ASSUME NEW p \in Area, p[1] >= d.inputRow
       PROVE  f[p] = Drawn(d.inputRow, text, p)
    <2>1. p \in Cells /\ p[1] \in Int /\ d.cell[p] = Space
        BY <1>7, <1>13, Layout DEF Area
    <2>2. p[1] \in d.inputRow .. d.inputRow + more <=> ~ (p[1] > d.inputRow + more)
        <3> HIDE DEF more
        <3>1. QED
            BY <1>2, <1>7, <1>13, <2>1
    <2>3. QED
        BY <1>8, <2>1, <2>2 DEF Drawn
<1>14. /\ e \in Screens /\ e.cell = f /\ e.inputRow = d.inputRow
       /\ e.visible = d.visible /\ e.saved = d.saved
    BY <1>7, <1>12, CellsFields
<1>15. RenderInput(c, text, index) = MoveTo(e, x, y)
    <2> HIDE DEF x, y
    <2>1. d \in Screens
        BY <1>7
    <2>2. [d EXCEPT !.cell = f, !.row = x, !.column = y] = MoveTo(e, x, y)
        BY <2>1 DEF MoveTo, Screens
    <2>3. QED
        BY <1>4, <2>2 DEF x, y
<1> HIDE DEF e
<1>16. Clean(e)
    BY <1>6, <1>11, <1>14 DEF Clean
<1>17. x \in Top .. Bottom /\ y \in Left .. Right /\ x \in Nat /\ y \in Nat
    <2> DEFINE a == index \div InputColumns
               b == index % InputColumns
    <2>1. a \in Nat /\ a <= more /\ b \in 0 .. InputColumns - 1
        BY <1>2
    <2> HIDE DEF a, b, more
    <2>2. d.inputRow + a \in Top .. Bottom
        <3>1. /\ d.inputRow \in Nat /\ Top <= d.inputRow /\ d.inputRow + more <= Bottom
              /\ more \in Nat /\ Top \in Nat /\ Bottom \in Nat
            BY <1>2, <1>7, Layout
        <3>2. QED
            BY <2>1, <3>1
    <2>3. Left + 2 + b \in Left .. Right
        BY <2>1, Layout
    <2>4. QED
        BY <2>2, <2>3, Layout DEF a, b
<1> DEFINE g == MoveTo(e, x, y)
<1>18. /\ Clean(g) /\ g.cell = e.cell /\ g.row = x /\ g.column = y
       /\ g.inputRow = e.inputRow
    <2> HIDE DEF x, y
    <2>1. QED
        BY <1>16, <1>17, PlaceClean
<1> HIDE DEF g
<1>19. Inside(g)
    <2> HIDE DEF x, y
    <2>1. QED
        BY <1>17, <1>18 DEF Inside
<1>20. ASSUME NEW p \in Area, p[1] >= g.inputRow
       PROVE  g.cell[p] = Drawn(g.inputRow, text, p)
    BY <1>13, <1>14, <1>18, <1>20
<1>21. /\ g.row = g.inputRow + index \div InputColumns
       /\ g.column = Left + 2 + (index % InputColumns)
       /\ g.inputRow \in Top .. Bottom /\ g.inputRow + Len(text) \div InputColumns <= Bottom
    BY <1>7, <1>14, <1>18
<1>22. Rendered(g, text, index)
    BY <1>18, <1>19, <1>20, <1>21 DEF Rendered
<1>23. QED
    BY <1>15, <1>22 DEF g

-----------------------------------------------------------------------------
(* The screen shows the line.                                              *)

\* The writer stands at the place of the index-th byte, and without the
\* cursor the rows from input_row on show the text and nothing else.
Depicted(c, text, index) ==
    /\ c.inputRow \in Top .. Bottom /\ c.inputRow + Len(text) \div InputColumns <= Bottom
    /\ c.row = c.inputRow + index \div InputColumns
    /\ c.column = Left + 2 + (index % InputColumns)
    /\ \A p \in Area : p[1] >= c.inputRow =>
          HideCursor(c).cell[p] = Drawn(c.inputRow, text, p)

\* Nothing is drawn over a panic screen.
Panicked(c) == c.saved # Cursor /\ ~ c.visible /\ \A p \in Cells : c.cell[p] # Cursor

SInv ==
    /\ mode \in {"edit", "run", "halted"}
    /\ IF mode = "halted" THEN Panicked(con) ELSE Whole(con)
    /\ mode = "edit" => Depicted(con, Line, cursor)

LEMMA RenderedDepicted ==
    ASSUME NEW c, NEW text, NEW index, Rendered(c, text, index)
    PROVE  Whole(c) /\ Depicted(c, text, index)
<1>1. Clean(c) /\ Inside(c) /\ ~ c.visible
    BY DEF Rendered, Clean
<1>2. HideCursor(c) = c
    BY <1>1 DEF HideCursor
<1>3. QED
    BY <1>1, <1>2, CleanWhole DEF Rendered, Depicted

\* start_prompt, from any place of the console.
LEMMA StartPromptFacts ==
    ASSUME NEW c, Whole(c)
    PROVE  Rendered(StartPrompt(c), <<>>, 0)
<1> DEFINE h == HideCursor(c)
           d == IF h.column # Left THEN NewLine(h) ELSE h
           e == [d EXCEPT !.inputRow = d.row]
<1>1. Clean(h) /\ h.row = c.row /\ h.column = c.column
    BY HideClean
<1>2. StartPrompt(c) = RenderInput(e, <<>>, 0)
    BY DEF StartPrompt
<1> HIDE DEF h
<1>3. Inside(h) /\ h.row \in Top .. Bottom
    BY <1>1, WholeFacts DEF Inside
<1>4. Clean(d) /\ Inside(d)
    BY <1>1, <1>3, NewLineClean
<1> HIDE DEF d
<1>5. d \in Screens /\ d.row \in Top .. Bottom /\ d.column \in Left .. Right /\ d.row \in Nat
    BY <1>4, ScreenTypes DEF Clean, Inside
<1>6. /\ e \in Screens /\ e.cell = d.cell /\ e.row = d.row /\ e.column = d.column
      /\ e.inputRow = d.row /\ e.visible = d.visible /\ e.saved = d.saved
    BY <1>5 DEF Screens
<1> HIDE DEF e
<1>7. Clean(e) /\ Inside(e) /\ e.inputRow \in Top .. Bottom
    BY <1>4, <1>5, <1>6 DEF Clean, Inside
<1>8. Whole(e)
    BY <1>7, CleanWhole
<1>9. <<>> \in Lines /\ Len(<<>>) = 0
    BY EmptySeq, ShellAssumption DEF Lines
<1>10. 0 \in 0 .. Len(<<>>)
    BY <1>9
<1>11. Rendered(RenderInput(e, <<>>, 0), <<>>, 0)
    BY <1>7, <1>8, <1>9, <1>10, RenderFacts
<1>12. QED
    BY <1>2, <1>11

\* show_splash
LEMMA SplashWhole ==
    ASSUME NEW c \in Screens, c.saved # Cursor
    PROVE  Whole(ShowSplash(c))
<1> DEFINE f == [p \in Cells |-> IF p \in Area THEN Space ELSE Frame]
           d == [c EXCEPT !.cell = f, !.row = Top, !.column = Left, !.inputRow = 0,
                          !.visible = FALSE]
<1>1. f \in [Cells -> Chars] /\ \A p \in Cells : f[p] = IF p \in Area THEN Space ELSE Frame
    BY CharFacts
<1>2. ShowSplash(c) = d
    BY DEF ShowSplash
<1> HIDE DEF f
<1>3. /\ d \in Screens /\ d.cell = f /\ d.row = Top /\ d.column = Left
      /\ d.visible = FALSE /\ d.saved = c.saved
    BY <1>1, Layout DEF Screens
<1> HIDE DEF d
<1>4. Clean(d)
    BY <1>1, <1>3, CharFacts DEF Clean
<1>5. Inside(d)
    BY <1>3, Layout DEF Inside
<1>6. QED
    BY <1>2, <1>4, <1>5, CleanWhole

\* The panic screen is drawn over everything, also over the cursor.
LEMMA PanicPanicked ==
    ASSUME NEW c \in Screens, c.saved # Cursor
    PROVE  Panicked(ShowPanicScreen(c))
<1> DEFINE f == [p \in Cells |-> "panic"]
           d == [c EXCEPT !.cell = f, !.row = Bottom, !.column = Left, !.inputRow = 0,
                          !.visible = FALSE]
<1>1. \A p \in Cells : f[p] # Cursor
    BY CharFacts
<1>2. ShowPanicScreen(c) = d
    BY DEF ShowPanicScreen
<1> HIDE DEF f
<1>3. d.cell = f /\ d.visible = FALSE /\ d.saved = c.saved
    BY DEF Screens
<1> HIDE DEF d
<1>4. QED
    BY <1>1, <1>2, <1>3 DEF Panicked

LEMMA SInvInit == TerminalInit => SInv
<1> SUFFICES ASSUME TerminalInit PROVE SInv
    OBVIOUS
<1> DEFINE c == [cell |-> [p \in Cells |-> Space], row |-> 0, column |-> 0, inputRow |-> 0,
                 visible |-> FALSE, saved |-> Space]
<1>1. c \in Screens /\ c.saved # Cursor
    BY CharFacts DEF Screens
<1>2. Booted = ShowSplash(c)
    BY DEF Booted
<1> HIDE DEF c
<1>3. Whole(Booted)
    BY <1>1, <1>2, SplashWhole
<1>4. Rendered(con, <<>>, 0)
    BY <1>3, StartPromptFacts DEF TerminalInit
<1>5. mode = "edit" /\ cursor = 0 /\ len = 0
    BY DEF TerminalInit, Init
<1>6. Line = <<>>
    BY <1>5, SubSeqEmpty DEF Line
<1>7. QED
    BY <1>4, <1>5, <1>6, RenderedDepicted DEF SInv

LEMMA SInvStep ==
    ASSUME EInv, EInv', SInv, [TerminalNext]_allVars
    PROVE  SInv'
<1>1. CASE Edit
    <2>1. mode = "edit" /\ mode' = mode /\ con' = RenderInput(con, Line', cursor')
        BY <1>1 DEF Edit
    <2>2. Whole(con) /\ con.inputRow \in Top .. Bottom
        BY <2>1 DEF SInv, Depicted
    <2>3. Line' \in Lines /\ cursor' \in 0 .. Len(Line')
        <3>1. /\ input' \in [1 .. InputSize -> Bytes] /\ len' \in 0 .. InputSize
              /\ cursor' \in 0 .. len'
            BY DEF EInv
        <3> DEFINE a == input'
                   n == len'
        <3> HIDE DEF a, n
        <3>2. SubSeq(a, 1, n) \in Lines /\ Len(SubSeq(a, 1, n)) = n
            BY <3>1, LineFacts DEF a, n
        <3>3. Line' = SubSeq(a, 1, n)
            BY DEF Line, a, n
        <3>4. QED
            BY <3>1, <3>2, <3>3 DEF n
    <2>4. Rendered(con', Line', cursor')
        <3> DEFINE t == Line'
                   i == cursor'
        <3>1. t \in Lines /\ i \in 0 .. Len(t) /\ con' = RenderInput(con, t, i)
            BY <2>1, <2>3
        <3> HIDE DEF t, i
        <3>2. Rendered(con', t, i)
            BY <2>2, <3>1, RenderFacts
        <3>3. QED
            BY <3>2 DEF t, i
    <2>5. Whole(con') /\ Depicted(con', Line', cursor')
        BY <2>4, RenderedDepicted
    <2>6. QED
        BY <2>1, <2>5 DEF SInv
<1>2. CASE PressEnter
    <2>1. mode = "edit" /\ mode' = "run" /\ con' = WriteByte(con, Newline)
        BY <1>2 DEF PressEnter
    <2>2. Newline # Cursor /\ Whole(con)
        BY <2>1 DEF Newline, Cursor, SInv
    <2>3. Whole(con')
        BY <2>1, <2>2, WriteByteWhole
    <2>4. QED
        BY <2>1, <2>3 DEF SInv
<1>3. CASE CommandWrites
    <2>1. mode = "run" /\ mode' = "run" /\ Whole(con)
        BY <1>3 DEF CommandWrites, SInv
    <2>2. PICK byte \in Output \cup {Newline} : con' = WriteByte(con, byte)
        BY <1>3 DEF CommandWrites
    <2>3. byte \in Chars \cup {Newline} /\ byte # Cursor
        BY <2>2, CharFacts DEF Newline, Cursor
    <2>4. Whole(con')
        BY <2>1, <2>2, <2>3, WriteByteWhole
    <2>5. QED
        BY <2>1, <2>4 DEF SInv
<1>4. CASE CommandClears
    <2>1. mode = "run" /\ mode' = "run" /\ Whole(con) /\ con' = ShowSplash(con)
        BY <1>4 DEF CommandClears, SInv
    <2>2. Whole(con')
        BY <2>1, WholeFacts, SplashWhole
    <2>3. QED
        BY <2>1, <2>2 DEF SInv
<1>5. CASE CommandEnds
    <2>1. /\ mode = "run" /\ mode' = "edit" /\ Whole(con) /\ con' = StartPrompt(con)
          /\ len' = 0 /\ cursor' = 0
        BY <1>5 DEF CommandEnds, SInv, Clear
    <2>2. Line' = <<>>
        BY <2>1, SubSeqEmpty DEF Line
    <2>3. Rendered(con', <<>>, 0)
        BY <2>1, StartPromptFacts
    <2>4. QED
        BY <2>1, <2>2, <2>3, RenderedDepicted DEF SInv
<1>6. CASE Timer
    <2>1. /\ mode \in {"edit", "run"} /\ mode' = mode /\ Whole(con) /\ con' = ToggleCursor(con)
          /\ Line' = Line /\ cursor' = cursor
        BY <1>6 DEF Timer, SInv, vars, Line
    <2>2. /\ Whole(con') /\ con'.row = con.row /\ con'.column = con.column
          /\ con'.inputRow = con.inputRow
          /\ \A p \in Cells : HideCursor(con').cell[p] = HideCursor(con).cell[p]
        BY <2>1, ToggleWhole
    <2>3. ASSUME mode = "edit" PROVE Depicted(con', Line, cursor)
        <3>1. Depicted(con, Line, cursor)
            BY <2>3 DEF SInv
        <3>2. \A p \in Area : HideCursor(con').cell[p] = HideCursor(con).cell[p]
            BY <2>2, Layout
        <3>3. QED
            BY <2>2, <3>1, <3>2 DEF Depicted
    <2>4. QED
        BY <2>1, <2>2, <2>3 DEF SInv
<1>7. CASE Halt
    <2>1. mode' = "halted" /\ Whole(con) /\ con' = ShowPanicScreen(con)
        BY <1>7 DEF Halt, SInv
    <2>2. Panicked(con')
        BY <2>1, WholeFacts, PanicPanicked
    <2>3. QED
        BY <2>1, <2>2 DEF SInv
<1>8. CASE UNCHANGED <<vars, con, mode>>
    BY <1>8 DEF SInv, vars, Line
<1>9. QED
    BY <1>1, <1>2, <1>3, <1>4, <1>5, <1>6, <1>7, <1>8
    DEF TerminalNext, TakeKey, Ignore, Panic, KernelException, allVars

\* Every step of the shell and of the timer leaves the screen in order, and
\* while a line is edited in agreement with the editor.
THEOREM TerminalInvariant == TerminalSpec => [](EInv /\ KeyGood /\ SInv)
<1>1. TerminalInit => EInv /\ KeyGood /\ SInv
    BY EInvInit, SInvInit
<1>2. EInv /\ KeyGood /\ SInv /\ [TerminalNext]_allVars => (EInv /\ KeyGood /\ SInv)'
    BY EInvStep, KeyGoodStep, SInvStep
<1>3. QED
    BY <1>1, <1>2, PTL DEF TerminalSpec

\* hide_cursor, show_cursor, write_byte, scroll_console_up and the panic
\* screen: the blinking cursor is in one cell, the writer's own, and only
\* while it is visible; what it covers is put back; and the frame is never
\* drawn over but by the panic screen.
THEOREM ScreenStaysIntact == TerminalSpec => []ScreenIntact
<1>1. ASSUME SInv PROVE ScreenIntact
    <2>1. CASE mode = "halted"
        BY <1>1, <2>1 DEF SInv, Panicked, ScreenIntact
    <2>2. CASE mode # "halted"
        <3>1. Whole(con)
            BY <1>1, <2>2 DEF SInv
        <3>2. QED
            BY <2>2, <3>1, WholeFacts DEF ScreenIntact
    <2>3. QED
        BY <2>1, <2>2
<1>2. QED
    BY <1>1, TerminalInvariant, PTL

\* The place of the i-th byte of an input that begins in row r.
PlaceOf(r, i) == <<r + (i - 1) \div InputColumns, Left + 2 + ((i - 1) % InputColumns)>>

LEMMA PlaceFacts ==
    ASSUME NEW r \in Top .. Bottom, NEW n \in Nat, r + n \div InputColumns <= Bottom,
           NEW i \in 1 .. n
    PROVE  /\ PlaceOf(r, i) \in Area /\ PlaceOf(r, i)[1] >= r
           /\ PlaceOf(r, i)[1] <= r + n \div InputColumns
           /\ PlaceOf(r, i)[2] >= Left + 2
           /\ ByteAt(r, PlaceOf(r, i)) = i
<1> DEFINE m == i - 1
           a == m \div InputColumns
           b == m % InputColumns
           k == n \div InputColumns
           p == PlaceOf(r, i)
<1>1. m \in Nat /\ m <= n
    OBVIOUS
<1>2. p[1] = r + a /\ p[2] = Left + 2 + b /\ p = <<p[1], p[2]>>
    BY DEF PlaceOf
<1>3. ByteAt(r, p) = (p[1] - r) * InputColumns + (p[2] - Left - 2) + 1
    BY DEF ByteAt
<1>4. i = m + 1
    OBVIOUS
<1> HIDE DEF m, p
<1>5. /\ a \in Nat /\ b \in 0 .. InputColumns - 1 /\ m = a * InputColumns + b /\ a <= k
    BY <1>1, RowsMonotonic
<1>6. k \in Nat
    BY RowsMonotonic
<1> HIDE DEF a, b, k
<1>7. r + k <= Bottom
    BY DEF k
<1>8. p[1] \in Top .. Bottom /\ p[1] >= r /\ p[1] <= r + k
    BY <1>2, <1>5, <1>6, <1>7, Layout
<1>9. p[2] \in Left .. Right /\ p[2] >= Left + 2
    BY <1>2, <1>5, Layout
<1>10. p \in Area
    BY <1>2, <1>8, <1>9, Layout
<1>11. p[1] - r = a /\ p[2] - Left - 2 = b
    BY <1>2, <1>5, Layout
<1>12. ByteAt(r, p) = i
    BY <1>3, <1>4, <1>5, <1>11
<1>13. QED
    BY <1>8, <1>9, <1>10, <1>12 DEF p, k

\* What the screen shows, cell by cell, of an input that begins in row r.
Shows(c, text, index, r) ==
    /\ r .. r + Len(text) \div InputColumns \subseteq Top .. Bottom
    /\ \A i \in 1 .. Len(text) : HideCursor(c).cell[PlaceOf(r, i)] = text[i]
    /\ <<c.row, c.column>> = PlaceOf(r, index + 1)
    /\ \A p \in Area : p[1] >= r =>
          IF p[2] < Left + 2
          THEN HideCursor(c).cell[p] =
                 (IF p[1] \in r .. r + Len(text) \div InputColumns THEN Prompt ELSE Space)
          ELSE (\A i \in 1 .. Len(text) : p # PlaceOf(r, i)) => HideCursor(c).cell[p] = Space

LEMMA DepictedCells ==
    ASSUME NEW c, NEW text \in Lines, NEW index \in 0 .. Len(text), Depicted(c, text, index),
           NEW r, r = c.inputRow
    PROVE  Shows(c, text, index, r)
<1> DEFINE n == Len(text)
           k == n \div InputColumns
           s == HideCursor(c).cell
<1>1. n \in Nat /\ r \in Top .. Bottom /\ r \in Nat /\ k \in Nat /\ r + k <= Bottom
    <2>1. n \in Nat
        BY LenProperties DEF Lines
    <2>2. r \in Top .. Bottom /\ r + k <= Bottom
        BY DEF Depicted
    <2>3. k \in Nat
        BY <2>1, RowsMonotonic
    <2>4. QED
        BY <2>1, <2>2, <2>3, Layout
<1>2. \A p \in Area : p[1] >= r => s[p] = Drawn(r, text, p)
    BY DEF Depicted
<1>3. <<c.row, c.column>> = PlaceOf(r, index + 1)
    <2>1. (index + 1) - 1 = index
        BY <1>1
    <2>2. c.row = r + index \div InputColumns /\ c.column = Left + 2 + (index % InputColumns)
        BY DEF Depicted
    <2>3. QED
        BY <2>1, <2>2 DEF PlaceOf
<1> HIDE DEF s
<1>4. ASSUME NEW i \in 1 .. n PROVE s[PlaceOf(r, i)] = text[i]
    <2> DEFINE p == PlaceOf(r, i)
    <2>1. /\ p \in Area /\ p[1] >= r /\ p[1] <= r + k /\ p[2] >= Left + 2 /\ ByteAt(r, p) = i
        BY <1>1, PlaceFacts
    <2> HIDE DEF p
    <2>2. p[1] \in Int /\ p[2] \in Int /\ Left \in Int
        BY <2>1, Layout DEF Area
    <2>3. ~ (p[1] > r + k) /\ ~ (p[2] < Left + 2) /\ i <= n
        <3> HIDE DEF k, n
        <3>1. QED
            BY <1>1, <2>1, <2>2
    <2>4. Drawn(r, text, p) = text[i]
        BY <2>1, <2>3 DEF Drawn
    <2>5. QED
        BY <1>2, <2>1, <2>4 DEF p
<1>5. ASSUME NEW p \in Area, p[1] >= r, p[2] < Left + 2
      PROVE  s[p] = IF p[1] \in r .. r + k THEN Prompt ELSE Space
    <2>1. p[1] \in Int
        BY Layout DEF Area
    <2>2. p[1] \in r .. r + k <=> ~ (p[1] > r + k)
        <3> HIDE DEF k
        <3>1. QED
            BY <1>1, <1>5, <2>1
    <2>3. QED
        BY <1>2, <1>5, <2>2 DEF Drawn
<1>6. ASSUME NEW p \in Area, p[1] >= r, ~ (p[2] < Left + 2),
             \A i \in 1 .. n : p # PlaceOf(r, i)
      PROVE  s[p] = Space
    <2>1. p[2] \in Int /\ Left \in Int /\ p = <<p[1], p[2]>>
        BY Layout DEF Area
    <2>2. p[2] >= Left + 2
        BY <1>6, <2>1
    <2> DEFINE i == ByteAt(r, p)
    <2>3. /\ i \in Nat \ {0}
          /\ r + (i - 1) \div InputColumns = p[1]
          /\ Left + 2 + ((i - 1) % InputColumns) = p[2]
        BY <1>1, <1>6, <2>2, ByteAtFacts
    <2>4. p = PlaceOf(r, i)
        BY <2>1, <2>3 DEF PlaceOf
    <2> HIDE DEF i
    <2>5. ~ (i <= n)
        <3> HIDE DEF n
        <3>1. QED
            BY <1>1, <1>6, <2>3, <2>4
    <2>6. Drawn(r, text, p) = Space
        BY <1>6, <2>5 DEF Drawn, i
    <2>7. QED
        BY <1>2, <1>6, <2>6
<1>7. r .. r + k \subseteq Top .. Bottom
    <2> HIDE DEF k
    <2>1. QED
        BY <1>1, Layout
<1>8. QED
    BY <1>3, <1>4, <1>5, <1>6, <1>7 DEF s, Shows

\* render_input_with_cursor under the timer: while a line is edited, the
\* screen shows the line behind its prompts and nothing else from input_row
\* on, inside the console, with the writer at the place of the editor's
\* cursor, for every length of line that the console has rows for.
THEOREM InputIsShown == TerminalSpec => []InputShown
<1>1. ASSUME EInv, SInv PROVE InputShown
    <2> SUFFICES ASSUME mode = "edit"
                 PROVE  InputShown
        BY DEF InputShown
    <2> DEFINE r == con.inputRow
    <2>1. /\ Line \in Lines /\ Len(Line) = len /\ cursor \in 0 .. Len(Line)
          /\ \A i \in 1 .. len : Line[i] = input[i]
        BY <1>1, LineFacts DEF EInv, Line
    <2>2. Depicted(con, Line, cursor)
        BY <1>1 DEF SInv
    <2>3. /\ r .. r + len \div InputColumns \subseteq Top .. Bottom
          /\ \A i \in 1 .. len : HideCursor(con).cell[PlaceOf(r, i)] = Line[i]
          /\ <<con.row, con.column>> = PlaceOf(r, cursor + 1)
          /\ \A p \in Area : p[1] >= r =>
                IF p[2] < Left + 2
                THEN HideCursor(con).cell[p] =
                       (IF p[1] \in r .. r + len \div InputColumns THEN Prompt ELSE Space)
                ELSE (\A i \in 1 .. len : p # PlaceOf(r, i)) => HideCursor(con).cell[p] = Space
        <3>1. Shows(con, Line, cursor, r)
            <4> HIDE DEF r
            <4>1. r = con.inputRow
                BY DEF r
            <4>2. QED
                BY <2>1, <2>2, <4>1, DepictedCells
        <3>2. QED
            BY <2>1, <3>1 DEF Shows
    <2>4. QED
        BY <2>1, <2>3 DEF InputShown, Shown, PlaceOf
<1>2. QED
    BY <1>1, TerminalInvariant, PTL
=============================================================================
