---------------------------- MODULE OutputProofs -----------------------------
(***************************************************************************)
(* For any number of calls and interrupts no flow spins on a lock, no      *)
(* message on the serial line is broken up, and the screen shows the tail  *)
(* of what was printed.                                                    *)
(***************************************************************************)
EXTENDS Output, Integers, TLAPS

-----------------------------------------------------------------------------
(* The screen.                                                             *)

Line == [text : Seq(Cell), blank : Colors]

\* What the screen shows of a history.
View(ls) == [row \in Rows |-> Displayed(ls[Len(ls) - BUFFER_HEIGHT + row])]

\* The column is where the last line of the history ends.
ScreenInv ==
    /\ lines \in Seq(Line) /\ color_code \in Colors
    /\ Len(lines) >= BUFFER_HEIGHT
    /\ column_position = Len(lines[Len(lines)].text) /\ column_position <= BUFFER_WIDTH
    /\ chars = View(lines)

\* One more line scrolls the view up.
LEMMA ViewScrolls ==
    ASSUME NEW ls \in Seq(Line), Len(ls) >= BUFFER_HEIGHT, NEW a \in Line
    PROVE  View(Append(ls, a)) =
               [row \in Rows |-> IF row < BUFFER_HEIGHT THEN View(ls)[row + 1] ELSE Displayed(a)]
  <1> DEFINE n == Len(ls)
             t == Append(ls, a)
  <1>1. n \in Nat /\ BUFFER_HEIGHT \in Nat /\ n >= BUFFER_HEIGHT /\ BUFFER_HEIGHT # 0
    BY ConsoleAssumption
  <1>2. Len(t) = n + 1 /\ t[n + 1] = a /\ \A k \in 1 .. n : t[k] = ls[k]
    OBVIOUS
  <1> HIDE DEF n, t
  <1>3. ASSUME NEW row \in Rows
        PROVE  View(t)[row] = IF row < BUFFER_HEIGHT THEN View(ls)[row + 1] ELSE Displayed(a)
    <2>1. row \in Nat /\ row >= 1 /\ row <= BUFFER_HEIGHT
      BY <1>1 DEF Rows
    <2>2. View(t)[row] = Displayed(t[(n + 1) - BUFFER_HEIGHT + row])
      BY <1>2 DEF View
    <2>3. CASE row < BUFFER_HEIGHT
      <3>1. row + 1 \in Rows
        BY <1>1, <2>1, <2>3 DEF Rows
      <3>2. View(ls)[row + 1] = Displayed(ls[n - BUFFER_HEIGHT + (row + 1)])
        BY <3>1 DEF View, n
      <3>3. (n + 1) - BUFFER_HEIGHT + row = n - BUFFER_HEIGHT + (row + 1)
            /\ (n + 1) - BUFFER_HEIGHT + row \in 1 .. n
        BY <1>1, <2>1, <2>3
      <3>4. QED
        BY <1>2, <2>2, <2>3, <3>2, <3>3
    <2>4. CASE row = BUFFER_HEIGHT
      <3>1. (n + 1) - BUFFER_HEIGHT + row = n + 1 /\ ~ (row < BUFFER_HEIGHT)
        BY <1>1, <2>4
      <3>2. QED
        BY <1>2, <2>2, <3>1
    <2>5. QED
      BY <1>1, <2>1, <2>3, <2>4
  <1>4. View(t) = [row \in Rows |-> View(t)[row]]
    BY DEF View
  <1>5. View(t) = [row \in Rows |-> IF row < BUFFER_HEIGHT THEN View(ls)[row + 1] ELSE Displayed(a)]
    BY <1>3, <1>4
  <1>6. QED
    BY <1>5 DEF t

\* A change of the last line changes the bottom row.
LEMMA ViewOfLast ==
    ASSUME NEW ls \in Seq(Line), NEW n, n = Len(ls), n >= BUFFER_HEIGHT,
           NEW t \in Seq(Line), Len(t) = n, \A k \in 1 .. n : k # n => t[k] = ls[k]
    PROVE  /\ View(t) = [View(ls) EXCEPT ![BUFFER_HEIGHT] = Displayed(t[n])]
           /\ View(ls)[BUFFER_HEIGHT] = Displayed(ls[n])
  <1>1. n \in Nat /\ BUFFER_HEIGHT \in Nat /\ BUFFER_HEIGHT # 0
    BY ConsoleAssumption
  <1>2. n \in 1 .. n /\ BUFFER_HEIGHT \in Rows /\ (n - BUFFER_HEIGHT) + BUFFER_HEIGHT = n
    BY <1>1 DEF Rows
  <1>3. View(ls)[BUFFER_HEIGHT] = Displayed(ls[n])
    BY <1>2 DEF View
  <1>4. ASSUME NEW row \in Rows
        PROVE  View(t)[row] = IF row = BUFFER_HEIGHT THEN Displayed(t[n]) ELSE View(ls)[row]
    <2>1. row \in Nat /\ row >= 1 /\ row <= BUFFER_HEIGHT
      BY <1>1 DEF Rows
    <2>2. View(t)[row] = Displayed(t[n - BUFFER_HEIGHT + row])
      BY DEF View
    <2>3. View(ls)[row] = Displayed(ls[n - BUFFER_HEIGHT + row])
      BY DEF View
    <2>4. row # BUFFER_HEIGHT =>
              n - BUFFER_HEIGHT + row \in 1 .. n /\ n - BUFFER_HEIGHT + row # n
      BY <1>1, <2>1
    <2>5. QED
      BY <1>2, <2>2, <2>3, <2>4
  <1>5. View(t) = [row \in Rows |-> View(t)[row]] /\ View(ls) = [row \in Rows |-> View(ls)[row]]
    BY DEF View
  <1>6. View(t) = [View(ls) EXCEPT ![BUFFER_HEIGHT] = Displayed(t[n])]
    BY <1>4, <1>5
  <1>7. QED
    BY <1>3, <1>6

\* The cell of a column of a line.
CellAt(t, n, c, col) == IF col <= n THEN t[col] ELSE [char |-> Space, color |-> c]

LEMMA DisplayedFacts ==
    ASSUME NEW line
    PROVE  /\ Displayed(line) = [col \in Cols |-> Displayed(line)[col]]
           /\ \A col \in Cols :
                  Displayed(line)[col] = CellAt(line.text, Len(line.text), line.blank, col)
  <1>1. Displayed(line) = [col \in Cols |-> CellAt(line.text, Len(line.text), line.blank, col)]
    BY DEF Displayed, CellAt
  <1>2. QED
    BY <1>1

\* An empty line shows blanks, and a cell is shown after the ones before it.
LEMMA EmptyShown ==
    ASSUME color_code \in Colors
    PROVE  EmptyLine(color_code) \in Line /\ Displayed(EmptyLine(color_code)) = Blanks
           /\ Len(EmptyLine(color_code).text) = 0
  <1>1. EmptyLine(color_code).text = <<>> /\ EmptyLine(color_code).blank = color_code
    BY DEF EmptyLine
  <1>2. EmptyLine(color_code) \in Line
    <2> DEFINE z == <<>>
    <2>1. z \in Seq(Cell)
      OBVIOUS
    <2> HIDE DEF z
    <2>2. [text |-> z, blank |-> color_code] \in Line
      BY <2>1 DEF Line
    <2>3. QED
      BY <2>2 DEF EmptyLine, z
  <1>3. \A col \in Cols : ~ (col <= 0)
    BY ConsoleAssumption DEF Cols
  <1>4. QED
    BY <1>1, <1>2, <1>3 DEF Displayed, Blanks

\* A line with one more cell.
Grown(a, x) == [a EXCEPT !.text = Append(@, x)]

LEMMA CellShown ==
    ASSUME NEW a \in Line, NEW n, n = Len(a.text), n < BUFFER_WIDTH, NEW x \in Cell,
           NEW i, i = n + 1
    PROVE  /\ Grown(a, x) \in Line /\ Len(Grown(a, x).text) = i /\ i <= BUFFER_WIDTH
           /\ Displayed(Grown(a, x)) = [Displayed(a) EXCEPT ![i] = x]
  <1> DEFINE t == Append(a.text, x)
             b == Grown(a, x)
  <1>1. a.text \in Seq(Cell) /\ a.blank \in Colors
    BY DEF Line
  <1>2. /\ n \in Nat /\ t \in Seq(Cell) /\ Len(t) = i /\ t[i] = x
        /\ \A k \in 1 .. n : t[k] = a.text[k]
    BY <1>1
  <1>3. b \in Line /\ b.text = t /\ b.blank = a.blank
    BY <1>1, <1>2 DEF Line, Grown
  <1>4. BUFFER_WIDTH \in Nat
    BY ConsoleAssumption
  <1> HIDE DEF t, b
  <1>5. i \in Cols /\ i <= BUFFER_WIDTH
    BY <1>2, <1>4 DEF Cols
  <1>6. ASSUME NEW col \in Cols
        PROVE  Displayed(b)[col] = IF col = i THEN x ELSE Displayed(a)[col]
    <2>1. col \in Nat /\ col >= 1
      BY <1>4 DEF Cols
    <2>2. Displayed(b)[col] = CellAt(t, i, a.blank, col)
      BY <1>2, <1>3, DisplayedFacts
    <2>3. Displayed(a)[col] = CellAt(a.text, n, a.blank, col)
      BY DisplayedFacts
    <2>4. col <= i <=> col <= n \/ col = i
      BY <1>2, <2>1
    <2>5. col <= n => col \in 1 .. n /\ col # i
      BY <1>2, <2>1
    <2>6. QED
      BY <1>2, <2>2, <2>3, <2>4, <2>5, Zenon DEF CellAt
  <1>7. /\ Displayed(b) = [col \in Cols |-> Displayed(b)[col]]
        /\ Displayed(a) = [col \in Cols |-> Displayed(a)[col]]
    BY DisplayedFacts
  <1>8. Displayed(b) = [Displayed(a) EXCEPT ![i] = x]
    BY <1>6, <1>7
  <1>9. QED
    BY <1>2, <1>3, <1>5, <1>8 DEF b

\* new_line keeps the screen the tail of the history.
LEMMA NewLineKeeps ==
    ASSUME ScreenInv, NEW ls, ls = Append(lines, EmptyLine(color_code)),
           NEW w, w = NewLine(Screen)
    PROVE  /\ ls \in Seq(Line) /\ Len(ls) >= BUFFER_HEIGHT /\ Len(ls) = Len(lines) + 1
           /\ w.column = Len(ls[Len(ls)].text) /\ w.column = 0
           /\ ls[Len(ls)] = EmptyLine(color_code)
           /\ w.chars = View(ls)
  <1> DEFINE e == EmptyLine(color_code)
             n == Len(lines)
  <1>1. e \in Line /\ Displayed(e) = Blanks /\ Len(e.text) = 0
    BY EmptyShown DEF ScreenInv
  <1>2. lines \in Seq(Line) /\ n >= BUFFER_HEIGHT /\ chars = View(lines)
    BY DEF ScreenInv
  <1>3. n \in Nat /\ BUFFER_HEIGHT \in Nat
    BY <1>2, ConsoleAssumption
  <1> HIDE DEF e
  <1>4. ls \in Seq(Line) /\ Len(ls) = n + 1 /\ ls[n + 1] = e
    BY <1>1, <1>2 DEF e
  <1>5. Len(ls) >= BUFFER_HEIGHT
    <2> HIDE DEF n
    <2> QED
      BY <1>2, <1>3, <1>4
  <1>6. w.chars = [row \in Rows |-> IF row < BUFFER_HEIGHT THEN chars[row + 1] ELSE Blanks]
        /\ w.column = 0
    BY DEF NewLine, Screen
  <1>7. View(ls) = [row \in Rows |-> IF row < BUFFER_HEIGHT THEN View(lines)[row + 1] ELSE Displayed(e)]
    BY <1>1, <1>2, ViewScrolls DEF e
  <1>8. w.chars = View(ls)
    BY <1>1, <1>2, <1>6, <1>7
  <1>9. QED
    BY <1>1, <1>4, <1>5, <1>6, <1>8 DEF e

\* A character put after the last one of a line that has room.
Inked(ch) == [char |-> ch, color |-> color_code]

LEMMA PutKeeps ==
    ASSUME NEW ls \in Seq(Line), NEW n, n = Len(ls), n >= BUFFER_HEIGHT, ls[n] \in Line,
           NEW w, w.column = Len(ls[n].text), w.column < BUFFER_WIDTH, w.chars = View(ls),
           NEW ch, Inked(ch) \in Cell,
           NEW t \in Seq(Line), Len(t) = n, t[n] = Grown(ls[n], Inked(ch)),
           \A k \in 1 .. n : k # n => t[k] = ls[k]
    PROVE  /\ Put(w, ch).column = Len(t[n].text) /\ Put(w, ch).column <= BUFFER_WIDTH
           /\ Put(w, ch).chars = View(t)
  <1>1. PICK a : a = ls[n]
    OBVIOUS
  <1>2. PICK k : k = Len(a.text)
    BY Zenon
  <1>3. PICK i : i = k + 1
    OBVIOUS
  <1>4. PICK x : x = Inked(ch)
    OBVIOUS
  <1>5. a \in Line /\ t[n] = Grown(a, x) /\ w.column = k /\ k < BUFFER_WIDTH /\ x \in Cell
    BY <1>1, <1>2, <1>4, Zenon
  <1>6. /\ Len(Grown(a, x).text) = i /\ i <= BUFFER_WIDTH
        /\ Displayed(Grown(a, x)) = [Displayed(a) EXCEPT ![i] = x]
    BY <1>2, <1>3, <1>5, CellShown
  <1>7. /\ Put(w, ch).chars =
               [View(ls) EXCEPT ![BUFFER_HEIGHT] = [View(ls)[BUFFER_HEIGHT] EXCEPT ![i] = x]]
        /\ Put(w, ch).column = i
    BY <1>3, <1>4, <1>5 DEF Put, Inked
  <1>8. /\ View(t) = [View(ls) EXCEPT ![BUFFER_HEIGHT] = Displayed(Grown(a, x))]
        /\ View(ls)[BUFFER_HEIGHT] = Displayed(a)
    BY <1>1, <1>5, ViewOfLast
  <1>9. QED
    BY <1>5, <1>6, <1>7, <1>8

\* One more byte, which breaks the line first if it is full.
LEMMA PrintKeeps ==
    ASSUME ScreenInv, NEW byte \in Printable \cup Other \cup {Newline}, PrintByte(byte)
    PROVE  ScreenInv'
  <1> DEFINE ch == Shown(byte)
             e == EmptyLine(color_code)
             n == Len(lines)
  <1>1. /\ chars' = Written(Screen, ch).chars /\ column_position' = Written(Screen, ch).column
        /\ lines' = Recorded(byte) /\ color_code' = color_code
    BY DEF PrintByte
  <1>2. /\ lines \in Seq(Line) /\ n >= BUFFER_HEIGHT /\ chars = View(lines) /\ color_code \in Colors
        /\ column_position = Len(lines[n].text) /\ column_position <= BUFFER_WIDTH
    BY DEF ScreenInv
  <1>3. /\ byte = Newline => ch = Newline
        /\ byte # Newline => ch \in Printable \cup {Block} /\ ch # Newline
    BY ConsoleAssumption DEF Shown, Newline, Block
  <1>4. Screen.column = column_position /\ Screen.chars = chars
    BY DEF Screen
  <1>5. BUFFER_WIDTH \in Nat \ {0} /\ BUFFER_HEIGHT \in Nat /\ n \in Nat
    BY <1>2, ConsoleAssumption
  <1> HIDE DEF ch
  <1>6. CASE byte = Newline
    <2>1. chars' = NewLine(Screen).chars /\ column_position' = NewLine(Screen).column
      BY <1>1, <1>3, <1>6 DEF Written
    <2>2. lines' = Append(lines, e)
      BY <1>1, <1>6 DEF Recorded
    <2>3. /\ lines' \in Seq(Line) /\ Len(lines') >= BUFFER_HEIGHT
          /\ column_position' = Len(lines'[Len(lines')].text) /\ column_position' = 0
          /\ chars' = View(lines')
      BY <2>1, <2>2, NewLineKeeps, Zenon
    <2>4. QED
      BY <1>1, <1>2, <1>5, <2>3 DEF ScreenInv, View, Displayed
  <1>7. byte # Newline => Inked(ch) \in Cell
    BY <1>2, <1>3 DEF Cell, Inked
  <1>8. n \in 1 .. n /\ lines[n] \in Line
    <2>1. n \in 1 .. n
      BY <1>2, <1>5, ConsoleAssumption
    <2>2. QED
      BY <1>2, <2>1
  <1>9. CASE byte # Newline /\ column_position = BUFFER_WIDTH
    <2>1. PICK x \in Cell : x = Inked(ch)
      BY <1>7, <1>9
    <2>2. PICK ls : ls = Append(lines, e)
      BY Zenon
    <2>3. PICK w : w = NewLine(Screen)
      OBVIOUS
    <2>4. PICK m : m = n + 1
      OBVIOUS
    <2>5. /\ ls \in Seq(Line) /\ m >= BUFFER_HEIGHT /\ Len(ls) = m
          /\ w.column = Len(ls[m].text) /\ w.column = 0
          /\ ls[m] = e /\ w.chars = View(ls)
      BY <2>2, <2>3, <2>4, NewLineKeeps, Zenon
    <2>6. chars' = Put(w, ch).chars /\ column_position' = Put(w, ch).column
      <3>1. Wrapped(Screen) = w
        BY <1>4, <1>5, <1>9, <2>3 DEF Wrapped
      <3>2. QED
        BY <1>1, <1>3, <1>9, <3>1 DEF Written
    <2>7. PICK b : b = [text |-> <<x>>, blank |-> color_code]
      BY Zenon
    <2>8. lines' = Append(lines, b)
      BY <1>1, <1>2, <1>9, <2>1, <2>7 DEF Recorded, Inked, ch
    <2>9. b = Grown(e, x)
      BY <2>7 DEF EmptyLine, Grown
    <2>10. e \in Line /\ Len(e.text) = 0
      BY <1>2, EmptyShown
    <2> HIDE DEF e
    <2>11. b \in Line
      <3>1. e.text \in Seq(Cell)
        BY <2>10 DEF Line
      <3>2. Append(e.text, x) \in Seq(Cell)
        BY <3>1
      <3>3. QED
        BY <2>9, <2>10, <3>2 DEF Grown, Line
    <2>12. /\ lines' \in Seq(Line) /\ Len(lines') = m /\ lines'[m] = b
           /\ \A k \in 1 .. n : lines'[k] = lines[k] /\ ls[k] = lines[k]
      BY <1>2, <2>2, <2>4, <2>8, <2>10, <2>11
    <2>13. \A k \in 1 .. m : k # m => lines'[k] = ls[k]
      <3>1. \A k \in 1 .. m : k # m => k \in 1 .. n
        <4> HIDE DEF n
        <4> QED
          BY <1>5, <2>4
      <3>2. QED
        BY <2>12, <3>1
    <2>14. /\ column_position' = Len(lines'[m].text) /\ column_position' <= BUFFER_WIDTH
           /\ chars' = View(lines')
      <3>1. w.column < BUFFER_WIDTH
        BY <1>5, <2>5
      <3>2. lines'[m] = Grown(ls[m], Inked(ch)) /\ ls[m] \in Line /\ Inked(ch) \in Cell
        BY <2>1, <2>5, <2>9, <2>10, <2>12, Zenon
      <3>3. /\ Put(w, ch).column = Len(lines'[m].text) /\ Put(w, ch).column <= BUFFER_WIDTH
            /\ Put(w, ch).chars = View(lines')
        <4>1. PICK t : t = lines'
          OBVIOUS
        <4>2. /\ t \in Seq(Line) /\ Len(t) = m /\ t[m] = Grown(ls[m], Inked(ch))
              /\ \A k \in 1 .. m : k # m => t[k] = ls[k]
          BY <2>12, <2>13, <3>2, <4>1, Zenon
        <4>3. /\ ls \in Seq(Line) /\ m = Len(ls) /\ m >= BUFFER_HEIGHT
              /\ w.column = Len(ls[m].text) /\ w.chars = View(ls)
          BY <2>5
        <4>4. ls[m] \in Line /\ Inked(ch) \in Cell
          BY <3>2
        <4>5. /\ Put(w, ch).column = Len(t[m].text) /\ Put(w, ch).column <= BUFFER_WIDTH
              /\ Put(w, ch).chars = View(t)
          BY <3>1, <4>2, <4>3, <4>4, PutKeeps
        <4>6. QED
          BY <4>1, <4>5
      <3>4. QED
        BY <2>6, <3>3
    <2>15. QED
      BY <1>1, <1>2, <2>5, <2>12, <2>14, Zenon DEF ScreenInv, View, Displayed
  <1>10. CASE byte # Newline /\ column_position # BUFFER_WIDTH
    <2>1. PICK x \in Cell : x = Inked(ch)
      BY <1>7, <1>10
    <2>2. column_position < BUFFER_WIDTH
      <3>1. column_position \in Nat
        BY <1>2, <1>8 DEF Line
      <3>2. QED
        BY <1>2, <1>5, <1>10, <3>1
    <2>3. PICK w : w = Screen
      OBVIOUS
    <2>4. chars' = Put(w, ch).chars /\ column_position' = Put(w, ch).column
      <3>1. Wrapped(Screen) = w
        BY <1>2, <1>4, <1>5, <2>2, <2>3 DEF Wrapped
      <3>2. QED
        BY <1>1, <1>3, <1>10, <3>1 DEF Written
    <2>5. PICK b : b = Grown(lines[n], x)
      OBVIOUS
    <2>6. lines' = [lines EXCEPT ![n] = b]
      BY <1>1, <1>2, <1>10, <2>1, <2>5 DEF Recorded, Inked, Grown, ch
    <2>7. b \in Line
      BY <1>2, <1>8, <2>2, <2>5, CellShown
    <2>8. /\ lines' \in Seq(Line) /\ Len(lines') = n /\ lines'[n] = b
          /\ \A k \in 1 .. n : k # n => lines'[k] = lines[k]
      BY <1>2, <1>8, <2>6, <2>7
    <2>9. /\ column_position' = Len(lines'[n].text) /\ column_position' <= BUFFER_WIDTH
          /\ chars' = View(lines')
      <3>1. PICK m : m = n
        BY Zenon
      <3>2. w.column = Len(lines[m].text) /\ w.column < BUFFER_WIDTH /\ w.chars = View(lines)
        BY <1>2, <1>4, <2>2, <2>3, <3>1
      <3>3. lines'[m] = Grown(lines[m], Inked(ch)) /\ Inked(ch) \in Cell
        BY <2>1, <2>5, <2>8, <3>1
      <3>4. /\ Put(w, ch).column = Len(lines'[m].text) /\ Put(w, ch).column <= BUFFER_WIDTH
            /\ Put(w, ch).chars = View(lines')
        BY <1>2, <1>8, <2>8, <3>1, <3>2, <3>3, PutKeeps
      <3>5. QED
        BY <2>4, <3>1, <3>4
    <2>10. QED
      BY <1>1, <1>2, <2>8, <2>9, Zenon DEF ScreenInv, View, Displayed
  <1>11. QED
    BY <1>6, <1>9, <1>10

LEMMA ScreenStep ==
    ASSUME ScreenInv, [Next]_vars
    PROVE  ScreenInv'
  <1>1. CASE UNCHANGED consoleVars
    BY <1>1, Zenon DEF consoleVars, ScreenInv, View, Displayed
  <1>2. CASE WriteFmt
    BY <1>2, PrintKeeps DEF WriteFmt
  <1>3. CASE WriteColor
    BY <1>3, Zenon DEF WriteColor, SetColor, ScreenInv, View, Displayed
  <1>4. QED
    BY <1>1, <1>2, <1>3 DEF Next, WriteFmtDone, WritePiece, BoundReached, vars

\* The screen shows the last lines of everything printed, however long the
\* kernel prints.
THEOREM ScreenStaysTail == Spec => []ScreenIsTailOfOutput
  <1>1. Init => ScreenInv
    <2>1. SUFFICES ASSUME Init PROVE ScreenInv
      OBVIOUS
    <2> DEFINE e == EmptyLine(color_code)
    <2>2. /\ color_code = Default /\ chars = [row \in Rows |-> Blanks]
          /\ column_position = 0 /\ lines = [row \in Rows |-> e]
      BY <2>1 DEF Init, ConsoleInit, Blanks
    <2>3. color_code \in Colors /\ BUFFER_HEIGHT \in Nat \ {0} /\ BUFFER_WIDTH \in Nat
      BY <2>2, ConsoleAssumption
    <2>4. e \in Line /\ Displayed(e) = Blanks /\ Len(e.text) = 0
      BY <2>3, EmptyShown
    <2> HIDE DEF e
    <2>5. lines \in Seq(Line) /\ Len(lines) = BUFFER_HEIGHT
      BY <2>2, <2>3, <2>4 DEF Rows
    <2>6. \A row \in Rows : row \in Nat /\ BUFFER_HEIGHT - BUFFER_HEIGHT + row = row
      BY <2>3 DEF Rows
    <2>7. BUFFER_HEIGHT \in Rows
      BY <2>3 DEF Rows
    <2>8. chars = View(lines)
      BY <2>2, <2>4, <2>5, <2>6 DEF View
    <2>9. QED
      BY <2>2, <2>3, <2>4, <2>5, <2>7, <2>8 DEF ScreenInv
  <1>2. ScreenInv /\ [Next]_vars => ScreenInv'
    BY ScreenStep
  <1>3. ScreenInv => ScreenIsTailOfOutput
    BY DEF ScreenInv, View, ScreenIsTailOfOutput
  <1>4. QED
    BY <1>1, <1>2, <1>3, PTL DEF Spec

-----------------------------------------------------------------------------
(* Legal code.  What a flow has still to do is judged from a context: what *)
(* it holds, how often it has masked interrupts, what it is initialising,  *)
(* and whether it has written half a message.                              *)

\* The boot thread before the first message and until interrupts are on, the
\* main flow after that, and a handler.
Modes == {"cold", "boot", "main", "irq"}

Kinds == {"cli", "sti", "lock", "unlock", "try", "force", "forced", "put", "print", "color",
          "panic?", "enable", "iret", "hlt"}

Steps == [do : Kinds, on : Mutex \cup {"cpu"}]

Context == [who : Modes, held : SUBSET Mutex, depth : Nat, forcing : SUBSET Statics, half : {0, 1}]

\* A mutex a handler takes is one the main flow holds with interrupts masked,
\* or before interrupts are on.
MayLock(l, c) ==
    IF c.who = "irq" THEN l \in {"WRITER", "PICS"}
    ELSE (l = "WRITER" => c.depth # 0) /\ (l = "PICS" => c.who = "boot")

MayForce(l, c) == c.who = "irq" \/ l = "SERIAL1" \/ c.depth # 0

Legal(a, c) ==
    /\ c.forcing = IF a.do = "forced" THEN {a.on} ELSE {}
    /\ a.do = "sti" => c.depth # 0 /\ "WRITER" \notin c.held
    /\ a.do = "lock" => a.on \in Mutex \ c.held /\ MayLock(a.on, c)
    /\ a.do = "unlock" => a.on \in c.held /\ (a.on = "SERIAL1" => c.half = 0)
    /\ a.do = "try" => a.on = "SERIAL1" /\ "SERIAL1" \notin c.held
    /\ a.do = "force" => a.on \in Statics /\ MayForce(a.on, c)
    /\ a.do = "put" => "SERIAL1" \in c.held
    /\ a.do \in {"print", "color"} => "WRITER" \in c.held
    /\ a.do = "panic?" => "WRITER" \notin c.held
    /\ a.do = "enable" => c.who = "boot" /\ c.held = {} /\ c.depth = 0
    /\ a.do = "iret" => c.who = "irq"

\* The first use of SERIAL1 is the boot thread's first message.
Warm(l, c) == IF l = "SERIAL1" /\ c.who = "cold" THEN "boot" ELSE c.who

\* The context after a step.
After(a, c) ==
    CASE a.do = "cli"    -> [c EXCEPT !.depth = @ + 1]
      [] a.do = "sti"    -> [c EXCEPT !.depth = @ - 1]
      [] a.do = "lock"   -> [c EXCEPT !.held = @ \cup {a.on}]
      [] a.do = "unlock" -> [c EXCEPT !.held = @ \ {a.on}]
      [] a.do = "force"  -> [c EXCEPT !.who = Warm(a.on, c)]
      [] a.do = "forced" -> [c EXCEPT !.who = Warm(a.on, c), !.forcing = {}]
      [] a.do = "put"    -> [c EXCEPT !.half = 1 - @]
      [] a.do = "enable" -> [c EXCEPT !.who = "main"]
      [] OTHER           -> c

\* Nothing is held, masked or half done.
Done(c) ==
    /\ c.who \in {"main", "irq"}
    /\ c.held = {} /\ c.depth = 0 /\ c.forcing = {} /\ c.half = 0

\* Each step is legal where it is taken, up to the end or to hlt.
Judged(s, c, L) ==
    /\ s \in Seq(Steps) /\ c \in Context
    /\ s = <<>> => Done(c)
    /\ s # <<>> => /\ Legal(Head(s), c)
                   /\ Head(s).do = "iret" => Tail(s) = <<>>
                   /\ Head(s).do # "hlt" => <<Tail(s), After(Head(s), c)>> \in L

Closed(L) == \A p \in L : Judged(p[1], p[2], L)

Good(s, c) == \E L : Closed(L) /\ <<s, c>> \in L

\* A function that may be followed by anything good.
Runs(p, c, d) ==
    /\ p \in Seq(Steps) /\ c \in Context /\ d \in Context
    /\ \A t \in Seq(Steps) : Good(t, d) => Good(p \o t, c)

\* A step made by Step.
LEMMA StepFacts ==
    ASSUME NEW k \in Kinds, NEW l \in Mutex \cup {"cpu"}
    PROVE  /\ Step(k, l) \in Steps /\ Step(k, l).do = k /\ Step(k, l).on = l
           /\ <<Step(k, l)>> \in Seq(Steps)
  BY DEF Step, Steps

\* What good code begins with is legal, and what follows is good again.
LEMMA Unfold ==
    ASSUME NEW s, NEW c, Good(s, c)
    PROVE  /\ s \in Seq(Steps) /\ c \in Context
           /\ s = <<>> => Done(c)
           /\ s # <<>> => /\ Head(s) \in Steps /\ Tail(s) \in Seq(Steps)
                          /\ Legal(Head(s), c)
                          /\ Head(s).do = "iret" => Tail(s) = <<>>
                          /\ Head(s).do # "hlt" => Good(Tail(s), After(Head(s), c))
  <1>1. PICK L : Closed(L) /\ <<s, c>> \in L
    BY DEF Good
  <1>2. /\ s \in Seq(Steps) /\ c \in Context
        /\ s = <<>> => Done(c)
        /\ s # <<>> => /\ Legal(Head(s), c)
                       /\ Head(s).do = "iret" => Tail(s) = <<>>
                       /\ Head(s).do # "hlt" => <<Tail(s), After(Head(s), c)>> \in L
    BY <1>1, Zenon DEF Closed, Judged
  <1>3. s # <<>> => Head(s) \in Steps /\ Tail(s) \in Seq(Steps)
    BY <1>2
  <1>4. QED
    BY <1>1, <1>2, <1>3 DEF Good

\* No code is good where everything is done.
LEMMA GoodEnd ==
    ASSUME NEW c \in Context, Done(c)
    PROVE  Good(<<>>, c)
  <1> DEFINE e == <<>>
             L == {<<e, c>>}
  <1>1. Judged(e, c, L)
    BY DEF Judged
  <1> HIDE DEF e
  <1>2. Closed(L)
    BY <1>1 DEF Closed
  <1>3. QED
    BY <1>2 DEF Good, e

\* A legal step before good code.
LEMMA Cons ==
    ASSUME NEW a \in Steps, NEW t \in Seq(Steps), NEW c \in Context, Legal(a, c),
           a.do = "iret" => t = <<>>,
           a.do # "hlt" => Good(t, After(a, c))
    PROVE  Good(<<a>> \o t, c)
  <1> DEFINE s == <<a>> \o t
  <1>1. s \in Seq(Steps) /\ s # <<>> /\ Head(s) = a /\ Tail(s) = t
    OBVIOUS
  <1> HIDE DEF s
  <1>2. CASE a.do = "hlt"
    <2>1. Judged(s, c, {<<s, c>>})
      BY <1>1, <1>2 DEF Judged
    <2>2. Closed({<<s, c>>})
      BY <2>1 DEF Closed
    <2>3. QED
      BY <2>2, Zenon DEF Good, s
  <1>3. CASE a.do # "hlt"
    <2>1. PICK L : Closed(L) /\ <<t, After(a, c)>> \in L
      BY <1>3 DEF Good
    <2> DEFINE M == L \cup {<<s, c>>}
    <2>2. Judged(s, c, M)
      BY <1>1, <2>1, Zenon DEF Judged
    <2>3. \A p \in L : Judged(p[1], p[2], M)
      BY <2>1, Zenon DEF Closed, Judged
    <2>4. Closed(M)
      <3>1. ASSUME NEW p \in M PROVE Judged(p[1], p[2], M)
        <4>1. CASE p \in L
          BY <2>3, <4>1, Zenon
        <4>2. CASE p = <<s, c>>
          <5>1. p[1] = s /\ p[2] = c
            BY <4>2, Zenon
          <5>2. QED
            BY <2>2, <5>1, Zenon
        <4>3. QED
          BY <4>1, <4>2
      <3>2. QED
        BY <3>1, Zenon DEF Closed
    <2>5. QED
      BY <2>4 DEF Good, s
  <1>4. QED
    BY <1>2, <1>3

\* A step on its own.
LEMMA RunStep ==
    ASSUME NEW a \in Steps, NEW c \in Context, Legal(a, c), a.do # "iret",
           After(a, c) \in Context
    PROVE  Runs(<<a>>, c, After(a, c))
  <1>1. \A t \in Seq(Steps) : Good(t, After(a, c)) => Good(<<a>> \o t, c)
    BY Cons
  <1>2. QED
    BY <1>1 DEF Runs

\* Nothing.
LEMMA RunNothing ==
    ASSUME NEW c \in Context
    PROVE  Runs(<<>>, c, c)
  <1>1. \A t \in Seq(Steps) : <<>> \o t = t
    OBVIOUS
  <1>2. <<>> \in Seq(Steps)
    OBVIOUS
  <1>3. QED
    BY <1>1, <1>2 DEF Runs

\* One function after the other.
LEMMA RunBoth ==
    ASSUME NEW p, NEW q, NEW c, NEW d, NEW e, Runs(p, c, d), Runs(q, d, e)
    PROVE  Runs(p \o q, c, e)
  <1>1. p \in Seq(Steps) /\ q \in Seq(Steps) /\ c \in Context /\ e \in Context
    BY DEF Runs
  <1>2. p \o q \in Seq(Steps)
    BY <1>1
  <1>3. ASSUME NEW t \in Seq(Steps), Good(t, e) PROVE Good((p \o q) \o t, c)
    <2>1. Good(q \o t, d) /\ q \o t \in Seq(Steps)
      BY <1>1, <1>3 DEF Runs
    <2>2. Good(p \o (q \o t), c)
      BY <2>1, Zenon DEF Runs
    <2>3. p \o (q \o t) = (p \o q) \o t
      BY <1>1, SMTT(30)
    <2>4. QED
      BY <2>2, <2>3
  <1>4. QED
    BY <1>1, <1>2, <1>3 DEF Runs

\* A function that ends where everything is done is good code.
LEMMA RunGood ==
    ASSUME NEW p, NEW c, NEW d, Runs(p, c, d), Done(d)
    PROVE  Good(p, c)
  <1>1. d \in Context /\ p \in Seq(Steps)
    BY DEF Runs
  <1>2. Good(<<>>, d) /\ <<>> \in Seq(Steps) /\ p \o <<>> = p
    BY <1>1, GoodEnd
  <1>3. QED
    BY <1>2, Zenon DEF Runs

\* The parts of a context.
LEMMA ContextFacts ==
    ASSUME NEW c \in Context
    PROVE  /\ c.who \in Modes /\ c.held \in SUBSET Mutex /\ c.depth \in Nat
           /\ c.forcing \in SUBSET Statics /\ c.half \in {0, 1}
           /\ DOMAIN c = {"who", "held", "depth", "forcing", "half"}
  BY DEF Context

Holding(c, l) == [c EXCEPT !.held = @ \cup {l}]
Masked(c) == [c EXCEPT !.depth = @ + 1]

LEMMA HoldingFacts ==
    ASSUME NEW c \in Context, NEW l \in Mutex
    PROVE  /\ Holding(c, l) \in Context
           /\ Holding(c, l).who = c.who /\ Holding(c, l).held = c.held \cup {l}
           /\ Holding(c, l).depth = c.depth /\ Holding(c, l).forcing = c.forcing
           /\ Holding(c, l).half = c.half
           /\ l \notin c.held => [Holding(c, l) EXCEPT !.held = @ \ {l}] = c
  BY Zenon DEF Holding, Context

LEMMA MaskedFacts ==
    ASSUME NEW c \in Context
    PROVE  /\ Masked(c) \in Context
           /\ Masked(c).who = c.who /\ Masked(c).held = c.held
           /\ Masked(c).depth = c.depth + 1 /\ Masked(c).forcing = c.forcing
           /\ Masked(c).half = c.half
           /\ [Masked(c) EXCEPT !.depth = @ - 1] = c
  <1>1. c.depth \in Nat /\ c.depth + 1 \in Nat /\ (c.depth + 1) - 1 = c.depth
    BY ContextFacts
  <1> DEFINE n == c.depth + 1
  <1>2. [c EXCEPT !.depth = n] \in Context
    BY <1>1 DEF Context
  <1>3. [[c EXCEPT !.depth = n] EXCEPT !.depth = c.depth] = c
    BY Zenon DEF Context
  <1>4. [c EXCEPT !.depth = n].depth = n
    BY DEF Context
  <1>5. /\ [c EXCEPT !.depth = n].who = c.who /\ [c EXCEPT !.depth = n].held = c.held
        /\ [c EXCEPT !.depth = n].forcing = c.forcing /\ [c EXCEPT !.depth = n].half = c.half
    BY DEF Context
  <1>6. n - 1 = c.depth
    BY <1>1
  <1> HIDE DEF n
  <1>7. Masked(c) = [c EXCEPT !.depth = n]
    BY DEF Masked, n
  <1>8. [Masked(c) EXCEPT !.depth = @ - 1] = c
    BY <1>3, <1>4, <1>6, <1>7, Zenon
  <1>9. QED
    BY <1>2, <1>4, <1>5, <1>7, <1>8 DEF n

\* locked: the mutex is held by the body alone.
LEMMA RunLocked ==
    ASSUME NEW l \in Mutex, NEW body, NEW c \in Context,
           c.forcing = {}, l \notin c.held, MayLock(l, c), l = "SERIAL1" => c.half = 0,
           Runs(body, Holding(c, l), Holding(c, l))
    PROVE  Runs(locked(l, body), c, c)
  <1> DEFINE d == Holding(c, l)
             a == Step("lock", l)
             b == Step("unlock", l)
  <1>1. /\ a \in Steps /\ a.do = "lock" /\ a.on = l
        /\ b \in Steps /\ b.do = "unlock" /\ b.on = l
    BY StepFacts DEF Kinds
  <1>2. /\ d \in Context /\ d.held = c.held \cup {l} /\ d.forcing = c.forcing
        /\ d.half = c.half /\ [d EXCEPT !.held = @ \ {l}] = c
    BY HoldingFacts, Zenon
  <1>3. After(a, c) = d
    BY <1>1, Zenon DEF After, Holding
  <1> HIDE DEF d, a, b
  <1>4. After(b, d) = c
    BY <1>1, <1>2 DEF After
  <1>5. Legal(a, c)
    BY <1>1 DEF Legal
  <1>6. Legal(b, d)
    BY <1>1, <1>2 DEF Legal
  <1>7. Runs(<<a>>, c, d)
    BY <1>1, <1>2, <1>3, <1>5, RunStep, Zenon
  <1>8. Runs(<<b>>, d, c)
    BY <1>1, <1>2, <1>4, <1>6, RunStep, Zenon
  <1>9. Runs(<<a>> \o body \o <<b>>, c, c)
    <2>1. Runs(<<a>> \o body, c, d)
      BY <1>7, RunBoth, Zenon DEF d
    <2>2. QED
      BY <1>8, <2>1, RunBoth, Zenon
  <1>10. QED
    BY <1>9, Zenon DEF locked, a, b

\* without_interrupts: interrupts are masked in the body alone.
LEMMA RunMasked ==
    ASSUME NEW body, NEW c \in Context, c.forcing = {}, "WRITER" \notin c.held,
           Runs(body, Masked(c), Masked(c))
    PROVE  Runs(without_interrupts(body), c, c)
  <1> DEFINE d == Masked(c)
             a == Step("cli", "cpu")
             b == Step("sti", "cpu")
  <1>1. /\ a \in Steps /\ a.do = "cli" /\ b \in Steps /\ b.do = "sti"
    BY StepFacts DEF Kinds
  <1>2. /\ d \in Context /\ d.held = c.held /\ d.forcing = c.forcing
        /\ d.depth # 0 /\ [d EXCEPT !.depth = @ - 1] = c
    BY MaskedFacts, ContextFacts
  <1>3. After(a, c) = d
    BY <1>1 DEF After, Masked
  <1> HIDE DEF d, a, b
  <1>4. After(b, d) = c
    BY <1>1, <1>2, Zenon DEF After
  <1>5. Legal(a, c)
    BY <1>1 DEF Legal
  <1>6. Legal(b, d)
    BY <1>1, <1>2 DEF Legal
  <1>7. Runs(<<a>>, c, d)
    BY <1>1, <1>2, <1>3, <1>5, RunStep, Zenon
  <1>8. Runs(<<b>>, d, c)
    BY <1>1, <1>2, <1>4, <1>6, RunStep, Zenon
  <1>9. Runs(<<a>> \o body \o <<b>>, c, c)
    <2>1. Runs(<<a>> \o body, c, d)
      BY <1>7, RunBoth DEF d
    <2>2. QED
      BY <1>8, <2>1, RunBoth, Zenon
  <1>10. QED
    BY <1>9, Zenon DEF without_interrupts, a, b

\* A step that leaves the context alone.
LEMMA RunStay ==
    ASSUME NEW k \in {"try", "print", "color", "panic?", "hlt"},
           NEW l \in Mutex \cup {"cpu"}, NEW c \in Context, Legal(Step(k, l), c)
    PROVE  Runs(<<Step(k, l)>>, c, c)
  <1> DEFINE a == Step(k, l)
  <1>1. a \in Steps /\ a.do = k
    BY StepFacts DEF Kinds
  <1>2. Legal(a, c)
    OBVIOUS
  <1> HIDE DEF a
  <1>3. After(a, c) = c /\ a.do # "iret"
    BY <1>1, Zenon DEF After
  <1>4. Runs(<<a>>, c, c)
    BY <1>1, <1>2, <1>3, RunStep, Zenon
  <1>5. QED
    BY <1>4, Zenon DEF a

\* A use of a static, but for the boot thread's first message.
LEMMA RunDeref ==
    ASSUME NEW l \in Statics, NEW c \in Context, c.forcing = {}, MayForce(l, c),
           l = "SERIAL1" => c.who # "cold"
    PROVE  Runs(deref(l), c, c)
  <1> DEFINE a == Step("force", l)
  <1>1. a \in Steps /\ a.do = "force" /\ a.on = l
    BY StepFacts DEF Kinds, Mutex
  <1> HIDE DEF a
  <1>2. Legal(a, c)
    BY <1>1 DEF Legal
  <1>3. After(a, c) = c
    <2>1. Warm(l, c) = c.who
      BY DEF Warm
    <2>2. [c EXCEPT !.who = c.who] = c
      BY Zenon DEF Context
    <2>3. QED
      BY <1>1, <2>1, <2>2, Zenon DEF After
  <1>4. Runs(<<a>>, c, c)
    BY <1>1, <1>2, <1>3, RunStep
  <1>5. QED
    BY <1>4, Zenon DEF deref, a

\* Both pieces of a message.
LEMMA RunMessage ==
    ASSUME NEW c \in Context, c.forcing = {}, "SERIAL1" \in c.held, c.half = 0
    PROVE  Runs(Message, c, c)
  <1> DEFINE a == Step("put", "SERIAL1")
             d == [c EXCEPT !.half = 1]
  <1>1. a \in Steps /\ a.do = "put"
    BY StepFacts DEF Kinds, Mutex, Statics
  <1>2. /\ d \in Context /\ d.forcing = {} /\ "SERIAL1" \in d.held /\ d.half = 1
        /\ [d EXCEPT !.half = 0] = c
    BY Zenon DEF Context
  <1>3. 1 - c.half = 1 /\ [c EXCEPT !.half = 1 - @] = [c EXCEPT !.half = 1]
    OBVIOUS
  <1> HIDE DEF a
  <1>4. After(a, c) = d
    BY <1>1, <1>3 DEF After
  <1> HIDE DEF d
  <1>5. After(a, d) = c
    BY <1>1, <1>2 DEF After
  <1>6. Legal(a, c) /\ Legal(a, d)
    BY <1>1, <1>2 DEF Legal
  <1>7. Runs(<<a>>, c, d) /\ Runs(<<a>>, d, c)
    BY <1>1, <1>2, <1>4, <1>5, <1>6, RunStep
  <1>8. Runs(<<a>> \o <<a>>, c, c)
    BY <1>7, RunBoth, Zenon
  <1>9. <<a>> \o <<a>> = <<a, a>>
    <2> DEFINE s == <<a>> \o <<a>>
    <2>1. <<a>> \in Seq(Steps) /\ Len(<<a>>) = 1
      BY <1>1
    <2>2. s \in Seq(Steps) /\ Len(s) = 2 /\ s[1] = a /\ s[2] = a
      BY <1>1, <2>1
    <2> DEFINE u == <<a, a>>
    <2>3. u \in Seq(Steps) /\ Len(u) = 2 /\ u[1] = a /\ u[2] = a
      BY <1>1
    <2> HIDE DEF s, u
    <2>4. s \in [1 .. 2 -> Steps] /\ u \in [1 .. 2 -> Steps]
      BY <2>2, <2>3, SMTT(30)
    <2>5. \A i \in 1 .. 2 : s[i] = u[i]
      BY <2>2, <2>3
    <2>6. s = u
      BY <2>4, <2>5
    <2>7. QED
      BY <2>6 DEF s, u
  <1>10. QED
    BY <1>8, <1>9, Zenon DEF Message, a

-----------------------------------------------------------------------------
(* The functions of the kernel.                                            *)

\* Console output, by any flow that does not hold the console already.
LEMMA RunConsole ==
    ASSUME NEW c \in Context, c.forcing = {}, "WRITER" \notin c.held
    PROVE  Runs(_print, c, c) /\ Runs(set_color, c, c)
  <1> DEFINE d == Masked(c)
             e == Holding(d, "WRITER")
  <1>1. "WRITER" \in Mutex /\ "WRITER" \in Statics
    BY DEF Mutex, Statics
  <1>2. d \in Context /\ d.forcing = {} /\ "WRITER" \notin d.held /\ d.depth # 0
    BY MaskedFacts, ContextFacts
  <1> HIDE DEF d
  <1>3. e \in Context /\ e.forcing = {} /\ "WRITER" \in e.held
    BY <1>1, <1>2, HoldingFacts
  <1> HIDE DEF e
  <1>4. ASSUME NEW k \in {"print", "color"}
        PROVE  Runs(without_interrupts(deref("WRITER") \o locked("WRITER", <<Step(k, "WRITER")>>)), c, c)
    <2>1. Legal(Step(k, "WRITER"), e)
      BY <1>1, <1>3, StepFacts DEF Legal, Kinds
    <2>2. Runs(<<Step(k, "WRITER")>>, e, e)
      BY <1>1, <1>3, <2>1, RunStay, Zenon
    <2>3. Runs(locked("WRITER", <<Step(k, "WRITER")>>), d, d)
      BY <1>1, <1>2, <2>2, RunLocked, Zenon DEF MayLock, e
    <2>4. Runs(deref("WRITER"), d, d)
      BY <1>1, <1>2, RunDeref, Zenon DEF MayForce
    <2>5. Runs(deref("WRITER") \o locked("WRITER", <<Step(k, "WRITER")>>), d, d)
      BY <2>3, <2>4, RunBoth, Zenon
    <2>6. QED
      BY <2>5, RunMasked DEF d
  <1>5. QED
    BY <1>4 DEF _print, set_color

\* serial::_print.
LEMMA RunSerial ==
    ASSUME NEW c \in Context, c.forcing = {}, c.who = "main", c.half = 0,
           "WRITER" \notin c.held, "SERIAL1" \notin c.held
    PROVE  Runs(serial_print, c, c)
  <1> DEFINE d == Masked(c)
             e == Holding(d, "SERIAL1")
  <1>1. "SERIAL1" \in Mutex /\ "SERIAL1" \in Statics
    BY DEF Mutex, Statics
  <1>2. d \in Context /\ d.forcing = {} /\ "SERIAL1" \notin d.held /\ d.who = "main" /\ d.half = 0
    BY MaskedFacts
  <1> HIDE DEF d
  <1>3. e \in Context /\ e.forcing = {} /\ "SERIAL1" \in e.held /\ e.half = 0
    BY <1>1, <1>2, HoldingFacts
  <1> HIDE DEF e
  <1>4. Runs(Message, e, e)
    BY <1>3, RunMessage, Zenon
  <1>5. Runs(locked("SERIAL1", Message), d, d)
    BY <1>1, <1>2, <1>4, RunLocked, Zenon DEF MayLock, e
  <1>6. Runs(deref("SERIAL1"), d, d)
    BY <1>1, <1>2, RunDeref, Zenon DEF MayForce
  <1>7. Runs(deref("SERIAL1") \o locked("SERIAL1", Message), d, d)
    BY <1>5, <1>6, RunBoth, Zenon
  <1>8. QED
    BY <1>7, RunMasked DEF d, serial_print

\* The logger, by any flow once the port is initialised.
LEMMA RunLog ==
    ASSUME NEW c \in Context, c.forcing = {}, c.who # "cold", "SERIAL1" \notin c.held
    PROVE  Runs(_log, c, c)
  <1>1. "SERIAL1" \in Mutex /\ "SERIAL1" \in Statics
    BY DEF Mutex, Statics
  <1>2. Runs(deref("SERIAL1"), c, c)
    BY <1>1, RunDeref, Zenon DEF MayForce
  <1>3. Legal(Step("try", "SERIAL1"), c)
    BY <1>1, StepFacts DEF Legal, Kinds
  <1>4. Runs(<<Step("try", "SERIAL1")>>, c, c)
    BY <1>1, <1>3, RunStay, Zenon
  <1>5. QED
    BY <1>2, <1>4, RunBoth DEF _log

\* Kernel code outside the console and the port.
Ordinary(c) ==
    /\ c \in Context
    /\ c.who = "main" /\ c.forcing = {} /\ c.half = 0
    /\ c.held \subseteq {"THREADS", "processes"}

Calm(c) == Ordinary(c) /\ c.held = {}

LEMMA OrdinaryFacts ==
    ASSUME NEW c, Ordinary(c)
    PROVE  /\ Ordinary(Masked(c))
           /\ Ordinary(Holding(c, "THREADS")) /\ Ordinary(Holding(c, "processes"))
           /\ Calm(c) => Calm(Masked(c))
           /\ c \in Context /\ c.forcing = {} /\ c.who = "main" /\ c.half = 0
           /\ "WRITER" \notin c.held /\ "SERIAL1" \notin c.held /\ "ALLOCATOR" \notin c.held
           /\ {"THREADS", "processes", "ALLOCATOR"} \subseteq Mutex
  <1>1. c \in Context /\ "THREADS" \in Mutex /\ "processes" \in Mutex /\ "ALLOCATOR" \in Mutex
    BY DEF Ordinary, Mutex
  <1>2. Ordinary(Masked(c)) /\ (Calm(c) => Calm(Masked(c)))
    BY <1>1, MaskedFacts DEF Ordinary, Calm
  <1>3. ASSUME NEW l \in {"THREADS", "processes"} PROVE Ordinary(Holding(c, l))
    <2> DEFINE d == Holding(c, l)
    <2>1. /\ d \in Context /\ d.who = c.who /\ d.forcing = c.forcing /\ d.half = c.half
          /\ d.held = c.held \cup {l}
      BY <1>1, HoldingFacts
    <2> HIDE DEF d
    <2>2. Ordinary(d)
      BY <2>1 DEF Ordinary
    <2>3. QED
      BY <2>2 DEF d
  <1>4. QED
    BY <1>1, <1>2, <1>3 DEF Ordinary

\* alloc and stats.
LEMMA RunAlloc ==
    ASSUME NEW c, Ordinary(c)
    PROVE  Runs(alloc, c, c) /\ Runs(stats, c, c)
  <1> DEFINE d == Holding(c, "ALLOCATOR")
  <1>1. /\ c \in Context /\ c.forcing = {} /\ c.who = "main"
        /\ "ALLOCATOR" \notin c.held /\ "ALLOCATOR" \in Mutex
    BY OrdinaryFacts
  <1>2. d \in Context
    BY <1>1, HoldingFacts
  <1>3. Runs(<<>>, d, d)
    BY <1>2, RunNothing, Zenon
  <1>4. Runs(locked("ALLOCATOR", <<>>), c, c)
    BY <1>1, <1>3, RunLocked, Zenon DEF MayLock
  <1>5. QED
    BY <1>4 DEF alloc, stats

\* A body under the lock of the threads or of the processes.
LEMMA RunService ==
    ASSUME NEW c, Calm(c), NEW l \in {"THREADS", "processes"}, NEW body,
           Runs(body, Holding(c, l), Holding(c, l))
    PROVE  Runs(locked(l, body), c, c)
  <1>1. /\ c \in Context /\ c.forcing = {} /\ c.who = "main" /\ l \notin c.held /\ l \in Mutex
        /\ l # "SERIAL1"
    BY OrdinaryFacts, Zenon DEF Calm
  <1>2. QED
    BY <1>1, RunLocked, Zenon DEF MayLock

\* MayPanic.
LEMMA RunMayPanic ==
    ASSUME NEW c, Ordinary(c)
    PROVE  Runs(MayPanic, c, c)
  <1>1. c \in Context /\ c.forcing = {} /\ "WRITER" \notin c.held
    BY OrdinaryFacts, Zenon
  <1>2. Legal(Step("panic?", "cpu"), c)
    BY <1>1, StepFacts DEF Legal, Kinds
  <1>3. QED
    BY <1>1, <1>2, RunStay, Zenon DEF MayPanic

\* The thread and process services, masked or not.
LEMMA RunServices ==
    ASSUME NEW c, Calm(c)
    PROVE  /\ Runs(spawn, c, c) /\ Runs(lookup, c, c)
           /\ Runs(register, c, c) /\ Runs(exit_process, c, c) /\ Runs(snapshot, c, c)
  <1> DEFINE t == Holding(c, "THREADS")
             p == Holding(c, "processes")
  <1>1. Ordinary(t) /\ Ordinary(p) /\ t \in Context /\ p \in Context
    BY OrdinaryFacts, Zenon DEF Calm
  <1>2. Runs(alloc, t, t) /\ Runs(MayPanic, t, t) /\ Runs(<<>>, t, t)
    BY <1>1, RunAlloc, RunMayPanic, RunNothing, Zenon
  <1>3. Runs(alloc, p, p) /\ Runs(<<>>, p, p)
    BY <1>1, RunAlloc, RunNothing, Zenon
  <1>4. Runs(alloc \o MayPanic, t, t)
    BY <1>2, RunBoth
  <1>5. Runs(spawn, c, c)
    BY <1>4, RunService, Zenon DEF spawn
  <1>6. Runs(lookup, c, c)
    BY <1>2, RunService, Zenon DEF lookup
  <1>7. Runs(register, c, c) /\ Runs(exit_process, c, c)
    BY <1>3, RunService, Zenon DEF register, exit_process
  <1>8. Runs(snapshot, c, c)
    BY <1>3, RunService DEF snapshot
  <1>9. QED
    BY <1>5, <1>6, <1>7, <1>8, Zenon

\* The scheduler calls.
LEMMA RunScheduler ==
    ASSUME NEW c, Calm(c)
    PROVE  Runs(yield_now, c, c) /\ Runs(exit_thread, c, c)
  <1> DEFINE d == Masked(c)
  <1>1. /\ Calm(d) /\ Ordinary(c) /\ c \in Context /\ c.forcing = {} /\ "WRITER" \notin c.held
    BY OrdinaryFacts, Zenon DEF Calm
  <1>2. Runs(locked("THREADS", <<>>), d, d)
    BY <1>1, RunServices, Zenon DEF lookup
  <1>3. Runs(locked("THREADS", alloc \o MayPanic), d, d)
    BY <1>1, RunServices, Zenon DEF spawn
  <1>4. Runs(without_interrupts(locked("THREADS", <<>>)), c, c)
    BY <1>1, <1>2, RunMasked, Zenon
  <1>5. Runs(without_interrupts(locked("THREADS", alloc \o MayPanic)), c, c)
    BY <1>1, <1>3, RunMasked, Zenon
  <1>6. Runs(drain_reaper, c, c)
    BY <1>1, <1>4, RunAlloc, RunBoth, Zenon DEF drain_reaper
  <1>7. Runs(yield_now, c, c)
    BY <1>4, <1>6, RunBoth, Zenon DEF yield_now
  <1>8. Runs(exit_thread, c, c)
    BY <1>5, <1>6, RunBoth, Zenon DEF exit_thread
  <1>9. QED
    BY <1>7, <1>8, Zenon

\* The context a call, a trap or a handler begins in.
Start(who) == [who |-> who, held |-> {}, depth |-> 0, forcing |-> {}, half |-> 0]

LEMMA StartFacts ==
    ASSUME NEW who \in Modes
    PROVE  /\ Start(who) \in Context /\ Start(who).who = who /\ Start(who).held = {}
           /\ Start(who).depth = 0 /\ Start(who).forcing = {} /\ Start(who).half = 0
  BY Zenon DEF Start, Context

LEMMA BothFlows ==
    ASSUME NEW S, NEW x \in S, NEW y \in S
    PROVE  [main |-> x, irq |-> y] \in [Flow -> S]
  BY DEF Flow

\* The panic handler, whatever comes after it and whatever else is held.
LEMMA PanicIsGood ==
    ASSUME NEW c \in Context, c.forcing = {}, "WRITER" \notin c.held, NEW t \in Seq(Steps)
    PROVE  Good(panic \o t, c)
  <1> DEFINE a == Step("hlt", "cpu")
  <1>1. a \in Steps /\ a.do = "hlt" /\ <<a>> \in Seq(Steps)
    BY StepFacts, Zenon DEF Kinds
  <1> HIDE DEF a
  <1>2. Legal(a, c)
    BY <1>1, Zenon DEF Legal
  <1>3. Good(<<a>> \o t, c) /\ <<a>> \o t \in Seq(Steps)
    BY <1>1, <1>2, Cons
  <1>4. Runs(_print, c, c)
    BY RunConsole
  <1>5. Good(_print \o (<<a>> \o t), c)
    BY <1>3, <1>4, Zenon DEF Runs
  <1>6. _print \o (<<a>> \o t) = (_print \o <<a>>) \o t
    BY <1>1, <1>4 DEF Runs
  <1>7. QED
    BY <1>5, <1>6, Zenon DEF panic, a

\* The panic handler with nothing after it.
LEMMA PanicAloneIsGood ==
    ASSUME NEW c \in Context, c.forcing = {}, "WRITER" \notin c.held
    PROVE  Good(panic, c)
  <1> DEFINE z == <<>>
  <1>1. z \in Seq(Steps)
    OBVIOUS
  <1>2. panic \o z = panic
    <2>1. panic \in Seq([do : {"cli", "sti", "lock", "unlock", "force", "print", "hlt"},
                         on : {"cpu", "WRITER"}])
      BY DEF panic, _print, without_interrupts, deref, locked, Step
    <2>2. QED
      BY <2>1
  <1> HIDE DEF z
  <1>3. Good(panic \o z, c)
    BY <1>1, PanicIsGood, Zenon
  <1>4. QED
    BY <1>2, <1>3, Zenon

\* Everything the main flow is called for is good code.
LEMMA CallsAreGood ==
    ASSUME NEW code \in KernelCode \cup TrapCode
    PROVE  Good(code, Start("main"))
  <1> DEFINE c == Start("main")
  <1>1. /\ c \in Context /\ c.who = "main" /\ c.held = {} /\ c.depth = 0
        /\ c.forcing = {} /\ c.half = 0
    BY StartFacts, Zenon DEF Modes
  <1> HIDE DEF c
  <1>2. Calm(c) /\ Ordinary(c) /\ Done(c)
    BY <1>1, Zenon DEF Calm, Ordinary, Done
  <1>3. /\ Runs(_print, c, c) /\ Runs(set_color, c, c) /\ Runs(serial_print, c, c)
        /\ Runs(_log, c, c)
    BY <1>1, RunConsole, RunSerial, RunLog, Zenon
  <1>4. /\ Runs(alloc, c, c) /\ Runs(stats, c, c) /\ Runs(spawn, c, c) /\ Runs(lookup, c, c)
        /\ Runs(register, c, c) /\ Runs(exit_process, c, c) /\ Runs(snapshot, c, c)
        /\ Runs(yield_now, c, c) /\ Runs(exit_thread, c, c)
    BY <1>2, RunAlloc, RunServices, RunScheduler, Zenon
  <1>5. \A p \in KernelCode : Runs(p, c, c)
    BY <1>3, <1>4, Zenon DEF KernelCode
  <1>6. Runs(sys_exit, c, c)
    <2>1. Runs(_log \o exit_process, c, c)
      BY <1>3, <1>4, RunBoth, Zenon
    <2>2. QED
      BY <1>4, <2>1, RunBoth, Zenon DEF sys_exit
  <1>7. Runs(sys_write, c, c)
    BY <1>3, RunBoth, Zenon DEF sys_write
  <1>8. Runs(SysRead, c, c) /\ Runs(Unknown, c, c)
    BY <1>1, <1>3, RunNothing, Zenon DEF SysRead, Unknown
  <1>9. Runs(page_fault_handler(TRUE), c, c)
    <2>1. Runs(lookup \o _log, c, c)
      BY <1>3, <1>4, RunBoth, Zenon
    <2>2. Runs(lookup \o _log \o exit_process, c, c)
      BY <1>4, <2>1, RunBoth, Zenon
    <2>3. Runs(kill_faulting_process, c, c)
      BY <1>4, <2>2, RunBoth DEF kill_faulting_process
    <2>4. QED
      BY <1>3, <2>3, RunBoth, Zenon DEF page_fault_handler
  <1>10. \A body \in {sys_exit, sys_write, SysRead, yield_now, Unknown} :
            Runs(syscall_dispatch(body), c, c)
    <2>1. \A body : Runs(body, c, c) => Runs(syscall_dispatch(body), c, c)
      BY <1>4, RunBoth DEF syscall_dispatch
    <2>2. QED
      BY <1>4, <1>6, <1>7, <1>8, <2>1, Zenon
  <1>11. \A p \in KernelCode \cup TrapCode :
            Runs(p, c, c) \/ p = syscall_dispatch(sys_write_faults)
    BY <1>5, <1>9, <1>10, Zenon DEF TrapCode
  <1>12. Good(syscall_dispatch(sys_write_faults), c)
    <2>1. c.forcing = {} /\ "WRITER" \notin c.held
      BY <1>1, Zenon
    <2>2. Good(panic, c) /\ panic \in Seq(Steps)
      BY <1>1, <2>1, PanicAloneIsGood, Unfold, Zenon
    <2>3. Runs(lookup, c, c) /\ Runs(_print, c, c)
      BY <1>3, <1>4, Zenon
    <2>4. Good(_print \o panic, c) /\ _print \o panic \in Seq(Steps)
      BY <2>2, <2>3, Unfold, Zenon DEF Runs
    <2>5. Good(_print \o (_print \o panic), c) /\ _print \o (_print \o panic) \in Seq(Steps)
      BY <2>3, <2>4, Unfold, Zenon DEF Runs
    <2>6. Good(lookup \o (_print \o (_print \o panic)), c)
      BY <2>3, <2>5, Zenon DEF Runs
    <2>7. QED
      BY <2>6 DEF syscall_dispatch, sys_write_faults, page_fault_handler
  <1>13. CASE Runs(code, c, c)
    BY <1>2, <1>13, RunGood, Zenon DEF c
  <1>14. QED
    BY <1>11, <1>12, <1>13, Zenon DEF c

\* The handlers are good code.
LEMMA HandlersAreGood ==
    /\ \A n \in Nat : Good(timer_interrupt_handler(n), Start("irq"))
    /\ \A outcome \in {"queued", "dropped", "full"} :
           Good(keyboard_interrupt_handler(outcome), Start("irq"))
  <1> DEFINE c == Start("irq")
             d == Holding(c, "PICS")
             a == Step("iret", "cpu")
             e == notify_end_of_interrupt
  <1>1. /\ c \in Context /\ c.who = "irq" /\ c.held = {} /\ c.depth = 0
        /\ c.forcing = {} /\ c.half = 0 /\ "PICS" \in Mutex
    BY StartFacts DEF Modes, Mutex
  <1> HIDE DEF c
  <1>2. a \in Steps /\ a.do = "iret" /\ <<a>> \in Seq(Steps)
    BY StepFacts, Zenon DEF Kinds
  <1> HIDE DEF a
  <1>3. Done(c) /\ Legal(a, c)
    BY <1>1, <1>2 DEF Done, Legal
  <1>4. After(a, c) = c
    BY <1>2 DEF After
  <1>5. Good(<<a>>, c)
    <2> DEFINE z == <<>>
    <2>1. Good(z, c)
      BY <1>1, <1>3, GoodEnd
    <2>2. z \in Seq(Steps) /\ <<a>> \o z = <<a>>
      BY <1>2
    <2>3. z = <<>>
      OBVIOUS
    <2> HIDE DEF z
    <2>4. Good(<<a>> \o z, c)
      BY <1>1, <1>2, <1>3, <1>4, <2>1, <2>2, <2>3, Cons, Zenon
    <2>5. QED
      BY <2>2, <2>4, Zenon
  <1>6. Runs(locked("PICS", <<>>), c, c)
    <2>1. d \in Context
      BY <1>1, HoldingFacts
    <2>2. Runs(<<>>, d, d)
      BY <2>1, RunNothing, Zenon
    <2>3. QED
      BY <1>1, <2>2, RunLocked, Zenon DEF MayLock
  <1>7. Good(e, c) /\ e \in Seq(Steps)
    <2>1. Good(locked("PICS", <<>>) \o <<a>>, c)
      BY <1>2, <1>5, <1>6, Zenon DEF Runs
    <2>2. Good(e, c)
      BY <2>1, Zenon DEF notify_end_of_interrupt, a
    <2>3. QED
      BY <2>2, Unfold
  <1> HIDE DEF e
  <1>8. Runs(_log, c, c) /\ Runs(<<>>, c, c)
    BY <1>1, RunLog, RunNothing
  <1>9. ASSUME NEW n \in Nat PROVE Good(timer_interrupt_handler(n), c)
    <2>1. Runs(tick(n), c, c)
      BY <1>8 DEF tick
    <2>2. Good(tick(n) \o e, c)
      BY <1>7, <2>1, Zenon DEF Runs
    <2>3. QED
      BY <2>2 DEF timer_interrupt_handler, e
  <1>10. ASSUME NEW outcome \in {"queued", "dropped", "full"}
         PROVE  Good(keyboard_interrupt_handler(outcome), c)
    <2>1. CASE outcome = "queued"
      <3>1. add_scancode(outcome) = <<>>
        BY <2>1, Zenon DEF add_scancode
      <3>2. Good(<<>> \o e, c)
        BY <1>7, <1>8 DEF Runs
      <3>3. QED
        BY <3>1, <3>2 DEF keyboard_interrupt_handler, e
    <2>2. CASE outcome = "dropped"
      <3>1. add_scancode(outcome) = _log
        BY <2>2, Zenon DEF add_scancode
      <3>2. Good(_log \o e, c)
        BY <1>7, <1>8 DEF Runs
      <3>3. QED
        BY <3>1, <3>2 DEF keyboard_interrupt_handler, e
    <2>3. CASE outcome = "full"
      <3>1. add_scancode(outcome) = panic
        BY <2>3, Zenon DEF add_scancode
      <3>2. Good(panic \o e, c)
        BY <1>1, <1>7, PanicIsGood
      <3>3. QED
        BY <3>1, <3>2 DEF keyboard_interrupt_handler, e
    <2>4. QED
      BY <2>1, <2>2, <2>3, Zenon
  <1>11. QED
    BY <1>9, <1>10 DEF c

\* So is what the boot thread does until interrupts are on.
LEMMA BootIsGood == Good(init, Start("cold"))
  <1> DEFINE c == Start("cold")
             d == Start("boot")
             m == Start("main")
             f == Step("force", "SERIAL1")
             t == Step("try", "SERIAL1")
             a == Step("enable", "cpu")
  <1>1. /\ c \in Context /\ c.who = "cold" /\ c.forcing = {} /\ c.held = {}
        /\ d \in Context /\ d.who = "boot" /\ d.held = {} /\ d.depth = 0 /\ d.forcing = {} /\ d.half = 0
        /\ m \in Context /\ Done(m)
        /\ [c EXCEPT !.who = "boot"] = d /\ [d EXCEPT !.who = "main"] = m
    BY StartFacts DEF Modes, Start, Done
  <1> HIDE DEF c, d, m
  <1>2. /\ f \in Steps /\ f.do = "force" /\ f.on = "SERIAL1"
        /\ a \in Steps /\ a.do = "enable"
        /\ t.do = "try" /\ t.on = "SERIAL1" /\ "SERIAL1" \in Mutex /\ "SERIAL1" \in Statics
        /\ "PICS" \in Mutex
    BY StepFacts DEF Kinds, Mutex, Statics
  <1> HIDE DEF f, a
  <1>3. Runs(<<f>>, c, d)
    <2>1. Legal(f, c)
      BY <1>1, <1>2 DEF Legal, MayForce
    <2>2. After(f, c) = d
      BY <1>1, <1>2, Zenon DEF After, Warm
    <2>3. QED
      BY <1>1, <1>2, <2>1, <2>2, RunStep
  <1>4. Runs(<<t>>, d, d)
    <2>1. Legal(t, d)
      BY <1>1, <1>2, Zenon DEF Legal
    <2>2. QED
      BY <1>1, <1>2, <2>1, RunStay, Zenon
  <1>5. Runs(locked("PICS", <<>>), d, d)
    <2>1. Holding(d, "PICS") \in Context
      BY <1>1, <1>2, HoldingFacts, Zenon
    <2>2. Runs(<<>>, Holding(d, "PICS"), Holding(d, "PICS"))
      BY <2>1, RunNothing, Zenon
    <2>3. QED
      BY <1>1, <1>2, <2>2, RunLocked, Zenon DEF MayLock
  <1>6. Runs(<<a>>, d, m)
    <2>1. Legal(a, d)
      BY <1>1, <1>2 DEF Legal
    <2>2. After(a, d) = m
      BY <1>1, <1>2, Zenon DEF After
    <2>3. QED
      BY <1>1, <1>2, <2>1, <2>2, RunStep
  <1>7. Runs(_log, c, d)
    BY <1>3, <1>4, RunBoth, Zenon DEF _log, deref, f
  <1>8. Runs(_log \o locked("PICS", <<>>), c, d)
    BY <1>5, <1>7, RunBoth, Zenon
  <1>9. Runs(init, c, m)
    BY <1>6, <1>8, RunBoth, ZenonT(30) DEF init, a
  <1>10. QED
    BY <1>1, <1>9, RunGood DEF c

-----------------------------------------------------------------------------
(* The inductive invariant.                                                *)

\* The context of a flow that has masked interrupts n times.  The main flow
\* is in mode w.
Held(f) == {l \in Mutex : holder[l] = f}
Forces(f) == {l \in Statics : forcing[l] = f}
Half(f) == IF holder["SERIAL1"] = f THEN Len(port) % 2 ELSE 0
Mode(f, w) == IF f = "irq" THEN "irq" ELSE w
Place(m, h, n, g, x) == [who |-> m, held |-> h, depth |-> n, forcing |-> g, half |-> x]
Seen(f, w, n) == Place(Mode(f, w), Held(f), n, Forces(f), Half(f))

TypeInv ==
    /\ todo \in [Flow -> Seq(Steps)]
    /\ holder \in [Mutex -> Flow \cup {Free}]
    /\ ready \in SUBSET Statics
    /\ forcing \in [Statics -> Flow \cup {Free}]
    /\ IF_ \in BOOLEAN
    /\ saved \in Seq(BOOLEAN)
    /\ tick_count \in Nat
    /\ lost \in [Flow -> Nat]
    /\ port \in Seq(Flow)

\* What each flow has still to do is good from where it stands; only the flow
\* that runs has masked interrupts.
Peer(f) == IF f = "irq" THEN "main" ELSE "irq"
FlowInv(w) ==
    /\ Good(todo[active], Seen(active, w, Len(saved)))
    /\ Good(todo[Peer(active)], Seen(Peer(active), w, 0))

\* Interrupts are off in a handler, where they are masked, and during boot.
MaskInv(w) ==
    /\ w \in {"cold", "boot", "main"}
    /\ IF_ => saved = <<>> /\ todo["irq"] = <<>> /\ w = "main"
    /\ w # "main" => todo["irq"] = <<>>
    /\ \A k \in 1 .. Len(saved) :
           k # 1 \/ todo["irq"] # <<>> \/ w # "main" => saved[k] = FALSE

\* What a handler waits for the main flow has only where none can run.
OwnInv(w) ==
    /\ holder["WRITER"] = "main" \/ forcing["WRITER"] = "main"
          => todo["irq"] = <<>> /\ saved # <<>>
    /\ holder["PICS"] = "main" => w # "main"
    /\ w = "cold" <=> "SERIAL1" \notin ready
    /\ \A l \in Statics : forcing[l] # Free => l \notin ready

\* Half a message is on the line only while the one who wrote it has the port.
PortInv ==
    /\ holder["SERIAL1"] = Free => Len(port) % 2 = 0
    /\ Len(port) % 2 = 1 => port[Len(port)] = holder["SERIAL1"]
    /\ MessagesWhole

LInv(w) == TypeInv /\ FlowInv(w) /\ MaskInv(w) /\ OwnInv(w) /\ PortInv

\* The flow that runs, and the step it is at.
LEMMA Running ==
    ASSUME NEW w, LInv(w), todo[active] # <<>>, NEW f, f = active
    PROVE  /\ f \in Flow /\ Peer(f) \in Flow /\ Peer(f) # f
           /\ f = "main" => todo["irq"] = <<>> /\ Held("irq") = {} /\ Forces("irq") = {}
           /\ f = "irq" => todo["irq"] # <<>> /\ w = "main" /\ IF_ = FALSE
           /\ todo[f] \in Seq(Steps) /\ Now = Head(todo[f]) /\ Now \in Steps
           /\ Tail(todo[f]) \in Seq(Steps)
           /\ Seen(f, w, Len(saved)) \in Context
           /\ Legal(Now, Seen(f, w, Len(saved)))
           /\ Now.do = "iret" => Tail(todo[f]) = <<>>
           /\ Now.do # "hlt" => Good(Tail(todo[f]), After(Now, Seen(f, w, Len(saved))))
  <1> DEFINE c == Seen(f, w, Len(saved))
  <1>1. f \in Flow /\ Peer(f) \in Flow /\ Peer(f) # f
    BY ZenonT(30) DEF active, Flow, Peer
  <1>2. todo[f] # <<>> /\ Good(todo[f], c) /\ Now = Head(todo[f])
    BY Zenon DEF LInv, FlowInv, Now
  <1>3. f = "main" => todo["irq"] = <<>> /\ Held("irq") = {} /\ Forces("irq") = {}
    <2>1. SUFFICES ASSUME f = "main"
                   PROVE  todo["irq"] = <<>> /\ Held("irq") = {} /\ Forces("irq") = {}
      BY Zenon
    <2>2. todo["irq"] = <<>>
      BY <2>1, Zenon DEF active
    <2>3. Good(<<>>, Seen("irq", w, 0))
      BY <2>1, <2>2, Zenon DEF LInv, FlowInv, Peer
    <2>4. Done(Seen("irq", w, 0))
      BY <2>3, Unfold, Zenon
    <2>5. QED
      BY <2>2, <2>4, Zenon DEF Done, Seen, Place
  <1>4. f = "irq" => todo["irq"] # <<>> /\ w = "main" /\ IF_ = FALSE
    BY Zenon DEF active, LInv, MaskInv, TypeInv
  <1> HIDE DEF c
  <1>5. QED
    BY <1>1, <1>2, <1>3, <1>4, Unfold, Zenon DEF c

\* The flow that runs goes on with good code, and the other one stays where it
\* is; a handler that is through has masked nothing.
LEMMA FlowStep ==
    ASSUME NEW w, LInv(w), NEW f, f = active, NEW v, NEW code,
           todo' = [todo EXCEPT ![f] = code],
           Good(code, Seen(f, v, Len(saved))'),
           Seen(Peer(f), v, 0)' = Seen(Peer(f), w, 0)
    PROVE  /\ FlowInv(v)' /\ todo' \in [Flow -> Seq(Steps)]
           /\ todo["irq"] = <<>> => todo'["irq"] = <<>>
  <1> DEFINE g == Peer(f)
  <1>1. f \in Flow /\ g \in Flow /\ g # f /\ (f = "main" <=> todo["irq"] = <<>>)
    BY Zenon DEF active, Flow, Peer
  <1>2. code \in Seq(Steps) /\ todo \in [Flow -> Seq(Steps)]
    BY Unfold, Zenon DEF LInv, TypeInv
  <1>3. todo' \in [Flow -> Seq(Steps)] /\ todo'[f] = code /\ todo'[g] = todo[g]
    BY <1>1, <1>2, Zenon
  <1>4. Good(todo'[g], Seen(g, v, 0)')
    BY <1>3, Zenon DEF LInv, FlowInv
  <1>5. active' = f => FlowInv(v)'
    BY <1>3, <1>4, Zenon DEF FlowInv
  <1>6. ASSUME active' # f PROVE FlowInv(v)'
    <2>1. f = "irq" /\ g = "main" /\ code = <<>> /\ active' = "main" /\ Peer("main") = "irq"
      BY <1>1, <1>3, <1>6, Zenon DEF active, Flow, Peer
    <2>2. Done(Seen(f, v, Len(saved))')
      BY <2>1, Unfold, ZenonT(30)
    <2>3. Len(saved') = 0
      BY <2>2, Zenon DEF Done, Seen, Place
    <2>4. QED
      BY <1>3, <1>4, <2>1, <2>3, Zenon DEF FlowInv
  <1>7. todo["irq"] = <<>> => todo'["irq"] = <<>>
    BY <1>1, <1>3, Zenon DEF Flow
  <1>8. QED
    BY <1>3, <1>5, <1>6, <1>7, Zenon

\* A flag pushed and popped.
LEMMA PushFacts ==
    ASSUME NEW s \in Seq(BOOLEAN), NEW x \in BOOLEAN
    PROVE  /\ Append(s, x) \in Seq(BOOLEAN) /\ Len(Append(s, x)) = Len(s) + 1
           /\ Append(s, x)[Len(s) + 1] = x
           /\ \A k \in 1 .. Len(s) : Append(s, x)[k] = s[k]
  OBVIOUS

LEMMA PopFacts ==
    ASSUME NEW s \in Seq(BOOLEAN), Len(s) # 0, NEW t, t = SubSeq(s, 1, Len(s) - 1)
    PROVE  /\ t \in Seq(BOOLEAN) /\ Len(t) = Len(s) - 1 /\ s[Len(s)] \in BOOLEAN
           /\ \A k \in 1 .. Len(s) - 1 : t[k] = s[k]
  <1> DEFINE n == Len(s)
             m == n - 1
  <1>1. n \in Nat /\ n # 0
    OBVIOUS
  <1>2. m \in 0 .. n
    BY <1>1
  <1>3. \A k \in 1 .. m : k \in 1 .. n
    BY <1>1, <1>2
  <1>4. n \in 1 .. n
    BY <1>1
  <1>5. \A k \in 1 .. n : s[k] \in BOOLEAN
    OBVIOUS
  <1>6. t = SubSeq(s, 1, m)
    BY Zenon
  <1> HIDE DEF m
  <1>7. Len(t) = m /\ \A k \in 1 .. m : t[k] = s[k]
    BY <1>2, <1>6
  <1>8. t \in Seq(BOOLEAN)
    BY <1>2, <1>3, <1>5, <1>6, SMTT(30)
  <1>9. QED
    BY <1>4, <1>5, <1>7, <1>8, Zenon DEF m

\* Steps that touch no lock, no initialisation and no line.
LEMMA SeenSame ==
    ASSUME NEW f, NEW m, NEW n, UNCHANGED <<holder, forcing, port>>
    PROVE  /\ Seen(f, m, n)' = Seen(f, m, n)
           /\ Seen(f, m, Len(saved))' = Seen(f, m, Len(saved'))
  BY Zenon DEF Seen, Place, Held, Forces, Half

LEMMA PortSame ==
    ASSUME NEW w, LInv(w), UNCHANGED <<holder, port, lost>>
    PROVE  PortInv'
  BY Zenon DEF LInv, PortInv, MessagesWhole

LEMMA CliStep ==
    ASSUME NEW w, LInv(w), Cli, UNCHANGED port
    PROVE  LInv(w)'
  <1>1. PICK f : f = active
    BY Zenon
  <1> DEFINE n == Len(saved)
             c == Seen(f, w, n)
  <1>2. todo[active] # <<>> /\ Now.do = "cli" /\ todo' = [todo EXCEPT ![f] = Tail(todo[f])]
    BY <1>1, Zenon DEF Cli, At, Advance, Goes
  <1>3. TypeInv /\ saved' = Append(saved, IF_) /\ IF_' = FALSE
    BY Zenon DEF LInv, Cli
  <1>4. n \in Nat /\ Len(saved') = n + 1 /\ saved' \in Seq(BOOLEAN) /\ saved' # <<>>
        /\ saved'[n + 1] = IF_ /\ \A k \in 1 .. n : saved'[k] = saved[k]
    <2>1. saved \in Seq(BOOLEAN) /\ IF_ \in BOOLEAN
      BY <1>3, Zenon DEF TypeInv
    <2>2. n \in Nat
      BY <2>1
    <2>3. Len(saved') # 0
      BY <1>3, <2>1, <2>2, PushFacts
    <2>4. QED
      BY <1>3, <2>1, <2>2, <2>3, PushFacts, Zenon
  <1>5. Good(Tail(todo[f]), After(Now, c))
    BY <1>1, <1>2, Running, Zenon
  <1>6. After(Now, c) = Seen(f, w, n + 1)
    BY <1>2, Zenon DEF After, Seen, Place
  <1>7. Seen(f, w, Len(saved))' = Seen(f, w, n + 1) /\ Seen(Peer(f), w, 0)' = Seen(Peer(f), w, 0)
    <2>1. UNCHANGED <<holder, forcing, port>>
      BY DEF Cli
    <2>2. QED
      BY <1>4, <2>1, SeenSame, Zenon
  <1>8. FlowInv(w)' /\ todo' \in [Flow -> Seq(Steps)] /\ (todo["irq"] = <<>> => todo'["irq"] = <<>>)
    <2> DEFINE d == Seen(f, w, n + 1)
    <2>1. Good(Tail(todo[f]), d) /\ Seen(f, w, Len(saved))' = d
      BY <1>5, <1>6, <1>7
    <2> HIDE DEF d
    <2>2. QED
      BY <1>1, <1>2, <1>7, <2>1, FlowStep, Zenon
  <1>9. TypeInv'
    BY <1>3, <1>4, <1>8, Zenon DEF TypeInv, Cli
  <1>10. MaskInv(w)'
    <2>1. ASSUME NEW k \in 1 .. Len(saved'), k # 1 \/ todo'["irq"] # <<>> \/ w # "main"
          PROVE  saved'[k] = FALSE
      <3>1. CASE k = n + 1
        <4>1. IF_ => n = 0 /\ todo["irq"] = <<>> /\ w = "main"
          BY DEF LInv, MaskInv
        <4>2. IF_ => k = 1 /\ todo'["irq"] = <<>> /\ w = "main"
          BY <3>1, <4>1, <1>8
        <4>3. QED
          BY <2>1, <4>2, <3>1, <1>3, <1>4, Zenon DEF TypeInv
      <3>2. CASE k \in 1 .. n
        BY <2>1, <3>2, <1>4, <1>8, Zenon DEF LInv, MaskInv
      <3>3. k \in 1 .. n \/ k = n + 1
        <4>1. k \in 1 .. n + 1
          BY <1>4, Zenon
        <4> HIDE DEF n
        <4>2. QED
          BY <1>4, <4>1
      <3>4. QED
        BY <3>1, <3>2, <3>3, Zenon
    <2>2. QED
      BY <1>3, <1>8, <2>1, Zenon DEF LInv, MaskInv
  <1>11. OwnInv(w)'
    BY <1>4, <1>8, Zenon DEF LInv, OwnInv, Cli
  <1>12. PortInv'
    BY PortSame, Zenon DEF Cli
  <1>13. QED
    BY <1>8, <1>9, <1>10, <1>11, <1>12, Zenon DEF LInv

LEMMA StiStep ==
    ASSUME NEW w, LInv(w), Sti, UNCHANGED port
    PROVE  LInv(w)'
  <1>1. PICK f : f = active
    OBVIOUS
  <1> DEFINE n == Len(saved)
             c == Seen(f, w, n)
  <1>2. todo[active] # <<>> /\ Now.do = "sti" /\ todo' = [todo EXCEPT ![f] = Tail(todo[f])]
    BY <1>1, Zenon DEF Sti, At, Advance, Goes
  <1>3. TypeInv /\ saved' = SubSeq(saved, 1, n - 1) /\ IF_' = saved[n]
    BY DEF LInv, Sti
  <1>4. /\ Good(Tail(todo[f]), After(Now, c)) /\ Legal(Now, c)
        /\ f \in Flow /\ (f = "irq" => todo["irq"] # <<>>)
    BY <1>1, <1>2, Running, Zenon
  <1>5. n # 0 /\ holder["WRITER"] # f /\ forcing["WRITER"] # f
    BY <1>2, <1>4, Zenon DEF Legal, Seen, Place, Held, Forces, Mutex, Statics
  <1>6. /\ n \in Nat /\ Len(saved') = n - 1 /\ saved' \in Seq(BOOLEAN)
        /\ saved[n] \in BOOLEAN
        /\ \A k \in 1 .. n - 1 : saved'[k] = saved[k]
    <2>1. saved \in Seq(BOOLEAN)
      BY <1>3 DEF TypeInv
    <2>2. n \in Nat
      BY <2>1
    <2>3. QED
      BY <1>3, <1>5, <2>1, <2>2, PopFacts, Zenon
  <1>7. After(Now, c) = Seen(f, w, n - 1)
    BY <1>2, Zenon DEF After, Seen, Place
  <1>8. Seen(f, w, Len(saved))' = Seen(f, w, n - 1) /\ Seen(Peer(f), w, 0)' = Seen(Peer(f), w, 0)
    <2>1. UNCHANGED <<holder, forcing, port>>
      BY DEF Sti
    <2>2. QED
      BY <1>6, <2>1, SeenSame, Zenon
  <1>9. FlowInv(w)' /\ todo' \in [Flow -> Seq(Steps)] /\ (todo["irq"] = <<>> => todo'["irq"] = <<>>)
    BY <1>1, <1>2, <1>4, <1>7, <1>8, FlowStep, Zenon
  <1>10. TypeInv'
    BY <1>3, <1>6, <1>9, Zenon DEF TypeInv, Sti
  <1>11. MaskInv(w)'
    <2>1. \A k \in 1 .. Len(saved') :
              k # 1 \/ todo'["irq"] # <<>> \/ w # "main" => saved'[k] = FALSE
      BY <1>6, <1>9 DEF LInv, MaskInv
    <2>2. IF_' => n = 1 /\ todo["irq"] = <<>> /\ w = "main"
      <3>1. n \in 1 .. Len(saved)
        BY <1>5, <1>6
      <3>2. QED
        BY <1>3, <3>1, Zenon DEF LInv, MaskInv
    <2>3. n = 1 => saved' = <<>>
      BY <1>6
    <2>4. QED
      BY <1>9, <2>1, <2>2, <2>3, Zenon DEF LInv, MaskInv
  <1>12. OwnInv(w)'
    <2>1. ~ (holder["WRITER"] = "main" \/ forcing["WRITER"] = "main")
      BY <1>4, <1>5, Zenon DEF LInv, OwnInv, Flow
    <2>2. QED
      BY <2>1, Zenon DEF LInv, OwnInv, Sti
  <1>13. PortInv'
    BY PortSame, Zenon DEF Sti
  <1>14. QED
    BY <1>9, <1>10, <1>11, <1>12, <1>13 DEF LInv

\* A step that changes nothing but what is left to do.
LEMMA PlainStep ==
    ASSUME NEW w, LInv(w), NEW f, f = active, NEW code, todo' = [todo EXCEPT ![f] = code],
           Good(code, Seen(f, w, Len(saved))),
           UNCHANGED <<holder, ready, forcing, IF_, saved, tick_count, lost, port>>
    PROVE  LInv(w)'
  <1>1. /\ Seen(f, w, Len(saved))' = Seen(f, w, Len(saved))
        /\ Seen(Peer(f), w, 0)' = Seen(Peer(f), w, 0)
    BY SeenSame
  <1>2. FlowInv(w)' /\ todo' \in [Flow -> Seq(Steps)] /\ (todo["irq"] = <<>> => todo'["irq"] = <<>>)
    BY <1>1, FlowStep, Zenon
  <1>3. TypeInv'
    BY <1>2, Zenon DEF LInv, TypeInv
  <1>4. MaskInv(w)'
    BY <1>2, Zenon DEF LInv, MaskInv
  <1>5. OwnInv(w)'
    BY <1>2, Zenon DEF LInv, OwnInv
  <1>6. PortInv'
    BY PortSame
  <1>7. QED
    BY <1>2, <1>3, <1>4, <1>5, <1>6, Zenon DEF LInv

LEMMA PrintStep ==
    ASSUME NEW w, LInv(w), Write("print") \/ Write("color"), UNCHANGED port
    PROVE  LInv(w)'
  <1>1. PICK f : f = active
    BY Zenon
  <1> DEFINE c == Seen(f, w, Len(saved))
  <1>2. /\ todo[active] # <<>> /\ Now.do \in {"print", "color"}
        /\ todo' = [todo EXCEPT ![f] = Tail(todo[f])]
    BY <1>1 DEF Write, At, Advance, Goes
  <1>3. Good(Tail(todo[f]), After(Now, c))
    BY <1>1, <1>2, Running, Zenon
  <1>4. After(Now, c) = c
    BY <1>2, Zenon DEF After
  <1>5. UNCHANGED <<holder, ready, forcing, IF_, saved, tick_count, lost, port>>
    BY DEF Write
  <1>6. QED
    BY <1>1, <1>2, <1>3, <1>4, <1>5, PlainStep, Zenon

LEMMA PanicStep ==
    ASSUME NEW w, LInv(w), PanicOrGoOn, UNCHANGED port
    PROVE  LInv(w)'
  <1>1. PICK f : f = active
    OBVIOUS
  <1> DEFINE c == Seen(f, w, Len(saved))
  <1>2. /\ todo[active] # <<>> /\ Now.do = "panic?"
        /\ \/ todo' = [todo EXCEPT ![f] = Tail(todo[f])]
           \/ todo' = [todo EXCEPT ![f] = panic]
    BY <1>1 DEF PanicOrGoOn, At, Advance, Goes
  <1>3. Good(Tail(todo[f]), After(Now, c)) /\ Legal(Now, c) /\ c \in Context
    BY <1>1, <1>2, Running, Zenon
  <1>4. After(Now, c) = c
    BY <1>2, ZenonT(30) DEF After
  <1> HIDE DEF c
  <1>5. c.forcing = {} /\ "WRITER" \notin c.held
    BY <1>2, <1>3, Zenon DEF Legal
  <1>6. Good(panic, c)
    BY <1>3, <1>5, PanicAloneIsGood, Zenon
  <1>7. UNCHANGED <<holder, ready, forcing, IF_, saved, tick_count, lost, port>>
    BY Zenon DEF PanicOrGoOn
  <1>8. QED
    BY <1>1, <1>2, <1>3, <1>4, <1>6, <1>7, PlainStep, Zenon DEF c

LEMMA SeenNext ==
    ASSUME NEW f, NEW m
    PROVE  /\ Seen(f, m, Len(saved))' = Place(Mode(f, m), Held(f)', Len(saved'), Forces(f)', Half(f)')
           /\ Seen(f, m, 0)' = Place(Mode(f, m), Held(f)', 0, Forces(f)', Half(f)')
  BY Zenon DEF Seen, Mode, Place

LEMMA PlaceParts ==
    ASSUME NEW m, NEW h, NEW n, NEW g, NEW x, NEW c, c = Place(m, h, n, g, x)
    PROVE  c.who = m /\ c.held = h /\ c.depth = n /\ c.forcing = g /\ c.half = x
  BY DEF Place

LEMMA PlaceHold ==
    ASSUME NEW m, NEW h, NEW n, NEW g, NEW x, NEW l, NEW c, c = Place(m, h, n, g, x)
    PROVE  Holding(c, l) = Place(m, h \cup {l}, n, g, x)
  BY DEF Place, Holding

\* A mutex changes hands between f and nobody.
LEMMA TakeFacts ==
    ASSUME TypeInv, NEW l \in Mutex, NEW f \in Flow, holder[l] = Free,
           holder' = [holder EXCEPT ![l] = f], UNCHANGED <<forcing, port>>
    PROVE  /\ holder' \in [Mutex -> Flow \cup {Free}]
           /\ Held(f)' = Held(f) \cup {l} /\ Held(Peer(f))' = Held(Peer(f))
           /\ Forces(f)' = Forces(f) /\ Forces(Peer(f))' = Forces(Peer(f))
           /\ Half(Peer(f))' = Half(Peer(f))
           /\ (l = "SERIAL1" => Len(port) % 2 = 0) => Half(f)' = Half(f)
  <1>1. Peer(f) # f /\ Peer(f) # Free /\ f # Free /\ holder \in [Mutex -> Flow \cup {Free}]
    BY Zenon DEF Flow, Free, Peer, TypeInv
  <1>2. "SERIAL1" \in Mutex
    BY Zenon DEF Mutex, Statics
  <1>3. holder' \in [Mutex -> Flow \cup {Free}]
    BY <1>1, Zenon
  <1>4. Held(f)' = Held(f) \cup {l} /\ Held(Peer(f))' = Held(Peer(f))
    BY <1>1, Zenon DEF Held
  <1>5. Forces(f)' = Forces(f) /\ Forces(Peer(f))' = Forces(Peer(f))
    BY Zenon DEF Forces
  <1>6. Half(Peer(f))' = Half(Peer(f))
    BY <1>1, <1>2, Zenon DEF Half
  <1>7. (l = "SERIAL1" => Len(port) % 2 = 0) => Half(f)' = Half(f)
    BY <1>1, <1>2, ZenonT(30) DEF Half
  <1>8. QED
    BY <1>3, <1>4, <1>5, <1>6, <1>7, Zenon

LEMMA ReleaseFacts ==
    ASSUME TypeInv, NEW l \in Mutex, NEW f \in Flow, holder[l] = f,
           holder' = [holder EXCEPT ![l] = Free], UNCHANGED <<forcing, port>>
    PROVE  /\ holder' \in [Mutex -> Flow \cup {Free}]
           /\ Held(f)' = Held(f) \ {l} /\ Held(Peer(f))' = Held(Peer(f))
           /\ Forces(f)' = Forces(f) /\ Forces(Peer(f))' = Forces(Peer(f))
           /\ Half(Peer(f))' = Half(Peer(f))
           /\ (l = "SERIAL1" => Len(port) % 2 = 0) => Half(f)' = Half(f)
  <1>1. Peer(f) # f /\ Peer(f) # Free /\ f # Free /\ holder \in [Mutex -> Flow \cup {Free}]
    BY Zenon DEF Flow, Free, Peer, TypeInv
  <1>2. "SERIAL1" \in Mutex
    BY Zenon DEF Mutex, Statics
  <1>3. holder' \in [Mutex -> Flow \cup {Free}]
    BY <1>1, Zenon
  <1>4. Held(f)' = Held(f) \ {l} /\ Held(Peer(f))' = Held(Peer(f))
    BY <1>1, Zenon DEF Held
  <1>5. Forces(f)' = Forces(f) /\ Forces(Peer(f))' = Forces(Peer(f))
    BY Zenon DEF Forces
  <1>6. Half(Peer(f))' = Half(Peer(f))
    BY <1>1, <1>2, Zenon DEF Half
  <1>7. (l = "SERIAL1" => Len(port) % 2 = 0) => Half(f)' = Half(f)
    BY <1>1, <1>2, ZenonT(30) DEF Half
  <1>8. QED
    BY <1>3, <1>4, <1>5, <1>6, <1>7, Zenon

\* The flow that runs takes a free mutex it may take and goes on with code that
\* is good while it holds it.
LEMMA TakeStep ==
    ASSUME NEW w, LInv(w), todo[active] # <<>>, NEW f, f = active,
           NEW l \in Mutex, holder[l] = Free, holder' = [holder EXCEPT ![l] = f],
           f = "main" => MayLock(l, Seen(f, w, Len(saved))),
           NEW code, todo' = [todo EXCEPT ![f] = code],
           Good(code, Holding(Seen(f, w, Len(saved)), l)),
           UNCHANGED <<ready, forcing, IF_, saved, tick_count, lost, port>>
    PROVE  LInv(w)'
  <1> DEFINE c == Seen(f, w, Len(saved))
  <1>1. /\ f \in Flow /\ Peer(f) \in Flow /\ Peer(f) # f
        /\ (f = "main" => todo["irq"] = <<>>) /\ (f = "irq" => w = "main")
    BY Running, Zenon
  <1>2. TypeInv /\ PortInv
    BY Zenon DEF LInv
  <1>3. l = "SERIAL1" => Len(port) % 2 = 0
    BY <1>2, ZenonT(30) DEF PortInv
  <1>4. Seen(f, w, Len(saved))' = Holding(c, l) /\ Seen(Peer(f), w, 0)' = Seen(Peer(f), w, 0)
    <2>1. /\ Held(f)' = Held(f) \cup {l} /\ Held(Peer(f))' = Held(Peer(f))
          /\ Forces(f)' = Forces(f) /\ Forces(Peer(f))' = Forces(Peer(f))
          /\ Half(f)' = Half(f) /\ Half(Peer(f))' = Half(Peer(f))
      BY <1>1, <1>2, <1>3, TakeFacts, Zenon
    <2>2. Seen(f, w, Len(saved))' = Holding(c, l)
      <3>1. c = Place(Mode(f, w), Held(f), Len(saved), Forces(f), Half(f))
        BY Zenon DEF Seen
      <3>2. Holding(c, l) = Place(Mode(f, w), Held(f) \cup {l}, Len(saved), Forces(f), Half(f))
        BY <3>1, PlaceHold
      <3>3. QED
        BY <2>1, <3>2, SeenNext, Zenon
    <2>3. QED
      BY <2>1, <2>2, SeenNext, Zenon DEF Seen
  <1>5. FlowInv(w)' /\ todo' \in [Flow -> Seq(Steps)] /\ (todo["irq"] = <<>> => todo'["irq"] = <<>>)
    BY <1>4, FlowStep, Zenon
  <1>6. holder' \in [Mutex -> Flow \cup {Free}]
    BY <1>1, <1>2, TakeFacts, Zenon
  <1>7. TypeInv'
    BY <1>2, <1>5, <1>6, Zenon DEF TypeInv
  <1>8. MaskInv(w)'
    BY <1>5, Zenon DEF LInv, MaskInv
  <1>9. f = "main" => (l = "WRITER" => saved # <<>>) /\ (l = "PICS" => w # "main")
    BY <1>1, <1>2, Zenon DEF MayLock, Seen, Place, Mode, TypeInv, LInv, MaskInv
  <1>10. OwnInv(w)'
    <2>1. holder \in [Mutex -> Flow \cup {Free}] /\ "WRITER" \in Mutex /\ "PICS" \in Mutex
      BY <1>2, Zenon DEF TypeInv, Mutex, Statics
    <2>2. holder'["WRITER"] = "main" => holder["WRITER"] = "main" \/ (l = "WRITER" /\ f = "main")
      BY <2>1, Zenon
    <2>3. holder'["PICS"] = "main" => holder["PICS"] = "main" \/ (l = "PICS" /\ f = "main")
      BY <2>1, Zenon
    <2>4. QED
      BY <1>1, <1>5, <1>9, <2>2, <2>3, Zenon DEF LInv, OwnInv
  <1>11. PortInv'
    <2>1. "SERIAL1" \in Mutex /\ holder \in [Mutex -> Flow \cup {Free}] /\ f # Free
      BY <1>1, <1>2, Zenon DEF TypeInv, Mutex, Statics, Flow, Free
    <2>2. CASE l = "SERIAL1"
      BY <1>2, <1>3, <2>1, <2>2 DEF PortInv, MessagesWhole
    <2>3. CASE l # "SERIAL1"
      BY <1>2, <2>1, <2>3, Zenon DEF PortInv, MessagesWhole
    <2>4. QED
      BY <2>2, <2>3, Zenon
  <1>12. QED
    BY <1>5, <1>7, <1>8, <1>10, <1>11, Zenon DEF LInv

LEMMA LockStep ==
    ASSUME NEW w, LInv(w), Lock, UNCHANGED port
    PROVE  LInv(w)'
  <1>1. PICK f : f = active
    OBVIOUS
  <1>2. PICK l : l = Now.on
    BY Zenon
  <1> DEFINE c == Seen(f, w, Len(saved))
  <1>3. /\ todo[active] # <<>> /\ Now.do = "lock" /\ todo' = [todo EXCEPT ![f] = Tail(todo[f])]
        /\ holder[l] = Free /\ holder' = [holder EXCEPT ![l] = f]
    BY <1>1, <1>2 DEF Lock, At, Advance, Goes
  <1>4. Good(Tail(todo[f]), After(Now, c)) /\ Legal(Now, c)
    BY <1>1, <1>3, Running, Zenon
  <1>5. After(Now, c) = Holding(c, l)
    BY <1>2, <1>3 DEF After, Holding
  <1>6. l \in Mutex /\ MayLock(l, c)
    BY <1>2, <1>3, <1>4, Zenon DEF Legal
  <1>7. UNCHANGED <<ready, forcing, IF_, saved, tick_count, lost, port>>
    BY Zenon DEF Lock
  <1>8. QED
    BY <1>1, <1>3, <1>4, <1>5, <1>6, <1>7, TakeStep, Zenon

LEMMA UnlockStep ==
    ASSUME NEW w, LInv(w), Unlock, UNCHANGED port
    PROVE  LInv(w)'
  <1>1. PICK f : f = active
    OBVIOUS
  <1>2. PICK l : l = Now.on
    OBVIOUS
  <1> DEFINE c == Seen(f, w, Len(saved))
  <1>3. /\ todo[active] # <<>> /\ Now.do = "unlock" /\ todo' = [todo EXCEPT ![f] = Tail(todo[f])]
        /\ holder' = [holder EXCEPT ![l] = Free]
    BY <1>1, <1>2 DEF Unlock, At, Advance, Goes
  <1>4. Good(Tail(todo[f]), After(Now, c)) /\ Legal(Now, c) /\ f \in Flow
    BY <1>1, <1>3, Running, Zenon
  <1>5. After(Now, c) = [c EXCEPT !.held = @ \ {l}]
    BY <1>2, <1>3, ZenonT(30) DEF After
  <1>6. l \in Mutex /\ holder[l] = f /\ (l = "SERIAL1" => Len(port) % 2 = 0)
    BY <1>2, <1>3, <1>4, Zenon DEF Legal, Seen, Place, Held, Half
  <1>7. UNCHANGED <<ready, forcing, IF_, saved, tick_count, lost, port>>
    BY DEF Unlock
  <1>8. TypeInv /\ PortInv
    BY Zenon DEF LInv
  <1>9. /\ Seen(f, w, Len(saved))' = [c EXCEPT !.held = @ \ {l}]
        /\ Seen(Peer(f), w, 0)' = Seen(Peer(f), w, 0)
    <2>1. /\ Held(f)' = Held(f) \ {l} /\ Held(Peer(f))' = Held(Peer(f))
          /\ Forces(f)' = Forces(f) /\ Forces(Peer(f))' = Forces(Peer(f))
          /\ Half(f)' = Half(f) /\ Half(Peer(f))' = Half(Peer(f))
      BY <1>3, <1>4, <1>6, <1>7, <1>8, ReleaseFacts, Zenon
    <2>2. Seen(f, w, Len(saved))' = [c EXCEPT !.held = @ \ {l}]
      <3>1. c = Place(Mode(f, w), Held(f), Len(saved), Forces(f), Half(f))
        BY DEF Seen
      <3> HIDE DEF c
      <3>2. [c EXCEPT !.held = @ \ {l}]
               = Place(Mode(f, w), Held(f) \ {l}, Len(saved), Forces(f), Half(f))
        BY <3>1 DEF Place
      <3>3. QED
        BY <1>7, <2>1, <3>2, SeenNext, Zenon
    <2>3. QED
      BY <2>1, <2>2, SeenNext, Zenon DEF Seen
  <1>10. FlowInv(w)' /\ todo' \in [Flow -> Seq(Steps)] /\ (todo["irq"] = <<>> => todo'["irq"] = <<>>)
    <2> DEFINE d == [c EXCEPT !.held = @ \ {l}]
    <2>1. Good(Tail(todo[f]), d) /\ Seen(f, w, Len(saved))' = d
      BY <1>4, <1>5, <1>9, Zenon
    <2> HIDE DEF d
    <2>2. QED
      BY <1>1, <1>3, <1>9, <2>1, FlowStep, Zenon
  <1>11. holder' \in [Mutex -> Flow \cup {Free}]
    BY <1>3, <1>4, <1>6, <1>7, <1>8, ReleaseFacts, Zenon
  <1>12. TypeInv'
    BY <1>7, <1>8, <1>10, <1>11, Zenon DEF TypeInv
  <1>13. MaskInv(w)'
    BY <1>7, <1>10, Zenon DEF LInv, MaskInv
  <1>14. \A m \in Mutex : holder'[m] = "main" => holder[m] = "main"
    BY <1>3, <1>8, Zenon DEF TypeInv, Free
  <1>15. OwnInv(w)'
    <2>1. "WRITER" \in Mutex /\ "PICS" \in Mutex
      BY DEF Mutex, Statics
    <2>2. QED
      BY <1>7, <1>10, <1>14, <2>1, Zenon DEF LInv, OwnInv
  <1>16. PortInv'
    <2>1. "SERIAL1" \in Mutex /\ holder \in [Mutex -> Flow \cup {Free}]
      BY <1>8, Zenon DEF TypeInv, Mutex, Statics
    <2>2. CASE l = "SERIAL1"
      BY <1>3, <1>6, <1>7, <1>8, <2>1, <2>2, SMTT(30) DEF PortInv, MessagesWhole
    <2>3. CASE l # "SERIAL1"
      BY <1>3, <1>7, <1>8, <2>1, <2>3, Zenon DEF PortInv, MessagesWhole
    <2>4. QED
      BY <2>2, <2>3, Zenon
  <1>17. QED
    BY <1>10, <1>12, <1>13, <1>15, <1>16 DEF LInv

\* The logger of a handler may find the port taken; the one of the main flow
\* never does.
LEMMA TryStep ==
    ASSUME NEW w, LInv(w), TryLock, UNCHANGED port
    PROVE  LInv(w)'
  <1>1. PICK f : f = active
    OBVIOUS
  <1>2. PICK l : l = Now.on
    OBVIOUS
  <1> DEFINE c == Seen(f, w, Len(saved))
  <1>3. todo[active] # <<>> /\ Now.do = "try"
    BY DEF TryLock, At
  <1>4. /\ Good(Tail(todo[f]), After(Now, c)) /\ Legal(Now, c) /\ c \in Context
        /\ f \in Flow /\ (f = "main" => Held("irq") = {}) /\ Tail(todo[f]) \in Seq(Steps)
    BY <1>1, <1>3, Running, Zenon
  <1>5. /\ After(Now, c) = c /\ l = "SERIAL1" /\ "SERIAL1" \notin c.held /\ c.forcing = {}
        /\ l \in Mutex
    BY <1>2, <1>3, <1>4, ZenonT(30) DEF After, Legal, Mutex, Statics
  <1>6. UNCHANGED <<ready, forcing, IF_, saved, tick_count, port>>
    BY DEF TryLock
  <1>7. CASE holder[l] = Free
    <2> DEFINE d == Holding(c, l)
               u == Step("unlock", l)
               t == Tail(todo[f])
    <2>1. /\ holder' = [holder EXCEPT ![l] = f] /\ UNCHANGED lost
          /\ todo' = [todo EXCEPT ![f] = Message \o <<u>> \o t]
      BY <1>1, <1>2, <1>7, Zenon DEF TryLock, Goes
    <2>2. c.half = 0 /\ (f = "main" => MayLock(l, c))
      <3>1. holder["SERIAL1"] # f
        BY <1>4, <1>5, <1>7, Zenon DEF Flow, Free
      <3>2. c.half = 0
        BY <3>1 DEF Seen, Place, Half
      <3>3. f = "main" => MayLock(l, c)
        BY <1>5, <1>4, Zenon DEF MayLock, Seen, Place, Mode, LInv, MaskInv
      <3>4. QED
        BY <3>2, <3>3, Zenon
    <2>3. d \in Context /\ d.held = c.held \cup {l} /\ d.forcing = {} /\ d.half = 0
      BY <1>4, <1>5, <2>2, HoldingFacts, Zenon
    <2>4. [d EXCEPT !.held = @ \ {l}] = c
      BY <1>4, <1>5, HoldingFacts, ZenonT(30)
    <2>5. u \in Steps /\ u.do = "unlock" /\ u.on = l
      BY <1>5, StepFacts, SMTT(30) DEF Kinds
    <2>6. t \in Seq(Steps) /\ Good(t, c)
      BY <1>4, <1>5, Zenon
    <2> HIDE DEF c, d, u, t
    <2>7. Legal(u, d) /\ After(u, d) = c
      BY <1>5, <2>3, <2>4, <2>5, ZenonT(30) DEF Legal, After
    <2>8. Good(<<u>> \o t, d)
      BY <2>3, <2>5, <2>6, <2>7, Cons, Zenon
    <2>9. Runs(Message, d, d)
      BY <1>5, <2>3, RunMessage
    <2>10. Good(Message \o <<u>> \o t, d)
      <3>1. <<u>> \o t \in Seq(Steps) /\ <<u>> \in Seq(Steps) /\ Message \in Seq(Steps)
        BY <2>5, <2>6, <2>9 DEF Runs
      <3>2. Good(Message \o (<<u>> \o t), d)
        BY <2>8, <2>9, <3>1, Zenon DEF Runs
      <3>3. Message \o (<<u>> \o t) = Message \o <<u>> \o t
        BY <2>6, <3>1, SMTT(30)
      <3>4. QED
        BY <3>2, <3>3, Zenon
    <2> DEFINE code == Message \o <<u>> \o t
    <2>11. todo' = [todo EXCEPT ![f] = code] /\ Good(code, d)
      BY <2>1, <2>10
    <2> HIDE DEF code
    <2>12. QED
      BY <1>1, <1>3, <1>5, <1>6, <1>7, <2>1, <2>2, <2>11, TakeStep, Zenon DEF c, d
  <1>8. CASE holder[l] # Free
    <2>1. f = "irq"
      <3>1. holder[l] \in Flow
        BY <1>5, <1>8, Zenon DEF LInv, TypeInv
      <3>2. holder[l] # f
        BY <1>5 DEF Seen, Place, Held
      <3>3. f = "main" => holder[l] # "irq"
        BY <1>4, <1>5, ZenonT(30) DEF Held
      <3>4. QED
        BY <1>4, <3>1, <3>2, <3>3, ZenonT(30) DEF Flow
    <2>2. /\ lost' = [lost EXCEPT ![f] = @ + 1] /\ UNCHANGED holder
          /\ todo' = [todo EXCEPT ![f] = Tail(todo[f])]
      BY <1>1, <1>2, <1>8, Zenon DEF TryLock, Advance, Goes
    <2>3. /\ Seen(f, w, Len(saved))' = c
          /\ Seen(Peer(f), w, 0)' = Seen(Peer(f), w, 0)
      BY <1>6, <2>2, SeenSame, Zenon
    <2>4. FlowInv(w)' /\ todo' \in [Flow -> Seq(Steps)] /\ (todo["irq"] = <<>> => todo'["irq"] = <<>>)
      <3> HIDE DEF c
      <3>1. Good(Tail(todo[f]), c)
        BY <1>4, <1>5, Zenon
      <3>2. QED
        BY <1>1, <2>2, <2>3, <3>1, FlowStep, ZenonT(30)
    <2>5. lost' \in [Flow -> Nat] /\ lost'["main"] = lost["main"]
      BY <1>4, <2>1, <2>2, SMTT(30) DEF LInv, TypeInv, Flow
    <2>6. TypeInv'
      BY <1>6, <2>2, <2>4, <2>5, ZenonT(30) DEF LInv, TypeInv
    <2>7. MaskInv(w)' /\ OwnInv(w)'
      BY <1>6, <2>2, <2>4, ZenonT(30) DEF LInv, MaskInv, OwnInv
    <2>8. PortInv'
      BY <1>6, <2>2, <2>5, Zenon DEF LInv, PortInv, MessagesWhole
    <2>9. QED
      BY <2>4, <2>6, <2>7, <2>8 DEF LInv
  <1>9. QED
    BY <1>7, <1>8, Zenon

\* The first use of a static starts its initialisation.
LEMMA UseStep ==
    ASSUME NEW w, LInv(w), UseStatic, UNCHANGED port
    PROVE  LInv(w)'
  <1>1. PICK f : f = active
    OBVIOUS
  <1>2. PICK l : l = Now.on
    OBVIOUS
  <1> DEFINE c == Seen(f, w, Len(saved))
             t == Tail(todo[f])
             e == After(Now, c)
  <1>3. todo[active] # <<>> /\ Now.do = "force" /\ forcing[l] = Free
    BY <1>2 DEF UseStatic, At
  <1>4. /\ Good(t, e) /\ Legal(Now, c) /\ c \in Context /\ t \in Seq(Steps)
        /\ f \in Flow /\ Peer(f) \in Flow /\ Peer(f) # f
        /\ (f = "main" => todo["irq"] = <<>>) /\ (f = "irq" => w = "main")
    BY <1>1, <1>3, Running, Zenon
  <1>5. UNCHANGED <<holder, ready, IF_, saved, tick_count, lost, port>>
    BY Zenon DEF UseStatic
  <1>6. l \in Statics /\ MayForce(l, c) /\ c.forcing = {} /\ e = [c EXCEPT !.who = Warm(l, c)]
    BY <1>2, <1>3, <1>4, Zenon DEF Legal, After
  <1>7. TypeInv /\ OwnInv(w)
    BY DEF LInv
  <1>8. CASE l \in ready
    <2>1. UNCHANGED forcing /\ todo' = [todo EXCEPT ![f] = t]
      BY <1>1, <1>2, <1>8, ZenonT(30) DEF UseStatic, Advance, Goes
    <2>2. Warm(l, c) = c.who
      BY <1>7, <1>8, Zenon DEF OwnInv, Warm, Seen, Place, Mode
    <2>3. e = c
      BY <1>4, <1>6, <2>2, ZenonT(30) DEF Context
    <2> HIDE DEF e, t, c
    <2>4. QED
      BY <1>1, <1>4, <1>5, <2>1, <2>3, PlainStep, Zenon DEF c
  <1>9. CASE l \notin ready
    <2> DEFINE d == [c EXCEPT !.forcing = {l}]
               u == Step("forced", l)
    <2>1. forcing' = [forcing EXCEPT ![l] = f] /\ todo' = [todo EXCEPT ![f] = <<u>> \o t]
      BY <1>1, <1>2, <1>9, Zenon DEF UseStatic, Goes
    <2>2. u \in Steps /\ u.do = "forced" /\ u.on = l
      BY <1>6, StepFacts DEF Kinds, Mutex
    <2>3. d \in Context /\ d.forcing = {l} /\ d.who = c.who
      BY <1>4, <1>6, Zenon DEF Context
    <2>4. [d EXCEPT !.who = Warm(l, c), !.forcing = {}] = [c EXCEPT !.who = Warm(l, c)]
      BY <1>4, <1>6, ZenonT(30) DEF Context
    <2>5. Good(<<u>> \o t, d)
      <3> HIDE DEF d, e, c, u, t
      <3>1. Warm(l, d) = Warm(l, c)
        BY <2>3, Zenon DEF Warm
      <3>2. After(u, d) = e /\ Legal(u, d)
        BY <1>6, <2>2, <2>3, <2>4, <3>1, Zenon DEF After, Legal
      <3>3. QED
        BY <1>4, <2>2, <2>3, <3>2, Cons, Zenon
    <2>6. /\ forcing' \in [Statics -> Flow \cup {Free}] /\ f # Free
          /\ Forces(f)' = {l} /\ Forces(Peer(f))' = Forces(Peer(f))
      <3>1. Forces(f) = {}
        BY <1>6, Zenon DEF Seen, Place
      <3>2. f # Free /\ Peer(f) # Free /\ forcing \in [Statics -> Flow \cup {Free}]
        BY <1>4, <1>7, ZenonT(30) DEF Flow, Free, TypeInv
      <3>3. QED
        BY <1>3, <1>4, <1>6, <2>1, <3>1, <3>2, Zenon DEF Forces
    <2>7. /\ Held(f)' = Held(f) /\ Held(Peer(f))' = Held(Peer(f))
          /\ Half(f)' = Half(f) /\ Half(Peer(f))' = Half(Peer(f))
      BY <1>5 DEF Held, Half
    <2>8. Seen(f, w, Len(saved))' = d
      <3>1. c = Place(Mode(f, w), Held(f), Len(saved), Forces(f), Half(f))
        BY DEF Seen
      <3> DEFINE z == {l}
      <3> HIDE DEF c, z
      <3>2. [c EXCEPT !.forcing = z] = Place(Mode(f, w), Held(f), Len(saved), z, Half(f))
        BY <3>1, SMTT(30) DEF Place
      <3>3. QED
        BY <1>5, <2>6, <2>7, <3>2, SeenNext, Zenon DEF z
    <2>9. Seen(Peer(f), w, 0)' = Seen(Peer(f), w, 0)
      BY <2>6, <2>7, SeenNext, Zenon DEF Seen
    <2>10. FlowInv(w)' /\ todo' \in [Flow -> Seq(Steps)] /\ (todo["irq"] = <<>> => todo'["irq"] = <<>>)
      <3> DEFINE code == <<u>> \o t
      <3>1. todo' = [todo EXCEPT ![f] = code] /\ Good(code, d)
        BY <2>1, <2>5, Zenon
      <3> HIDE DEF code, d
      <3>2. QED
        BY <1>1, <2>8, <2>9, <3>1, FlowStep, Zenon
    <2>11. TypeInv'
      BY <1>5, <1>7, <2>6, <2>10, ZenonT(30) DEF TypeInv
    <2>12. MaskInv(w)'
      BY <1>5, <2>10, Zenon DEF LInv, MaskInv
    <2>13. f = "main" /\ l = "WRITER" => saved # <<>>
      BY <1>6, <1>7, Zenon DEF MayForce, Seen, Place, Mode, TypeInv, LInv, MaskInv
    <2>14. OwnInv(w)'
      <3>1. \A s \in Statics : forcing'[s] = IF s = l THEN f ELSE forcing[s]
        BY <1>7, <2>1, Zenon DEF TypeInv
      <3>2. "WRITER" \in Statics
        BY Zenon DEF Statics
      <3>3. forcing'["WRITER"] = "main" => forcing["WRITER"] = "main" \/ (l = "WRITER" /\ f = "main")
        BY <3>1, <3>2, Zenon
      <3>4. \A s \in Statics : forcing'[s] # Free => s \notin ready
        BY <1>7, <1>9, <3>1, Zenon DEF OwnInv
      <3>5. QED
        BY <1>4, <1>5, <1>7, <2>10, <2>13, <3>3, <3>4, ZenonT(30) DEF OwnInv
    <2>15. PortInv'
      BY <1>5, PortSame, Zenon
    <2>16. QED
      BY <2>10, <2>11, <2>12, <2>14, <2>15 DEF LInv
  <1>10. QED
    BY <1>8, <1>9, ZenonT(30)

\* The end of an initialisation; the one of the port ends the first part of
\* boot.
LEMMA ForcedStep ==
    ASSUME NEW w, LInv(w), Forced, UNCHANGED port
    PROVE  \E v : LInv(v)'
  <1>1. PICK f : f = active
    OBVIOUS
  <1>2. PICK l : l = Now.on
    OBVIOUS
  <1>3. PICK v : v = IF l = "SERIAL1" /\ w = "cold" THEN "boot" ELSE w
    BY Zenon
  <1> DEFINE c == Seen(f, w, Len(saved))
             t == Tail(todo[f])
             d == [c EXCEPT !.who = Warm(l, c), !.forcing = {}]
  <1>4. /\ todo[active] # <<>> /\ Now.do = "forced" /\ ready' = ready \cup {l}
        /\ forcing' = [forcing EXCEPT ![l] = Free] /\ todo' = [todo EXCEPT ![f] = t]
    BY <1>1, <1>2 DEF Forced, At, Advance, Goes
  <1>5. /\ Good(t, After(Now, c)) /\ Legal(Now, c) /\ c \in Context
        /\ f \in Flow /\ Peer(f) \in Flow /\ Peer(f) # f
        /\ (f = "main" => todo["irq"] = <<>>) /\ (f = "irq" => w = "main")
    BY <1>1, <1>4, Running, Zenon
  <1>6. UNCHANGED <<holder, IF_, saved, tick_count, lost, port>>
    BY Zenon DEF Forced
  <1>7. After(Now, c) = d /\ c.forcing = {l}
    BY <1>2, <1>4, <1>5, Zenon DEF After, Legal
  <1>8. l \in Statics /\ Forces(f) = {l} /\ forcing[l] = f
    BY <1>7, Zenon DEF Seen, Place, Forces
  <1>9. TypeInv /\ OwnInv(w) /\ MaskInv(w)
    BY DEF LInv
  <1>10. /\ forcing' \in [Statics -> Flow \cup {Free}]
         /\ Forces(f)' = {} /\ Forces(Peer(f))' = Forces(Peer(f))
    <2>1. f # Free /\ Peer(f) # Free /\ forcing \in [Statics -> Flow \cup {Free}]
      BY <1>5, <1>9, Zenon DEF Flow, Free, TypeInv
    <2>2. QED
      BY <1>4, <1>5, <1>8, <2>1, ZenonT(30) DEF Forces
  <1>11. /\ Held(f)' = Held(f) /\ Held(Peer(f))' = Held(Peer(f))
         /\ Half(f)' = Half(f) /\ Half(Peer(f))' = Half(Peer(f))
    BY <1>6 DEF Held, Half
  <1>12. Mode(f, v) = Warm(l, c) /\ Mode(Peer(f), v) = Mode(Peer(f), w)
    BY <1>3, <1>5, Zenon DEF Mode, Warm, Seen, Place, Peer, Flow
  <1>13. Seen(f, v, Len(saved))' = d
    <2>1. c = Place(Mode(f, w), Held(f), Len(saved), Forces(f), Half(f))
      BY DEF Seen
    <2> DEFINE m == Warm(l, c)
               z == {}
               b == [c EXCEPT !.who = m]
    <2> HIDE DEF c, m, z
    <2>2. b = Place(m, Held(f), Len(saved), Forces(f), Half(f))
      BY <2>1 DEF Place
    <2> HIDE DEF b
    <2>3. [b EXCEPT !.forcing = z] = Place(m, Held(f), Len(saved), z, Half(f))
      BY <2>2, SMTT(30) DEF Place
    <2>4. QED
      BY <1>6, <1>10, <1>11, <1>12, <2>3, SeenNext DEF m, z, b
  <1>14. Seen(Peer(f), v, 0)' = Seen(Peer(f), w, 0)
    BY <1>10, <1>11, <1>12, SeenNext, Zenon DEF Seen
  <1>15. FlowInv(v)' /\ todo' \in [Flow -> Seq(Steps)] /\ (todo["irq"] = <<>> => todo'["irq"] = <<>>)
    <2> HIDE DEF t, d
    <2>1. Good(t, d)
      BY <1>5, <1>7, ZenonT(30)
    <2>2. QED
      BY <1>1, <1>4, <1>13, <1>14, <2>1, FlowStep, ZenonT(30)
  <1>16. TypeInv'
    BY <1>4, <1>6, <1>8, <1>9, <1>10, <1>15, ZenonT(30) DEF TypeInv
  <1>17. MaskInv(v)'
    BY <1>3, <1>6, <1>9, <1>15, ZenonT(30) DEF MaskInv
  <1>18. OwnInv(v)'
    <2>1. \A s \in Statics : forcing'[s] = IF s = l THEN Free ELSE forcing[s]
      BY <1>4, <1>9, Zenon DEF TypeInv
    <2>2. "WRITER" \in Statics /\ Free # "main"
      BY Zenon DEF Statics, Free
    <2>3. \A s \in Statics : forcing'[s] # Free => s \notin ready'
      BY <1>4, <1>9, <2>1, Zenon DEF OwnInv
    <2>4. v = "cold" <=> "SERIAL1" \notin ready'
      BY <1>3, <1>4, <1>9, Zenon DEF OwnInv
    <2>5. QED
      BY <1>3, <1>6, <1>9, <1>15, <2>1, <2>2, <2>3, <2>4, ZenonT(30) DEF OwnInv
  <1>19. PortInv'
    BY <1>6, PortSame, Zenon
  <1>20. QED
    BY <1>15, <1>16, <1>17, <1>18, <1>19, Zenon DEF LInv

\* Interrupts go on at the end of boot, where the boot thread holds nothing,
\* and at the end of a handler, which has masked nothing.
LEMMA EnableStep ==
    ASSUME NEW w, LInv(w), Enable, UNCHANGED port
    PROVE  LInv("main")'
  <1>1. PICK f : f = active
    OBVIOUS
  <1> DEFINE c == Seen(f, w, Len(saved))
             t == Tail(todo[f])
  <1>2. /\ todo[active] # <<>> /\ Now.do \in {"enable", "iret"} /\ IF_' = TRUE
        /\ todo' = [todo EXCEPT ![f] = t]
    BY <1>1 DEF Enable, At, Advance, Goes
  <1>3. /\ Good(t, After(Now, c)) /\ Legal(Now, c) /\ c \in Context
        /\ f \in Flow /\ (Now.do = "iret" => t = <<>>)
        /\ (f = "main" => todo["irq"] = <<>>) /\ (f = "irq" => w = "main")
    BY <1>1, <1>2, Running, Zenon
  <1>4. UNCHANGED <<holder, ready, forcing, saved, tick_count, lost, port>>
    BY Zenon DEF Enable
  <1>5. c.who = Mode(f, w) /\ c.held = Held(f) /\ c.depth = Len(saved)
    BY ZenonT(30) DEF Seen, Place
  <1>6. TypeInv /\ OwnInv(w) /\ MaskInv(w)
    BY DEF LInv
  <1>7. /\ Seen(f, "main", Len(saved))' = After(Now, c)
        /\ Seen(Peer(f), "main", 0)' = Seen(Peer(f), w, 0)
        /\ saved = <<>> /\ (Now.do = "enable" => f = "main")
        /\ (f = "main" => w # "cold" /\ holder["PICS"] # "main" /\ holder["WRITER"] # "main")
        /\ (f = "irq" => t = <<>>)
    <2>1. CASE Now.do = "enable"
      <3>1. c.who = "boot" /\ c.held = {} /\ c.depth = 0
        BY <1>3, <2>1, Zenon DEF Legal
      <3>2. f = "main" /\ w = "boot" /\ Peer(f) = "irq"
        BY <1>3, <1>5, <3>1, Zenon DEF Mode, Flow, Peer
      <3>3. saved = <<>>
        <4>1. saved \in Seq(BOOLEAN) /\ Len(saved) = 0
          BY <1>5, <1>6, <3>1, ZenonT(30) DEF TypeInv
        <4>2. QED
          BY <4>1
      <3>4. holder["PICS"] # "main" /\ holder["WRITER"] # "main"
        BY <1>5, <3>1, <3>2, Zenon DEF Held, Mutex, Statics
      <3>5. After(Now, c) = [c EXCEPT !.who = "main"]
        BY <2>1, Zenon DEF After
      <3>6. c = Place(Mode(f, w), Held(f), Len(saved), Forces(f), Half(f))
        BY DEF Seen
      <3> HIDE DEF c
      <3>7. [c EXCEPT !.who = "main"] = Place("main", Held(f), Len(saved), Forces(f), Half(f))
        BY <3>6 DEF Place
      <3>8. Seen(f, "main", Len(saved)) = Place("main", Held(f), Len(saved), Forces(f), Half(f))
        BY <3>2, Zenon DEF Seen, Mode
      <3>9. Seen(f, "main", Len(saved))' = Seen(f, "main", Len(saved))
        BY <1>4, SeenSame, Zenon
      <3>10. Seen(Peer(f), "main", 0)' = Seen(Peer(f), "main", 0)
        BY <1>4, SeenSame, Zenon
      <3>11. Seen(Peer(f), "main", 0) = Seen(Peer(f), w, 0)
        BY <3>2, Zenon DEF Seen, Mode
      <3>12. QED
        BY <3>2, <3>3, <3>4, <3>5, <3>7, <3>8, <3>9, <3>10, <3>11, Zenon
    <2>2. CASE Now.do = "iret"
      <3>1. f = "irq" /\ w = "main"
        <4>1. c.who = "irq"
          BY <1>3, <2>2, Zenon DEF Legal
        <4>2. QED
          BY <1>3, <1>5, <1>6, <4>1, Zenon DEF Mode, MaskInv
      <3>2. After(Now, c) = c /\ t = <<>>
        BY <1>3, <2>2, Zenon DEF After
      <3>3. Done(c)
        BY <1>3, <3>2, Unfold, Zenon
      <3>4. saved = <<>>
        <4>1. saved \in Seq(BOOLEAN) /\ Len(saved) = 0
          BY <1>5, <1>6, <3>3, Zenon DEF Done, TypeInv
        <4>2. QED
          BY <4>1
      <3>5. Seen(f, "main", Len(saved))' = c /\ Seen(Peer(f), "main", 0)' = Seen(Peer(f), w, 0)
        BY <1>4, <3>1, SeenSame, Zenon
      <3>6. QED
        BY <2>2, <3>1, <3>2, <3>4, <3>5, ZenonT(30)
    <2>3. QED
      BY <1>2, <2>1, <2>2, Zenon
  <1>8. /\ FlowInv("main")' /\ todo' \in [Flow -> Seq(Steps)]
        /\ (todo["irq"] = <<>> => todo'["irq"] = <<>>)
    <2> DEFINE d == After(Now, c)
    <2>1. Good(t, d) /\ Seen(f, "main", Len(saved))' = d
      BY <1>3, <1>7, ZenonT(30)
    <2> HIDE DEF d, t
    <2>2. QED
      BY <1>1, <1>2, <1>7, <2>1, FlowStep, Zenon
  <1>9. todo'["irq"] = <<>>
    BY <1>2, <1>3, <1>6, <1>7, <1>8, ZenonT(30) DEF Flow, TypeInv
  <1>10. TypeInv'
    BY <1>2, <1>4, <1>6, <1>8, ZenonT(30) DEF TypeInv
  <1>11. MaskInv("main")'
    <2>1. \A k \in 1 .. Len(saved') : FALSE
      BY <1>4, <1>7, SMTT(30)
    <2>2. QED
      BY <1>4, <1>7, <1>9, <2>1, Zenon DEF MaskInv
  <1>12. OwnInv("main")'
    <2>1. holder["WRITER"] # "main" /\ forcing["WRITER"] # "main"
      BY <1>6, <1>7, ZenonT(30) DEF OwnInv
    <2>2. w # "cold" /\ holder["PICS"] # "main"
      BY <1>3, <1>6, <1>7, Zenon DEF OwnInv, Flow
    <2>3. QED
      BY <1>4, <1>6, <2>1, <2>2, ZenonT(30) DEF OwnInv
  <1>13. PortInv'
    BY <1>4, PortSame
  <1>14. QED
    BY <1>8, <1>10, <1>11, <1>12, <1>13, Zenon DEF LInv

\* A step that touches neither flow.
LEMMA Stutter ==
    ASSUME NEW w, LInv(w),
           UNCHANGED <<todo, holder, ready, forcing, IF_, saved, tick_count, lost, port>>
    PROVE  LInv(w)'
  <1>1. FlowInv(w)'
    BY ZenonT(30) DEF LInv, FlowInv, active, Seen, Place, Held, Forces, Half, Peer, Mode
  <1>2. TypeInv' /\ MaskInv(w)' /\ OwnInv(w)'
    BY Zenon DEF LInv, TypeInv, MaskInv, OwnInv
  <1>3. PortInv'
    BY PortSame, Zenon
  <1>4. QED
    BY <1>1, <1>2, <1>3, Zenon DEF LInv

\* Between two functions the main flow holds nothing and has masked nothing.
LEMMA AtRest ==
    ASSUME NEW w, LInv(w), Idle
    PROVE  /\ w = "main" /\ saved = <<>> /\ todo["irq"] = <<>>
           /\ active = "main" /\ Seen("main", w, Len(saved)) = Start("main")
  <1>1. active = "main" /\ todo["irq"] = <<>>
    BY Zenon DEF Idle, active
  <1>2. Good(<<>>, Seen("main", w, Len(saved)))
    BY <1>1, Zenon DEF Idle, LInv, FlowInv
  <1>3. Done(Seen("main", w, Len(saved)))
    BY <1>2, Unfold, Zenon
  <1>4. /\ w = "main" /\ Held("main") = {} /\ Len(saved) = 0
        /\ Forces("main") = {} /\ Half("main") = 0
    BY <1>3, Zenon DEF Done, Seen, Place, Mode, LInv, MaskInv
  <1>5. saved = <<>>
    BY <1>4 DEF LInv, TypeInv
  <1>6. Seen("main", w, Len(saved)) = Start("main")
    BY <1>4, Zenon DEF Seen, Place, Mode, Start
  <1>7. QED
    BY <1>1, <1>4, <1>5, <1>6, Zenon

\* A call, or a trap with interrupts off.
LEMMA CallStep ==
    ASSUME NEW w, LInv(w), NEW code \in KernelCode \cup TrapCode,
           Call(code) \/ Trap(code), UNCHANGED port
    PROVE  LInv(w)'
  <1>1. /\ Idle /\ todo' = [todo EXCEPT !["main"] = code] /\ (IF_' = IF_ \/ IF_' = FALSE)
        /\ UNCHANGED <<holder, ready, forcing, saved, tick_count, lost, port>>
    <2>1. Idle /\ Goes(code)
      BY Zenon DEF Call, Trap
    <2>2. active = "main"
      BY <2>1, AtRest, Zenon
    <2>3. QED
      BY <2>1, <2>2, Zenon DEF Goes, Call, Trap
  <1>2. /\ saved = <<>> /\ todo["irq"] = <<>> /\ active = "main"
        /\ Seen("main", w, Len(saved)) = Start("main") /\ w = "main"
    BY <1>1, AtRest, Zenon
  <1>3. /\ Seen("main", w, Len(saved))' = Seen("main", w, Len(saved))
        /\ Seen(Peer("main"), w, 0)' = Seen(Peer("main"), w, 0)
    BY <1>1, SeenSame, ZenonT(30)
  <1>4. Good(code, Seen("main", w, Len(saved))')
    BY <1>2, <1>3, CallsAreGood, Zenon
  <1>5. FlowInv(w)' /\ todo' \in [Flow -> Seq(Steps)] /\ todo'["irq"] = <<>>
    BY <1>1, <1>2, <1>3, <1>4, FlowStep, Zenon
  <1>6. TypeInv'
    BY <1>1, <1>5, ZenonT(30) DEF LInv, TypeInv
  <1>7. MaskInv(w)'
    <2>1. IF_' => IF_
      BY <1>1, Zenon
    <2>2. QED
      BY <1>1, <1>2, <1>5, Zenon DEF LInv, MaskInv
  <1>8. OwnInv(w)'
    BY <1>1, <1>5, Zenon DEF LInv, OwnInv
  <1>9. PortInv'
    BY <1>1, PortSame, Zenon
  <1>10. QED
    BY <1>5, <1>6, <1>7, <1>8, <1>9, ZenonT(30) DEF LInv

LEMMA EnableAgainStep ==
    ASSUME NEW w, LInv(w), EnableAgain, UNCHANGED port
    PROVE  LInv(w)'
  <1>1. /\ Idle /\ IF_' = TRUE
        /\ UNCHANGED <<todo, holder, ready, forcing, saved, tick_count, lost, port>>
    BY Zenon DEF EnableAgain
  <1>2. saved = <<>> /\ todo["irq"] = <<>> /\ w = "main"
    BY <1>1, AtRest, Zenon
  <1>3. FlowInv(w)'
    BY <1>1, ZenonT(30) DEF LInv, FlowInv, active, Seen, Place, Held, Forces, Half, Peer, Mode
  <1>4. TypeInv' /\ OwnInv(w)'
    BY <1>1, ZenonT(30) DEF LInv, TypeInv, OwnInv
  <1>5. MaskInv(w)'
    BY <1>1, <1>2, Zenon DEF LInv, MaskInv
  <1>6. PortInv'
    BY <1>1, PortSame, Zenon
  <1>7. QED
    BY <1>3, <1>4, <1>5, <1>6, Zenon DEF LInv

\* A handler starts where interrupts are on: the main flow then has nothing a
\* handler waits for.
LEMMA InterruptStep ==
    ASSUME NEW w, LInv(w), NEW handler, Good(handler, Start("irq")),
           Interrupt(handler), tick_count' \in Nat, UNCHANGED port
    PROVE  LInv(w)'
  <1>1. /\ IF_ /\ IF_' = FALSE /\ todo' = [todo EXCEPT !["irq"] = handler \o @]
        /\ UNCHANGED <<holder, ready, forcing, saved, lost, port>>
    BY Zenon DEF Interrupt
  <1>2. TypeInv /\ FlowInv(w) /\ MaskInv(w) /\ OwnInv(w)
    BY Zenon DEF LInv
  <1>3. saved = <<>> /\ todo["irq"] = <<>> /\ w = "main"
    BY <1>1, <1>2, Zenon DEF MaskInv
  <1>4. handler \in Seq(Steps)
    BY Unfold, Zenon
  <1>5. /\ todo' \in [Flow -> Seq(Steps)]
        /\ todo'["irq"] = handler /\ todo'["main"] = todo["main"]
    <2>1. handler \o <<>> = handler
      BY <1>4
    <2>2. QED
      BY <1>1, <1>2, <1>3, <1>4, <2>1, Zenon DEF TypeInv, Flow
  <1>6. FlowInv(w)'
    <2>1. Good(todo["main"], Seen("main", w, 0)) /\ Good(<<>>, Seen("irq", w, 0))
      BY <1>2, <1>3, ZenonT(30) DEF FlowInv, active, Peer
    <2>2. Done(Seen("irq", w, 0))
      BY <2>1, Unfold, Zenon
    <2>3. Seen("irq", w, 0) = Start("irq")
      <3>1. Held("irq") = {} /\ Forces("irq") = {} /\ Half("irq") = 0
        BY <2>2, ZenonT(30) DEF Done, Seen, Place
      <3>2. QED
        BY <3>1, ZenonT(30) DEF Seen, Place, Mode, Start
    <2>4. /\ \A f : Seen(f, w, Len(saved))' = Seen(f, w, 0)
          /\ \A f : Seen(f, w, 0)' = Seen(f, w, 0)
      <3>1. Len(saved') = 0
        BY <1>1, <1>3, ZenonT(30)
      <3>2. QED
        BY <1>1, <3>1, SeenSame, Zenon
    <2>5. Peer("irq") = "main" /\ Peer("main") = "irq" /\ active' \in {"main", "irq"}
      BY ZenonT(30) DEF active, Peer
    <2>6. \A f \in {"main", "irq"} : Good(todo'[f], Seen(f, w, 0))
      BY <1>5, <2>1, <2>3, Zenon
    <2>7. \A f \in {"main", "irq"} : Peer(f) \in {"main", "irq"}
      BY Zenon DEF Peer
    <2>8. PICK f \in {"main", "irq"} : f = active'
      BY <2>5, Zenon
    <2>9. Good(todo'[f], Seen(f, w, Len(saved))')
      BY <2>4, <2>6, Zenon
    <2>10. Good(todo'[Peer(f)], Seen(Peer(f), w, 0)')
      BY <2>4, <2>6, <2>7, Zenon
    <2>11. QED
      BY <2>8, <2>9, <2>10, Zenon DEF FlowInv
  <1>7. TypeInv'
    BY <1>1, <1>2, <1>5, ZenonT(30) DEF TypeInv
  <1>8. MaskInv(w)'
    BY <1>1, <1>2, <1>3, SMTT(30) DEF MaskInv
  <1>9. OwnInv(w)'
    BY <1>1, <1>2, <1>3, Zenon DEF OwnInv
  <1>10. PortInv'
    BY <1>1, PortSame, Zenon
  <1>11. QED
    BY <1>6, <1>7, <1>8, <1>9, <1>10, ZenonT(30) DEF LInv

LEMMA Parity ==
    ASSUME NEW n \in Nat
    PROVE  (n + 1) % 2 = 1 - (n % 2)
  <1>1. CASE n % 2 = 0
    BY <1>1
  <1>2. CASE n % 2 = 1
    BY <1>2
  <1>3. n % 2 = 0 \/ n % 2 = 1
    OBVIOUS
  <1>4. QED
    BY <1>1, <1>2, <1>3, Zenon

\* One more piece of a message by the flow that holds the port.
LEMMA PieceFacts ==
    ASSUME NEW s \in Seq(Flow), NEW f \in Flow, NEW p, p = Append(s, f),
           Len(s) % 2 = 1 => s[Len(s)] = f,
           \A k \in 1 .. Len(s) \div 2 : s[2 * k - 1] = s[2 * k]
    PROVE  /\ p \in Seq(Flow) /\ Len(p) % 2 = 1 - (Len(s) % 2) /\ p[Len(p)] = f
           /\ \A k \in 1 .. Len(p) \div 2 : p[2 * k - 1] = p[2 * k]
  <1> DEFINE n == Len(s)
  <1>1. n \in Nat /\ Len(p) = n + 1 /\ p \in Seq(Flow) /\ p[n + 1] = f
        /\ \A k \in 1 .. n : p[k] = s[k]
    OBVIOUS
  <1>2. n % 2 = 1 => s[n] = f
    BY Zenon
  <1>3. \A k \in 1 .. n \div 2 : s[2 * k - 1] = s[2 * k]
    BY Zenon
  <1> HIDE DEF n
  <1>4. (n + 1) % 2 = 1 - (n % 2)
    BY <1>1, Parity, Zenon
  <1>5. ASSUME NEW k \in 1 .. (n + 1) \div 2 PROVE p[2 * k - 1] = p[2 * k]
    <2>1. CASE k \in 1 .. n \div 2
      <3>1. 2 * k - 1 \in 1 .. n /\ 2 * k \in 1 .. n
        BY <1>1, <2>1, SMTT(30)
      <3>2. QED
        BY <1>1, <1>3, <2>1, <3>1, ZenonT(30)
    <2>2. CASE k \notin 1 .. n \div 2
      <3>1. n % 2 = 1 /\ 2 * k = n + 1 /\ 2 * k - 1 = n /\ n \in 1 .. n
        BY <1>1, <2>2, SMTT(30)
      <3>2. QED
        BY <1>1, <1>2, <3>1, ZenonT(30)
    <2>3. QED
      BY <2>1, <2>2, ZenonT(30)
  <1>6. QED
    BY <1>1, <1>4, <1>5, Zenon DEF n

LEMMA PieceStep ==
    ASSUME NEW w, LInv(w), WritePiece
    PROVE  LInv(w)'
  <1>1. PICK f : f = active
    OBVIOUS
  <1> DEFINE c == Seen(f, w, Len(saved))
             t == Tail(todo[f])
             d == [c EXCEPT !.half = 1 - @]
  <1>2. /\ todo[active] # <<>> /\ Now.do = "put" /\ todo' = [todo EXCEPT ![f] = t]
        /\ port' = Append(port, f)
        /\ UNCHANGED <<holder, ready, forcing, IF_, saved, tick_count, lost>>
    BY <1>1 DEF WritePiece, Write, At, Advance, Goes
  <1>3. /\ Good(t, After(Now, c)) /\ Legal(Now, c) /\ f \in Flow
        /\ Peer(f) \in Flow /\ Peer(f) # f
    BY <1>1, <1>2, Running, Zenon
  <1>4. After(Now, c) = d
    BY <1>2 DEF After
  <1>5. holder["SERIAL1"] = f
    BY <1>2, <1>3, Zenon DEF Legal, Seen, Place, Held
  <1>6. TypeInv /\ PortInv /\ OwnInv(w) /\ MaskInv(w)
    BY ZenonT(30) DEF LInv
  <1>7. /\ port' \in Seq(Flow) /\ Len(port') % 2 = 1 - (Len(port) % 2) /\ port'[Len(port')] = f
        /\ \A k \in 1 .. Len(port') \div 2 : port'[2 * k - 1] = port'[2 * k]
    <2>1. /\ port \in Seq(Flow) /\ (Len(port) % 2 = 1 => port[Len(port)] = f)
          /\ \A k \in 1 .. Len(port) \div 2 : port[2 * k - 1] = port[2 * k]
      BY <1>5, <1>6 DEF TypeInv, PortInv, MessagesWhole
    <2>2. QED
      BY <1>2, <1>3, <2>1, PieceFacts, SMTT(30)
  <1>8. /\ Held(f)' = Held(f) /\ Held(Peer(f))' = Held(Peer(f))
        /\ Forces(f)' = Forces(f) /\ Forces(Peer(f))' = Forces(Peer(f))
        /\ Half(f)' = 1 - Half(f) /\ Half(Peer(f))' = Half(Peer(f))
    <2>1. Held(f)' = Held(f) /\ Held(Peer(f))' = Held(Peer(f))
      BY <1>2, ZenonT(30) DEF Held
    <2>2. Forces(f)' = Forces(f) /\ Forces(Peer(f))' = Forces(Peer(f))
      BY <1>2 DEF Forces
    <2>3. Half(f)' = 1 - Half(f) /\ Half(Peer(f))' = Half(Peer(f))
      BY <1>2, <1>3, <1>5, <1>7, Zenon DEF Half
    <2>4. QED
      BY <2>1, <2>2, <2>3, Zenon
  <1>9. Seen(f, w, Len(saved))' = d
    <2>1. c = Place(Mode(f, w), Held(f), Len(saved), Forces(f), Half(f))
      BY Zenon DEF Seen
    <2> DEFINE x == 1 - Half(f)
    <2>2. c.half = Half(f)
      BY <2>1 DEF Place
    <2> HIDE DEF c, x
    <2>3. [c EXCEPT !.half = x] = Place(Mode(f, w), Held(f), Len(saved), Forces(f), x)
      BY <2>1 DEF Place
    <2>4. d = [c EXCEPT !.half = x]
      BY <2>2, ZenonT(30) DEF x
    <2>5. QED
      BY <1>2, <1>8, <2>3, <2>4, SeenNext DEF x
  <1>10. Seen(Peer(f), w, 0)' = Seen(Peer(f), w, 0)
    BY <1>8, SeenNext, Zenon DEF Seen
  <1>11. FlowInv(w)' /\ todo' \in [Flow -> Seq(Steps)] /\ (todo["irq"] = <<>> => todo'["irq"] = <<>>)
    <2> HIDE DEF t, d
    <2>1. Good(t, d)
      BY <1>3, <1>4
    <2>2. QED
      BY <1>1, <1>2, <1>9, <1>10, <2>1, FlowStep, ZenonT(30)
  <1>12. TypeInv'
    BY <1>2, <1>6, <1>7, <1>11, ZenonT(30) DEF TypeInv
  <1>13. MaskInv(w)' /\ OwnInv(w)'
    BY <1>2, <1>6, <1>11, Zenon DEF MaskInv, OwnInv
  <1>14. PortInv'
    <2>1. f # Free
      BY <1>3, Zenon DEF Flow, Free
    <2>2. QED
      BY <1>2, <1>5, <1>6, <1>7, <2>1, Zenon DEF PortInv, MessagesWhole
  <1>15. QED
    BY <1>11, <1>12, <1>13, <1>14, Zenon DEF LInv

-----------------------------------------------------------------------------
(* The flows: the theorems.                                                *)

LInvAt == \E w : LInv(w)

LEMMA InitEstablishes ==
    ASSUME Init
    PROVE  LInv("cold")
  <1>1. /\ todo = [main |-> init, irq |-> <<>>] /\ holder = [l \in Mutex |-> Free]
        /\ ready = {} /\ forcing = [l \in Statics |-> Free] /\ IF_ = FALSE /\ saved = <<>>
        /\ tick_count = 0 /\ lost = [f \in Flow |-> 0] /\ port = <<>>
    BY Zenon DEF Init, LockInit
  <1>2. Good(init, Start("cold")) /\ init \in Seq(Steps)
    BY BootIsGood, Unfold, Zenon
  <1>3. \A f \in Flow : Held(f) = {} /\ Forces(f) = {} /\ Half(f) = 0
    <2>1. "SERIAL1" \in Mutex /\ \A f \in Flow : f # Free
      BY Zenon DEF Mutex, Statics, Flow, Free
    <2>2. QED
      BY <1>1, <2>1, Zenon DEF Held, Forces, Half
  <1>4. active = "main" /\ Peer("main") = "irq" /\ todo["main"] = init /\ todo["irq"] = <<>>
        /\ Len(saved) = 0
    BY <1>1, ZenonT(30) DEF active, Peer
  <1>5. Seen("main", "cold", 0) = Start("cold") /\ Seen("irq", "cold", 0) = Start("irq")
    BY <1>3, Zenon DEF Seen, Place, Mode, Start, Flow
  <1>6. Good(<<>>, Start("irq"))
    <2>1. Start("irq") \in Context /\ Done(Start("irq"))
      BY StartFacts, ZenonT(30) DEF Modes, Done
    <2>2. QED
      BY <2>1, GoodEnd, Zenon
  <1>7. FlowInv("cold")
    BY <1>2, <1>4, <1>5, <1>6, Zenon DEF FlowInv
  <1>8. TypeInv
    <2> DEFINE z == <<>>
    <2>1. z \in Seq(Steps) /\ z \in Seq(BOOLEAN) /\ z \in Seq(Flow)
      OBVIOUS
    <2>2. todo = [main |-> init, irq |-> z] /\ saved = z /\ port = z
      BY <1>1, ZenonT(30)
    <2> HIDE DEF z
    <2>3. todo \in [Flow -> Seq(Steps)]
      BY <1>2, <2>1, <2>2, BothFlows, Zenon
    <2>4. holder \in [Mutex -> Flow \cup {Free}] /\ forcing \in [Statics -> Flow \cup {Free}]
      BY <1>1, Zenon
    <2>5. lost \in [Flow -> Nat] /\ tick_count \in Nat
      BY <1>1, Zenon
    <2>6. QED
      BY <1>1, <2>1, <2>2, <2>3, <2>4, <2>5, Zenon DEF TypeInv
  <1>9. MaskInv("cold")
    BY <1>1, <1>4 DEF MaskInv
  <1>10. OwnInv("cold")
    BY <1>1, Zenon DEF OwnInv, Mutex, Statics, Free
  <1>11. PortInv
    <2>1. Len(port) = 0 /\ 0 \div 2 = 0 /\ 0 % 2 = 0 /\ lost["main"] = 0
      BY <1>1 DEF Flow
    <2>2. QED
      BY <2>1 DEF PortInv, MessagesWhole
  <1>12. QED
    BY <1>7, <1>8, <1>9, <1>10, <1>11, ZenonT(30) DEF LInv

LEMMA StepKeeps ==
    ASSUME NEW w, LInv(w), [Next]_vars
    PROVE  LInvAt'
  <1> SUFFICES \E v : LInv(v)'
    BY Zenon DEF LInvAt
  <1>1. CASE LockNext /\ UNCHANGED <<consoleVars, port>>
    <2>1. CASE Cli
      BY <1>1, <2>1, CliStep, Zenon
    <2>2. CASE Sti
      BY <1>1, <2>2, StiStep, ZenonT(30)
    <2>3. CASE Lock
      BY <1>1, <2>3, LockStep
    <2>4. CASE Unlock
      BY <1>1, <2>4, UnlockStep
    <2>5. CASE TryLock
      BY <1>1, <2>5, TryStep
    <2>6. CASE UseStatic
      BY <1>1, <2>6, UseStep
    <2>7. CASE Forced
      BY <1>1, <2>7, ForcedStep, Zenon
    <2>8. CASE PanicOrGoOn
      BY <1>1, <2>8, PanicStep
    <2>9. CASE Enable
      BY <1>1, <2>9, EnableStep, Zenon
    <2>10. CASE Hlt
      BY <1>1, <2>10, Stutter, Zenon DEF Hlt, lockVars
    <2>11. CASE \E code \in KernelCode : Call(code)
      BY <1>1, <2>11, CallStep, Zenon
    <2>12. CASE \E code \in TrapCode : Trap(code)
      BY <1>1, <2>12, CallStep, ZenonT(30)
    <2>13. CASE EnableAgain
      BY <1>1, <2>13, EnableAgainStep
    <2>14. CASE Timer
      <3>1. tick_count + 1 \in Nat
        BY DEF LInv, TypeInv
      <3>2. Good(timer_interrupt_handler(tick_count + 1), Start("irq"))
        BY <3>1, HandlersAreGood, Zenon
      <3>3. Interrupt(timer_interrupt_handler(tick_count + 1)) /\ tick_count' \in Nat
        BY <2>14, <3>1, Zenon DEF Timer
      <3>4. PICK h : h = timer_interrupt_handler(tick_count + 1)
        BY Zenon
      <3>5. Good(h, Start("irq")) /\ Interrupt(h)
        BY <3>2, <3>3, <3>4, Zenon
      <3>6. QED
        BY <1>1, <3>3, <3>5, InterruptStep, ZenonT(30)
    <2>15. CASE \E outcome \in {"queued", "dropped", "full"} : Keyboard(outcome)
      <3>1. PICK outcome \in {"queued", "dropped", "full"} : Keyboard(outcome)
        BY <2>15, Zenon
      <3>2. PICK h : h = keyboard_interrupt_handler(outcome)
        BY Zenon
      <3>3. Good(h, Start("irq"))
        BY <3>2, HandlersAreGood, Zenon
      <3>4. Interrupt(h) /\ tick_count' \in Nat
        BY <3>1, <3>2, Zenon DEF Keyboard, LInv, TypeInv
      <3>5. QED
        BY <1>1, <3>3, <3>4, InterruptStep, Zenon
    <2>16. QED
      BY <1>1, <2>1, <2>2, <2>3, <2>4, <2>5, <2>6, <2>7, <2>8, <2>9, <2>10, <2>11, <2>12,
         <2>13, <2>14, <2>15, Zenon DEF LockNext
  <1>2. CASE WriteFmt
    BY <1>2, Stutter, Zenon DEF WriteFmt, lockVars
  <1>3. CASE WriteFmtDone
    BY <1>3, PrintStep, Zenon DEF WriteFmtDone
  <1>4. CASE WriteColor
    BY <1>4, PrintStep, Zenon DEF WriteColor
  <1>5. CASE WritePiece
    BY <1>5, PieceStep, Zenon
  <1>6. CASE BoundReached \/ UNCHANGED vars
    BY <1>6, Stutter DEF BoundReached, vars, lockVars
  <1>7. QED
    BY <1>1, <1>2, <1>3, <1>4, <1>5, <1>6, Zenon DEF Next

\* What each flow has still to do stays good from where it stands.
THEOREM FlowsStayGood == Spec => []LInvAt
  <1>1. Init => LInvAt
    BY InitEstablishes, Zenon DEF LInvAt
  <1>2. LInvAt /\ [Next]_vars => LInvAt'
    BY StepKeeps DEF LInvAt
  <1>3. QED
    BY <1>1, <1>2, PTL DEF Spec

\* No flow ever asks for a lock that is held or for a static that is being
\* initialised, however calls and interrupts interleave.
THEOREM NoFlowSpins == Spec => []NeverSpins
  <1>1. ASSUME NEW w, LInv(w) PROVE NeverSpins
    <2>1. PICK f : f = active
      BY Zenon
    <2>2. SUFFICES ASSUME todo[active] # <<>>, Now.do \in {"lock", "force"}
                   PROVE  /\ Now.do = "lock" => holder[Now.on] = Free
                          /\ Now.do = "force" => forcing[Now.on] = Free
      BY DEF NeverSpins, At
    <2>3. PICK l : l = Now.on
      OBVIOUS
    <2> DEFINE c == Seen(f, w, Len(saved))
    <2>4. /\ f \in Flow /\ Legal(Now, c)
          /\ f = "main" => todo["irq"] = <<>> /\ Held("irq") = {} /\ Forces("irq") = {}
          /\ f = "irq" => todo["irq"] # <<>> /\ w = "main"
      BY <1>1, <2>1, <2>2, Running, Zenon
    <2>5. TypeInv /\ OwnInv(w)
      BY <1>1, ZenonT(30) DEF LInv
    <2>6. ASSUME Now.do = "lock" PROVE holder[l] = Free
      <3>1. l \in Mutex /\ l \notin Held(f) /\ MayLock(l, c)
        BY <2>3, <2>4, <2>6, Zenon DEF Legal, Seen, Place
      <3>2. holder[l] \in Flow \cup {Free} /\ holder[l] # f
        BY <2>5, <3>1, Zenon DEF TypeInv, Held
      <3>3. CASE f = "main"
        BY <2>4, <3>1, <3>2, <3>3, Zenon DEF Held, Flow
      <3>4. CASE f = "irq"
        <4>1. l \in {"WRITER", "PICS"}
          BY <3>1, <3>4 DEF MayLock, Seen, Place, Mode
        <4>2. holder["WRITER"] # "main" /\ holder["PICS"] # "main"
          BY <2>4, <2>5, <3>4, Zenon DEF OwnInv
        <4>3. QED
          BY <3>2, <3>4, <4>1, <4>2, ZenonT(30) DEF Flow
      <3>5. QED
        BY <2>4, <3>3, <3>4, Zenon DEF Flow
    <2>7. ASSUME Now.do = "force" PROVE forcing[l] = Free
      <3>1. l \in Statics /\ Forces(f) = {}
        BY <2>3, <2>4, <2>7, ZenonT(30) DEF Legal, Seen, Place
      <3>2. forcing[l] \in Flow \cup {Free} /\ forcing[l] # f
        BY <2>5, <3>1 DEF TypeInv, Forces
      <3>3. CASE f = "main"
        BY <2>4, <3>1, <3>2, <3>3, Zenon DEF Forces, Flow
      <3>4. CASE f = "irq"
        <4>1. l \in {"WRITER", "SERIAL1"}
          BY <3>1, ZenonT(30) DEF Statics
        <4>2. forcing["WRITER"] # "main" /\ forcing["SERIAL1"] = Free
          BY <2>4, <2>5, <3>4, Zenon DEF OwnInv, Statics
        <4>3. QED
          BY <3>2, <3>4, <4>1, <4>2, Zenon DEF Flow
      <3>5. QED
        BY <2>4, <3>3, <3>4 DEF Flow
    <2>8. QED
      BY <2>3, <2>6, <2>7, Zenon
  <1>2. LInvAt => NeverSpins
    BY <1>1 DEF LInvAt
  <1>3. QED
    BY <1>2, FlowsStayGood, PTL

\* Messages on the serial line are whole, and the main flow never drops one.
THEOREM MessagesStayWhole == Spec => []MessagesWhole
  <1>1. LInvAt => MessagesWhole
    BY Zenon DEF LInvAt, LInv, PortInv
  <1>2. QED
    BY <1>1, FlowsStayGood, PTL

=============================================================================
