---------------------------- MODULE ConsoleProofs ---------------------------
(***************************************************************************)
(* Proofs about the text console and its lock: the cursor stays on the     *)
(* screen, the lock has one holder, and the console implements the         *)
(* terminal, for every size of the screen and every set of messages.       *)
(***************************************************************************)
EXTENDS Console, SequenceTheorems, TLAPS

USE ConsoleAssumption

Patched(S, i, j, cell) == [S EXCEPT ![i][j] = cell]

(* What a method of Console does to the cursor, the screen and the sheet.  *)
LEMMA BlankRow == ASSUME NEW s \in Styles PROVE blank_row(s) \in Row
BY DEF blank_row, Row

LEMMA ScrollTyped ==
  ASSUME NEW c, OnScreen(c)
  PROVE  /\ OnScreen(scroll(c))
         /\ scroll(c).count = c.count + 1
         /\ scroll(c).style = c.style
         /\ scroll(c).row_position = c.row_position
         /\ Sheet(scroll(c)) =
              [i \in 0 .. c.count + BUFFER_HEIGHT |->
                 IF i <= c.count + BUFFER_HEIGHT - 1 THEN Sheet(c)[i] ELSE blank_row(c.style)]
<1> DEFINE d == scroll(c)
<1>1. blank_row(c.style) \in Row  BY BlankRow DEF OnScreen
<1>2. /\ d.screen \in [Rows -> Row]
      /\ d.gone \in [0 .. c.count -> Row]
      /\ d.count = c.count + 1 /\ d.count \in Nat
      /\ d.row_position = c.row_position
      /\ d.column_position = c.column_position
      /\ d.style = c.style
  <2> USE <1>1
  <2>1. 0 \in Rows  BY DEF Rows
  <2>2. d.screen \in [Rows -> Row]
    <3>1. \A r \in Rows : r < BUFFER_HEIGHT - 1 => r + 1 \in Rows  BY DEF Rows
    <3>2. QED  BY <3>1 DEF OnScreen, scroll
  <2>3. d.gone \in [0 .. c.count -> Row]  BY <2>1 DEF OnScreen, scroll
  <2>4. QED  BY <2>2, <2>3 DEF OnScreen, scroll
<1>3. OnScreen(d)
  <2> DEFINE gone == [i \in 0 .. c.count |-> IF i < c.count THEN c.gone[i] ELSE c.screen[0]]
             screen == [r \in Rows |-> IF r < BUFFER_HEIGHT - 1 THEN c.screen[r + 1]
                                       ELSE blank_row(c.style)]
  <2>1. d = [c EXCEPT !.gone = gone, !.count = @ + 1, !.screen = screen]  BY DEF scroll
  <2>2. d.gone = gone /\ d.screen = screen  BY <2>1 DEF OnScreen
  <2> HIDE DEF d, gone, screen
  <2>3. 0 .. d.count - 1 = 0 .. c.count /\ c.count \in Nat  BY <1>2 DEF OnScreen
  <2>4. gone \in [0 .. d.count - 1 -> Row] /\ screen \in [Rows -> Row]  BY <1>2, <2>2, <2>3
  <2>5. QED  BY <2>1, <2>2, <2>4, <1>2 DEF OnScreen
<1>4. Sheet(d) = [i \in 0 .. c.count + BUFFER_HEIGHT |->
                    IF i <= c.count + BUFFER_HEIGHT - 1 THEN Sheet(c)[i] ELSE blank_row(c.style)]
  <2>1. c.count \in Nat /\ BUFFER_HEIGHT \in Nat \ {0}  BY DEF OnScreen
  <2>2. d.count + BUFFER_HEIGHT - 1 = c.count + BUFFER_HEIGHT  BY <1>2, <2>1
  <2>3. ASSUME NEW i \in 0 .. c.count + BUFFER_HEIGHT
        PROVE  (IF i < d.count THEN d.gone[i] ELSE d.screen[i - d.count]) =
               (IF i <= c.count + BUFFER_HEIGHT - 1 THEN Sheet(c)[i] ELSE blank_row(c.style))
    <3>1. CASE i < c.count
      BY <3>1, <2>1, <1>2 DEF Sheet, scroll, OnScreen
    <3>2. CASE i = c.count
      BY <3>2, <2>1, <1>2 DEF Sheet, scroll, OnScreen
    <3>3. CASE i > c.count /\ i <= c.count + BUFFER_HEIGHT - 1
      <4> DEFINE n == c.count + 1
      <4>0. i - n \in Rows /\ i - n < BUFFER_HEIGHT - 1 /\ ~(i < n) /\ i - n + 1 = i - c.count
        BY <3>3, <2>1 DEF Rows
      <4>1. i - d.count \in Rows /\ i - d.count < BUFFER_HEIGHT - 1 /\ ~(i < d.count)
            /\ i - d.count + 1 = i - c.count
        BY <4>0, <1>2
      <4>2. d.screen[i - d.count] = c.screen[i - c.count]
        BY <4>1 DEF scroll, OnScreen
      <4>3. QED  BY <4>1, <4>2, <3>3, <2>1 DEF Sheet
    <3>4. CASE i = c.count + BUFFER_HEIGHT
      <4> DEFINE n == c.count + 1
      <4>0. i - n = BUFFER_HEIGHT - 1 /\ i - n \in Rows /\ ~(i < n)
        BY <3>4, <2>1 DEF Rows
      <4>1. i - d.count = BUFFER_HEIGHT - 1 /\ i - d.count \in Rows /\ ~(i < d.count)
        BY <4>0, <1>2
      <4>2. d.screen[i - d.count] = blank_row(c.style)
        BY <4>1 DEF scroll, OnScreen
      <4>3. QED  BY <4>1, <4>2, <3>4, <2>1
    <3>5. QED  BY <3>1, <3>2, <3>3, <3>4, <2>1
  <2>4. QED  BY <2>2, <2>3 DEF Sheet
<1>5. QED  BY <1>2, <1>3, <1>4

LEMMA NewLineTyped ==
  ASSUME NEW c, OnScreen(c)
  PROVE  /\ OnScreen(new_line(c))
         /\ new_line(c).style = c.style
         /\ new_line(c).column_position = 0
         /\ IF c.row_position < BUFFER_HEIGHT - 1
            THEN /\ new_line(c).count = c.count
                 /\ new_line(c).row_position = c.row_position + 1
                 /\ Sheet(new_line(c)) = Sheet(c)
            ELSE /\ new_line(c).count = c.count + 1
                 /\ new_line(c).row_position = c.row_position
                 /\ Sheet(new_line(c)) = Sheet(scroll(c))
<1> DEFINE d == new_line(c)
<1>1. CASE c.row_position < BUFFER_HEIGHT - 1
  <2>1. d = [c EXCEPT !.column_position = 0, !.row_position = @ + 1]  BY <1>1 DEF new_line
  <2>2. c.row_position + 1 \in Rows /\ 0 \in 0 .. BUFFER_WIDTH  BY <1>1 DEF OnScreen, Rows
  <2>3. OnScreen(d)  BY <2>1, <2>2 DEF OnScreen
  <2>4. QED  BY <1>1, <2>1, <2>3 DEF OnScreen, Sheet
<1>2. CASE ~(c.row_position < BUFFER_HEIGHT - 1)
  <2> DEFINE e == scroll(c)
  <2>1. d = [e EXCEPT !.column_position = 0]  BY <1>2 DEF new_line
  <2>2. /\ OnScreen(e) /\ e.count = c.count + 1 /\ e.style = c.style
        /\ e.row_position = c.row_position
    BY ScrollTyped
  <2> HIDE DEF e
  <2>3. OnScreen(d)
    <3>1. 0 \in 0 .. BUFFER_WIDTH  OBVIOUS
    <3>2. QED  BY <2>1, <2>2, <3>1 DEF OnScreen
  <2>4. Sheet(d) = Sheet(e)  BY <2>1, <2>2 DEF OnScreen, Sheet
  <2>5. QED  BY <1>2, <2>1, <2>2, <2>3, <2>4 DEF OnScreen, e
<1>3. QED  BY <1>1, <1>2

LEMMA EntryTyped ==
  ASSUME NEW c, OnScreen(c), NEW b \in Bytes, NEW row \in Rows, NEW col \in Cols
  PROVE  /\ OnScreen(write_entry_at(c, b, row, col))
         /\ write_entry_at(c, b, row, col).count = c.count
         /\ write_entry_at(c, b, row, col).style = c.style
         /\ write_entry_at(c, b, row, col).row_position = c.row_position
         /\ write_entry_at(c, b, row, col).column_position = c.column_position
         /\ Sheet(write_entry_at(c, b, row, col)) =
              Patched(Sheet(c), c.count + row, col, <<b, c.style>>)
<1> DEFINE d == write_entry_at(c, b, row, col)
           screen == [c.screen EXCEPT ![row][col] = <<b, c.style>>]
<1>1. d = [c EXCEPT !.screen = screen]  BY DEF write_entry_at, OnScreen
<1>2. screen \in [Rows -> Row]
  <2>1. c.screen \in [Rows -> Row] /\ c.style \in Styles  BY DEF OnScreen
  <2>2. [c.screen[row] EXCEPT ![col] = <<b, c.style>>] \in Row  BY <2>1 DEF Row
  <2>3. QED  BY <2>1, <2>2
<1> HIDE DEF screen
<1>3. OnScreen(d)  BY <1>1, <1>2 DEF OnScreen
<1>4. /\ d.count = c.count /\ d.style = c.style /\ d.row_position = c.row_position
      /\ d.column_position = c.column_position /\ d.gone = c.gone /\ d.screen = screen
  BY <1>1 DEF OnScreen
<1>5. Sheet(d) = [Sheet(c) EXCEPT ![c.count + row][col] = <<b, c.style>>]
  <2>1. c.count \in Nat /\ row \in Nat /\ row < BUFFER_HEIGHT /\ c.count + row - c.count = row
        /\ BUFFER_HEIGHT \in Nat
    BY DEF OnScreen, Rows
  <2> DEFINE S == Sheet(c)
             new == [S[c.count + row] EXCEPT ![col] = <<b, c.style>>]
             dom == 0 .. c.count + BUFFER_HEIGHT - 1
  <2>2. c.count + row \in dom  BY <2>1
  <2>3. S[c.count + row] = c.screen[row]  BY <2>1, <2>2 DEF Sheet
  <2>4. ASSUME NEW i \in dom
        PROVE  (IF i < d.count THEN d.gone[i] ELSE d.screen[i - d.count]) =
               (IF i = c.count + row THEN new ELSE S[i])
    <3>1. CASE i < c.count  BY <3>1, <2>1, <1>4 DEF Sheet
    <3>2. CASE i = c.count + row
      BY <3>2, <2>1, <2>3, <1>4 DEF screen, OnScreen
    <3>3. CASE i >= c.count /\ i # c.count + row
      <4>1. i - c.count \in Rows /\ i - c.count # row  BY <3>3, <2>1 DEF Rows
      <4>2. screen[i - c.count] = c.screen[i - c.count]  BY <4>1 DEF screen, OnScreen
      <4>3. QED  BY <4>2, <3>3, <2>1, <1>4 DEF Sheet
    <3>4. QED  BY <3>1, <3>2, <3>3, <2>1
  <2>5. Sheet(d) = [i \in dom |-> IF i = c.count + row THEN new ELSE S[i]]
    BY <2>4, <1>4 DEF Sheet
  <2>6. DOMAIN S = dom  BY DEF Sheet
  <2>7. [S EXCEPT ![c.count + row][col] = <<b, c.style>>]
          = [i \in dom |-> IF i = c.count + row THEN new ELSE S[i]]
    BY <2>6, <2>2
  <2>8. QED  BY <2>5, <2>7
<1>6. QED  BY <1>3, <1>4, <1>5 DEF Patched

LEMMA WriteByteTyped ==
  ASSUME NEW c, OnScreen(c), NEW b \in Bytes,
         NEW d, d = IF c.column_position >= BUFFER_WIDTH THEN new_line(c) ELSE c,
         NEW w, w = write_byte(c, b)
  PROVE  /\ OnScreen(w)
         /\ OnScreen(d) /\ d.style = c.style /\ d.column_position \in Cols
         /\ w.count = d.count /\ w.style = d.style
         /\ w.row_position = d.row_position
         /\ w.column_position = d.column_position + 1
         /\ Sheet(w) = Patched(Sheet(d), d.count + d.row_position, d.column_position,
                               <<b, d.style>>)
<1> DEFINE e == write_entry_at(d, b, d.row_position, d.column_position)
<1>1. OnScreen(d) /\ d.style = c.style /\ d.column_position \in Cols /\ d.row_position \in Rows
  BY NewLineTyped DEF OnScreen, Cols
<1>2. w = [e EXCEPT !.column_position = @ + 1]  BY DEF write_byte
<1>3. /\ OnScreen(e) /\ e.count = d.count /\ e.style = d.style
      /\ e.row_position = d.row_position /\ e.column_position = d.column_position
      /\ Sheet(e) = Patched(Sheet(d), d.count + d.row_position, d.column_position, <<b, d.style>>)
  BY <1>1, EntryTyped
<1> HIDE DEF e
<1>4. /\ w.count = e.count /\ w.style = e.style /\ w.row_position = e.row_position
      /\ w.column_position = e.column_position + 1 /\ w.screen = e.screen /\ w.gone = e.gone
  BY <1>2, <1>3 DEF OnScreen
<1>5. OnScreen(w)
  <2>1. e.column_position + 1 \in 0 .. BUFFER_WIDTH  BY <1>1, <1>3 DEF Cols
  <2>2. QED  BY <1>2, <1>3, <2>1 DEF OnScreen
<1>6. Sheet(w) = Sheet(e)  BY <1>4 DEF Sheet
<1>7. QED  BY <1>1, <1>3, <1>4, <1>5, <1>6

LEMMA BackspaceTyped ==
  ASSUME NEW c, OnScreen(c), NEW row \in Rows, NEW col \in Cols,
         NEW d, d = backspace_at(c, row, col)
  PROVE  /\ OnScreen(d)
         /\ d.count = c.count /\ d.style = c.style
         /\ d.row_position = row /\ d.column_position = col
         /\ Sheet(d) = Patched(Sheet(c), c.count + row, col, <<SP, c.style>>)
<1> DEFINE e == write_entry_at(c, SP, row, col)
<1>1. d = [e EXCEPT !.row_position = row, !.column_position = col]  BY DEF backspace_at
<1>2. /\ OnScreen(e) /\ e.count = c.count /\ e.style = c.style
      /\ Sheet(e) = Patched(Sheet(c), c.count + row, col, <<SP, c.style>>)
  BY EntryTyped
<1> HIDE DEF e
<1>3. /\ d.count = e.count /\ d.style = e.style /\ d.row_position = row
      /\ d.column_position = col /\ d.screen = e.screen /\ d.gone = e.gone
  BY <1>1, <1>2 DEF OnScreen
<1>4. OnScreen(d)
  <2>1. col \in 0 .. BUFFER_WIDTH  BY DEF Cols
  <2>2. QED  BY <1>1, <1>2, <2>1 DEF OnScreen
<1>5. Sheet(d) = Sheet(e)  BY <1>3 DEF Sheet
<1>6. QED  BY <1>2, <1>3, <1>4, <1>5

LEMMA ClearTyped ==
  ASSUME NEW c, OnScreen(c)
  PROVE  /\ OnScreen(clear(c))
         /\ clear(c).count = c.count /\ clear(c).style = c.style
         /\ clear(c).row_position = 0 /\ clear(c).column_position = 0
         /\ Sheet(clear(c)) = [i \in DOMAIN Sheet(c) |->
                                 IF i < c.count THEN Sheet(c)[i] ELSE blank_row(c.style)]
<1> DEFINE d == clear(c)
           screen == [r \in Rows |-> blank_row(c.style)]
<1>1. screen \in [Rows -> Row]  BY BlankRow DEF OnScreen
<1>2. d = [c EXCEPT !.screen = screen, !.row_position = 0, !.column_position = 0]  BY DEF clear
<1>3. \A r \in Rows : screen[r] = blank_row(c.style)  OBVIOUS
<1> HIDE DEF screen, d
<1>4. /\ d.count = c.count /\ d.style = c.style /\ d.row_position = 0
      /\ d.column_position = 0 /\ d.screen = screen /\ d.gone = c.gone
  BY <1>2 DEF OnScreen
<1>5. OnScreen(d)
  <2>1. 0 \in Rows /\ 0 \in 0 .. BUFFER_WIDTH  BY DEF Rows
  <2>2. QED  BY <1>1, <1>2, <2>1 DEF OnScreen
<1>6. Sheet(d) = [i \in DOMAIN Sheet(c) |->
                    IF i < c.count THEN Sheet(c)[i] ELSE blank_row(c.style)]
  <2>1. DOMAIN Sheet(c) = 0 .. c.count + BUFFER_HEIGHT - 1  BY DEF Sheet
  <2>2. c.count \in Nat /\ BUFFER_HEIGHT \in Nat  BY DEF OnScreen
  <2>3. ASSUME NEW i \in 0 .. c.count + BUFFER_HEIGHT - 1
        PROVE  (IF i < d.count THEN d.gone[i] ELSE d.screen[i - d.count]) =
               (IF i < c.count THEN Sheet(c)[i] ELSE blank_row(c.style))
    <3>1. CASE i < c.count  BY <3>1, <1>4 DEF Sheet
    <3>2. CASE ~(i < c.count)
      <4>1. i - c.count \in Rows  BY <3>2, <2>2 DEF Rows
      <4>2. QED  BY <4>1, <3>2, <1>3, <1>4
    <3>3. QED  BY <3>1, <3>2
  <2>4. QED  BY <2>1, <2>3, <1>4 DEF Sheet
<1>7. QED  BY <1>4, <1>5, <1>6 DEF d

LEMMA PerformTyped ==
  ASSUME NEW c, OnScreen(c), NEW item \in Items
  PROVE  OnScreen(perform(c, item))
<1>1. CASE item.op = "style"
  <2>1. item.arg \in Styles  BY <1>1 DEF Items, ByteItems
  <2>2. perform(c, item) = [c EXCEPT !.style = item.arg]  BY <1>1 DEF perform
  <2>3. QED  BY <2>1, <2>2 DEF OnScreen
<1>2. CASE item.op = "clear"
  BY <1>2, ClearTyped DEF perform
<1>3. CASE item.op = "backspace"
  <2>1. perform(c, item) = backspace(c)  BY <1>3 DEF perform
  <2>2. CASE c.column_position > 0
    <3>1. c.column_position - 1 \in Cols /\ c.row_position \in Rows  BY <2>2 DEF OnScreen, Cols
    <3>2. perform(c, item) = backspace_at(c, c.row_position, c.column_position - 1)
      BY <2>1, <2>2 DEF backspace
    <3>3. OnScreen(backspace_at(c, c.row_position, c.column_position - 1))  BY <3>1, BackspaceTyped
    <3>4. QED  BY <3>2, <3>3
  <2>3. CASE ~(c.column_position > 0) /\ c.row_position > 0
    <3>1. BUFFER_WIDTH - 1 \in Cols /\ c.row_position - 1 \in Rows  BY <2>3 DEF OnScreen, Cols, Rows
    <3>2. perform(c, item) = backspace_at(c, c.row_position - 1, BUFFER_WIDTH - 1)
      BY <2>1, <2>3 DEF backspace
    <3>3. OnScreen(backspace_at(c, c.row_position - 1, BUFFER_WIDTH - 1))  BY <3>1, BackspaceTyped
    <3>4. QED  BY <3>2, <3>3
  <2>4. CASE ~(c.column_position > 0) /\ ~(c.row_position > 0)
    BY <2>1, <2>4 DEF backspace
  <2>5. QED  BY <2>2, <2>3, <2>4
<1>4. CASE item.op = "newline"
  BY <1>4, NewLineTyped DEF perform
<1>5. CASE item.op \in {"byte", "char"}
  <2>1. item.arg \in Bytes  BY <1>5 DEF Items, ByteItems
  <2>2. CASE item.arg = LF
    <3>1. perform(c, item) = new_line(c)  BY <1>5, <2>2 DEF perform, LF, CR
    <3>2. QED  BY <3>1, NewLineTyped
  <2>3. CASE item.arg # LF /\ item.op = "byte" /\ item.arg = CR
    <3>1. perform(c, item) = [c EXCEPT !.column_position = 0]  BY <2>3 DEF perform, LF, CR
    <3>2. 0 \in 0 .. BUFFER_WIDTH  OBVIOUS
    <3>3. QED  BY <3>1, <3>2 DEF OnScreen
  <2>4. CASE item.arg # LF /\ ~(item.op = "byte" /\ item.arg = CR)
    <3>1. perform(c, item) = write_byte(c, item.arg)  BY <1>5, <2>4 DEF perform
    <3>2. OnScreen(write_byte(c, item.arg))  BY <2>1, WriteByteTyped
    <3>3. QED  BY <3>1, <3>2
  <2>5. QED  BY <2>2, <2>3, <2>4
<1>6. QED  BY <1>1, <1>2, <1>3, <1>4, <1>5 DEF Items, ByteItems
-----------------------------------------------------------------------------
(* The calls the actors make are calls.                                    *)
LEMMA EachTyped ==
  ASSUME NEW m \in Seq(Bytes)
  PROVE  Each(m) \in Seq(ByteItems) /\ Each(m) \in Seq(Items)
<1>1. Len(m) \in Nat /\ DOMAIN m = 1 .. Len(m)  OBVIOUS
<1>2. Each(m) \in [1 .. Len(m) -> ByteItems]  BY <1>1 DEF Each, Item, ByteItems
<1>3. Each(m) \in [1 .. Len(m) -> Items]  BY <1>2 DEF Items
<1>4. QED  BY <1>1, <1>2, <1>3

LEMMA CallTyped ==
  /\ \A m \in Seq(Bytes) : serial_write(m) \in Calls /\ vga_write_str(m) \in Calls
                           /\ vga_write_line(m) \in Calls
  /\ \A b \in Bytes : vga_put_char(b) \in Calls
  /\ \A st \in Styles : vga_set_style(st) \in Calls
  /\ vga_init \in Calls /\ vga_backspace \in Calls
<1> USE DEF Call, Calls
<1>1. ASSUME NEW m \in Seq(Bytes)
      PROVE  serial_write(m) \in Calls /\ vga_write_str(m) \in Calls
             /\ vga_write_line(m) \in Calls
  <2>1. Item("newline", SP) \in Items  BY DEF Item, Items
  <2>2. Append(Each(m), Item("newline", SP)) \in Seq(Items)  BY <2>1, EachTyped
  <2>3. QED  BY <2>2, EachTyped DEF serial_write, vga_write_str, vga_write_line
<1>2. ASSUME NEW b \in Bytes PROVE vga_put_char(b) \in Calls
  BY DEF vga_put_char, Item, Items, ByteItems
<1>3. ASSUME NEW st \in Styles PROVE vga_set_style(st) \in Calls
  BY DEF vga_set_style, Item, Items
<1>4. vga_init \in Calls /\ vga_backspace \in Calls
  BY DEF vga_init, vga_backspace, Item, Items
<1>5. QED  BY <1>1, <1>2, <1>3, <1>4

LEMMA RoutineTyped ==
  ASSUME NEW m \in Seq(Bytes), NEW n \in Seq(Bytes)
  PROVE  /\ write_str(m) \in Seq(Calls) /\ writeln(m) \in Seq(Calls)
         /\ writeln_num(m, n) \in Seq(Calls) /\ ls_entry(m, n) \in Seq(Calls)
         /\ headline(m) \in Seq(Calls)
<1>1. <<CR, LF>> \in Seq(Bytes) /\ <<SP>> \in Seq(Bytes)  OBVIOUS
<1>2. print_num(n) \in Seq(Calls)  BY CallTyped DEF print_num
<1>3. \A k \in Seq(Bytes) : write_str(k) \in Seq(Calls)  BY CallTyped DEF write_str
<1>4. writeln(m) \in Seq(Calls)  BY <1>1, <1>3, ConcatProperties DEF writeln
<1>5. writeln_num(m, n) \in Seq(Calls)
  <2>1. m \o n \o <<CR, LF>> \in Seq(Bytes)  BY <1>1
  <2>2. serial_write(m \o n \o <<CR, LF>>) \in Calls /\ vga_write_str(m) \in Calls
    BY <2>1, CallTyped
  <2>3. <<vga_put_char(LF)>> \in Seq(Calls)  BY CallTyped
  <2>4. QED  BY <1>2, <2>2, <2>3 DEF writeln_num
<1>6. ls_entry(m, n) \in Seq(Calls)
  <2>1. m \o <<SP>> \o n \o <<CR, LF>> \in Seq(Bytes)  BY <1>1
  <2>2. serial_write(m \o <<SP>> \o n \o <<CR, LF>>) \in Calls /\ vga_write_str(m) \in Calls
        /\ vga_put_char(SP) \in Calls
    BY <2>1, CallTyped
  <2>3. <<vga_put_char(LF)>> \in Seq(Calls)  BY CallTyped
  <2>4. QED  BY <1>2, <2>2, <2>3 DEF ls_entry
<1>7. headline(m) \in Seq(Calls)
  <2>1. m \o <<CR, LF>> \in Seq(Bytes)  BY <1>1
  <2>2. serial_write(m \o <<CR, LF>>) \in Calls /\ vga_init \in Calls
        /\ vga_set_style(HEAD_STYLE) \in Calls /\ vga_write_line(m) \in Calls
        /\ vga_set_style(DEFAULT_STYLE) \in Calls
    BY <2>1, CallTyped
  <2>3. QED  BY <2>2 DEF headline
<1>8. QED  BY <1>3, <1>4, <1>5, <1>6, <1>7

LEMMA PanicTyped ==
  ASSUME NEW m \in Seq(Bytes), OnScreen(con)
  PROVE  vga_panic(m) \in Calls
<1>1. con.style \in Styles  BY DEF OnScreen
<1>2. <<Item("style", PANIC_STYLE)>> \in Seq(Items)  BY DEF Item, Items
<1>3. <<Item("byte", LF), Item("style", con.style)>> \in Seq(Items)
  BY <1>1 DEF Item, Items, ByteItems
<1>4. QED  BY <1>2, <1>3, EachTyped DEF vga_panic, Call, Calls

(* A job whose current call has done an item.                              *)
LEMMA Consumed ==
  ASSUME NEW calls \in Seq(Calls), calls # <<>>, NEW items,
         [Head(calls) EXCEPT !.items = items] \in Calls
  PROVE  /\ [calls EXCEPT ![1].items = items] \in Seq(Calls)
         /\ [calls EXCEPT ![1].items = items] # <<>>
         /\ Head([calls EXCEPT ![1].items = items]).lock = Head(calls).lock
<1> DEFINE c == [Head(calls) EXCEPT !.items = items]
<1>1. [calls EXCEPT ![1].items = items] = [calls EXCEPT ![1] = c]  OBVIOUS
<1>2. Head(calls) \in Calls  OBVIOUS
<1>3. c.lock = Head(calls).lock  BY <1>2 DEF Calls
<1> HIDE DEF c
<1>4. [calls EXCEPT ![1] = c] \in Seq(Calls) /\ [calls EXCEPT ![1] = c] # <<>>
      /\ Head([calls EXCEPT ![1] = c]) = c
  BY DEF c
<1>5. QED  BY <1>1, <1>3, <1>4
-----------------------------------------------------------------------------
LEMMA ConsoleInit == Init => ConsoleInv
<1> SUFFICES ASSUME Init PROVE ConsoleInv  OBVIOUS
<1>1. OnScreen(con)
  <2>1. 0 \in Rows /\ 0 \in 0 .. BUFFER_WIDTH  BY DEF Rows
  <2>2. [r \in Rows |-> blank_row(DEFAULT_STYLE)] \in [Rows -> Row]  BY BlankRow
  <2>3. con.gone \in [0 .. con.count - 1 -> Row]  BY DEF Init
  <2>4. QED  BY <2>1, <2>2, <2>3 DEF Init, OnScreen
<1>2. job \in [Actors -> [calls : Seq(Calls), inside : BOOLEAN, halts : BOOLEAN]]
      /\ \A a \in Actors : ~job[a].inside
  <2>1. PICK m \in Texts : job = [a \in Actors |-> IF a = "thread" THEN Job(headline(m), FALSE)
                                                  ELSE Idle]
    BY DEF Init
  <2>2. headline(m) \in Seq(Calls)
    <3>1. m \in Seq(Bytes)  OBVIOUS
    <3>2. QED  BY <3>1, RoutineTyped
  <2>3. QED  BY <2>1, <2>2 DEF Job, Idle
<1>3. owner \in [Locks -> Actors \cup {Free}]  BY DEF Init
<1>4. spins \in 0 .. SPIN_LIMIT /\ routines \in 0 .. MaxRoutines /\ keys \in 0 .. MaxKeys
  BY DEF Init
<1>5. interrupts \in BOOLEAN  BY Zenon DEF Init
<1>6. QED  BY <1>1, <1>2, <1>3, <1>4, <1>5 DEF ConsoleInv, TypeOK, LockInv

(* A new job of an actor that is inside no call.                           *)
LEMMA NewJob ==
  ASSUME ConsoleInv, NEW a \in Actors, ~job[a].inside,
         NEW calls \in Seq(Calls), NEW halts \in BOOLEAN,
         job' = [job EXCEPT ![a] = Job(calls, halts)],
         UNCHANGED <<con, owner, spins>>
  PROVE  /\ job' \in [Actors -> [calls : Seq(Calls), inside : BOOLEAN, halts : BOOLEAN]]
         /\ LockInv' /\ OnScreen(con)' /\ spins' \in 0 .. SPIN_LIMIT
         /\ owner' \in [Locks -> Actors \cup {Free}]
BY DEF ConsoleInv, TypeOK, LockInv, Job, Current, OnScreen

LEMMA ConsoleStep == ConsoleInv /\ [Next]_vars => ConsoleInv'
<1> SUFFICES ASSUME ConsoleInv, [Next]_vars PROVE ConsoleInv'
  OBVIOUS
<1> USE DEF ConsoleInv
<1>1. ASSUME NEW a \in Actors, Lock(a) PROVE ConsoleInv'
  <2>1. job[a].calls \in Seq(Calls) /\ job[a].calls # <<>> /\ Current(a) \in Calls
    BY <1>1 DEF Lock, Making, TypeOK, Current
  <2>2. Current(a).lock \in Locks  BY <2>1 DEF Calls, Locks
  <2>3. TypeOK'  BY <1>1, <2>2 DEF Lock, TypeOK, OnScreen
  <2>4. LockInv'
    <3>1. ASSUME NEW b \in Actors, job'[b].inside
          PROVE  job'[b].calls # <<>> /\ owner'[Head(job'[b].calls).lock] = b
      <4>1. CASE b = a  BY <4>1, <1>1, <2>1, <2>2 DEF Lock, TypeOK, Current
      <4>2. CASE b # a
        <5>1. job'[b] = job[b]  BY <4>2, <1>1 DEF Lock, TypeOK
        <5>2. job[b].calls # <<>> /\ owner[Current(b).lock] = b  BY <3>1, <5>1 DEF LockInv
        <5>3. Current(b).lock # Current(a).lock
          BY <5>2, <1>1 DEF Lock, Free, Actors
        <5>4. QED  BY <5>1, <5>2, <5>3, <1>1 DEF Lock, Current, TypeOK
      <4>3. QED  BY <4>1, <4>2
    <3>2. QED  BY <3>1 DEF LockInv, Current
  <2>5. QED  BY <2>3, <2>4
<1>2. ASSUME NEW a \in Actors, Write(a) \/ Send(a) PROVE ConsoleInv'
  <2>1. /\ job[a].calls \in Seq(Calls) /\ job[a].calls # <<>> /\ Current(a) \in Calls
        /\ Current(a).items # <<>> /\ job[a].inside
    <3>1. Making(a) /\ job[a].inside /\ Current(a).items # <<>>  BY <1>2 DEF Write, Send, Inside
    <3>2. QED  BY <3>1 DEF Making, TypeOK, Current
  <2>2. ASSUME NEW items, [Current(a) EXCEPT !.items = items] \in Calls,
               job' = [job EXCEPT ![a].calls[1].items = items], UNCHANGED owner
        PROVE  /\ job' \in [Actors -> [calls : Seq(Calls), inside : BOOLEAN, halts : BOOLEAN]]
               /\ LockInv'
    <3> DEFINE calls == [job[a].calls EXCEPT ![1].items = items]
    <3>1. calls \in Seq(Calls) /\ calls # <<>> /\ Head(calls).lock = Current(a).lock
      BY <2>1, <2>2, Consumed DEF Current
    <3>2. job' = [job EXCEPT ![a].calls = calls]  BY <2>2 DEF TypeOK
    <3> HIDE DEF calls
    <3>3. job' \in [Actors -> [calls : Seq(Calls), inside : BOOLEAN, halts : BOOLEAN]]
      BY <3>1, <3>2 DEF TypeOK
    <3>4. QED  BY <3>1, <3>2, <3>3, <2>2 DEF TypeOK, LockInv, Current
  <2>3. CASE Write(a)
    <3>1. Current(a).items \in Seq(Items) /\ Current(a).lock = "CONSOLE"
      BY <2>1, <2>3 DEF Write, Inside, Calls
    <3>2. [Current(a) EXCEPT !.items = Tail(Current(a).items)] \in Calls
      <4>1. Tail(Current(a).items) \in Seq(Items)  BY <2>1, <3>1
      <4>2. QED  BY <2>1, <3>1, <4>1 DEF Calls
    <3>3. job' = [job EXCEPT ![a].calls[1].items = Tail(Current(a).items)]
      <4>1. Head(job[a].calls) = job[a].calls[1]  BY <2>1
      <4>2. QED  BY <2>3, <4>1 DEF Write, Current
    <3>4. Head(Current(a).items) \in Items  BY <2>1, <3>1
    <3>5. OnScreen(con')  BY <3>4, <2>3, PerformTyped DEF Write, TypeOK
    <3>6. QED  BY <2>2, <3>2, <3>3, <3>5, <2>3 DEF Write, TypeOK, OnScreen
  <2>4. CASE Send(a)
    <3>1. Current(a).items \in Seq(ByteItems) /\ Current(a).lock = "SERIAL"
      BY <2>1, <2>4 DEF Send, Inside, Calls
    <3> /\ UNCHANGED <<con, owner, interrupts, routines, keys>>
        /\ spins' \in 0 .. SPIN_LIMIT
      BY <2>4 DEF Send, TypeOK
    <3>2. CASE UNCHANGED job
      BY <3>2 DEF TypeOK, LockInv, Current, OnScreen
    <3>3. CASE job' = [job EXCEPT ![a].calls[1].items = After(@)] /\ spins' = 0
      <4>1. After(Current(a).items) \in Seq(ByteItems)
        <5>1. Tail(Current(a).items) \in Seq(ByteItems)  BY <2>1, <3>1
        <5>2. <<Item("char", LF)>> \in Seq(ByteItems)  BY DEF Item, ByteItems
        <5>3. QED  BY <5>1, <5>2, ConcatProperties DEF After
      <4>2. [Current(a) EXCEPT !.items = After(Current(a).items)] \in Calls
        BY <2>1, <3>1, <4>1 DEF Calls
      <4>3. job' = [job EXCEPT ![a].calls[1].items = After(Current(a).items)]
        <5>1. Head(job[a].calls) = job[a].calls[1]  BY <2>1
        <5>2. QED  BY <3>3, <5>1 DEF Current
      <4>4. QED  BY <2>2, <4>2, <4>3 DEF TypeOK, OnScreen
    <3>4. QED  BY <3>2, <3>3, <2>4 DEF Send
  <2>5. QED  BY <1>2, <2>3, <2>4
<1>3. ASSUME NEW a \in Actors, Unlock(a) PROVE ConsoleInv'
  <2>1. /\ job[a].calls \in Seq(Calls) /\ job[a].calls # <<>> /\ Current(a) \in Calls
        /\ job[a].inside /\ owner[Current(a).lock] = a
    BY <1>3 DEF Unlock, Making, TypeOK, Current, LockInv
  <2>2. Current(a).lock \in Locks  BY <2>1 DEF Calls, Locks
  <2>3. TypeOK'
    <3>1. Tail(job[a].calls) \in Seq(Calls)  BY <2>1
    <3>2. job' \in [Actors -> [calls : Seq(Calls), inside : BOOLEAN, halts : BOOLEAN]]
      BY <3>1, <1>3 DEF Unlock, TypeOK
    <3>3. owner' \in [Locks -> Actors \cup {Free}]  BY <1>3, <2>2 DEF Unlock, TypeOK
    <3>4. QED  BY <3>2, <3>3, <1>3 DEF Unlock, TypeOK, OnScreen
  <2>4. ASSUME NEW b \in Actors, job'[b].inside
        PROVE  job'[b].calls # <<>> /\ owner'[Head(job'[b].calls).lock] = b
    <3>1. b # a  BY <2>4, <1>3, <2>1 DEF Unlock, TypeOK
    <3>2. job'[b] = job[b]  BY <3>1, <1>3 DEF Unlock, TypeOK
    <3>3. job[b].calls # <<>> /\ owner[Current(b).lock] = b  BY <2>4, <3>2 DEF LockInv
    <3>4. QED  BY <3>1, <3>2, <3>3, <2>1, <1>3 DEF Unlock, Current, TypeOK
  <2>5. QED  BY <2>3, <2>4 DEF LockInv, Current
<1>4. CASE enable
  BY <1>4 DEF enable, TypeOK, LockInv, Current, OnScreen
<1>5. CASE run_routine
  <2>1. PICK m \in Texts, n \in Numbers :
          \E calls \in {write_str(m), writeln(m), writeln_num(m, n), ls_entry(m, n)} :
            job' = [job EXCEPT !["thread"] = Job(calls, FALSE)]
    BY <1>5 DEF run_routine
  <2>2. PICK calls \in {write_str(m), writeln(m), writeln_num(m, n), ls_entry(m, n)} :
            job' = [job EXCEPT !["thread"] = Job(calls, FALSE)]
    BY <2>1
  <2>3. calls \in Seq(Calls)
    <3>1. m \in Seq(Bytes) /\ n \in Seq(Bytes)  OBVIOUS
    <3>2. QED  BY <3>1, <2>2, RoutineTyped
  <2>4. "thread" \in Actors /\ ~job["thread"].inside
    BY <1>5 DEF run_routine, Busy, Idle, Actors
  <2>5. LockInv' /\ job' \in [Actors -> [calls : Seq(Calls), inside : BOOLEAN, halts : BOOLEAN]]
        /\ OnScreen(con)' /\ owner' \in [Locks -> Actors \cup {Free}] /\ spins' \in 0 .. SPIN_LIMIT
    BY <2>2, <2>3, <2>4, <1>5, NewJob DEF run_routine
  <2>6. routines' \in 0 .. MaxRoutines  BY <1>5 DEF run_routine, TypeOK
  <2>7. QED  BY <2>5, <2>6, <1>5 DEF run_routine, TypeOK
<1>6. CASE panic
  <2>1. PICK m \in Texts :
          job' = [job EXCEPT !["thread"] = Job(<<serial_write(Append(m, LF)), vga_panic(m)>>, TRUE)]
    BY <1>6 DEF panic
  <2>2. <<serial_write(Append(m, LF)), vga_panic(m)>> \in Seq(Calls)
    <3>1. m \in Seq(Bytes) /\ Append(m, LF) \in Seq(Bytes)  OBVIOUS
    <3>2. serial_write(Append(m, LF)) \in Calls  BY <3>1, CallTyped
    <3>3. vga_panic(m) \in Calls  BY <3>1, PanicTyped DEF TypeOK
    <3>4. QED  BY <3>2, <3>3
  <2>3. "thread" \in Actors /\ ~job["thread"].inside  BY <1>6 DEF panic, Actors
  <2>5. LockInv' /\ job' \in [Actors -> [calls : Seq(Calls), inside : BOOLEAN, halts : BOOLEAN]]
        /\ OnScreen(con)' /\ owner' \in [Locks -> Actors \cup {Free}] /\ spins' \in 0 .. SPIN_LIMIT
    BY <2>1, <2>2, <2>3, <1>6, NewJob DEF panic
  <2>6. QED  BY <2>5, <1>6 DEF panic, TypeOK
<1>7. CASE keyboard
  <2>1. PICK calls \in Seq(Calls), halts \in BOOLEAN : job' = [job EXCEPT !["irq"] = Job(calls, halts)]
    <3>1. CASE \E c \in Echoes : job' = [job EXCEPT !["irq"] = Job(<<c>>, FALSE)]
      <4>1. Echoes \subseteq Calls
        <5>1. <<SP, SP, SP, SP>> \in Seq(Bytes)  OBVIOUS
        <5>2. QED  BY <5>1, CallTyped DEF Echoes
      <4>2. PICK c \in Echoes : job' = [job EXCEPT !["irq"] = Job(<<c>>, FALSE)]  BY <3>1
      <4>3. <<c>> \in Seq(Calls)  BY <4>1, <4>2
      <4>4. QED  BY <4>2, <4>3
    <3>2. CASE \E m \in Texts : job' = [job EXCEPT !["irq"] = Job(<<serial_write(m)>>, TRUE)]
      <4>1. \A m \in Texts : serial_write(m) \in Calls  BY CallTyped
      <4>2. PICK m \in Texts : job' = [job EXCEPT !["irq"] = Job(<<serial_write(m)>>, TRUE)]
        BY <3>2
      <4>3. <<serial_write(m)>> \in Seq(Calls)  BY <4>1
      <4>4. QED  BY <4>2, <4>3
    <3>3. QED  BY <1>7, <3>1, <3>2 DEF keyboard
  <2>2. "irq" \in Actors /\ ~job["irq"].inside  BY <1>7 DEF keyboard, Busy, Idle, Actors
  <2>3. LockInv' /\ job' \in [Actors -> [calls : Seq(Calls), inside : BOOLEAN, halts : BOOLEAN]]
        /\ OnScreen(con)' /\ owner' \in [Locks -> Actors \cup {Free}] /\ spins' \in 0 .. SPIN_LIMIT
    BY <2>1, <2>2, <1>7, NewJob DEF keyboard
  <2>4. QED  BY <2>3, <1>7 DEF keyboard, TypeOK
<1>8. CASE report
  <2>1. PICK n \in {2, 3}, m \in Texts :
          job' = [job EXCEPT !["exception"] = Job([i \in 1 .. n |-> serial_write(m)], TRUE)]
    BY <1>8 DEF report
  <2>2. [i \in 1 .. n |-> serial_write(m)] \in Seq(Calls)
    <3>1. serial_write(m) \in Calls  BY CallTyped
    <3>2. [i \in 1 .. n |-> serial_write(m)] \in [1 .. n -> Calls]  BY <3>1
    <3>3. n \in Nat  OBVIOUS
    <3>4. QED  BY <3>2, <3>3
  <2>3. "exception" \in Actors /\ ~job["exception"].inside
    BY <1>8 DEF report, Busy, Idle, Actors
  <2>4. LockInv' /\ job' \in [Actors -> [calls : Seq(Calls), inside : BOOLEAN, halts : BOOLEAN]]
        /\ OnScreen(con)' /\ owner' \in [Locks -> Actors \cup {Free}] /\ spins' \in 0 .. SPIN_LIMIT
    BY <2>1, <2>2, <2>3, <1>8, NewJob DEF report
  <2>5. QED  BY <2>4, <1>8 DEF report, TypeOK
<1>9. CASE UNCHANGED vars
  BY <1>9 DEF vars, TypeOK, LockInv, Current, OnScreen
<1>10. QED  BY <1>1, <1>2, <1>3, <1>4, <1>5, <1>6, <1>7, <1>8, <1>9 DEF Next, Step

(* The cursor never leaves the screen (TypeOK, with the lock invariant it  *)
(* needs).                                                                 *)
THEOREM ConsoleTyped == Spec => []TypeOK
<1>1. Spec => []ConsoleInv  BY ConsoleInit, ConsoleStep, PTL DEF Spec
<1>2. ConsoleInv => TypeOK  BY DEF ConsoleInv
<1>3. QED  BY <1>1, <1>2, PTL
-----------------------------------------------------------------------------
(* What the terminal does when the console goes to the next row.           *)
LEMMA FeedSheet ==
  ASSUME OnScreen(con), NEW d, d = new_line(con)
  PROVE  /\ Sheet(d) = T!Fed
         /\ d.count = IF Cursor(con).line < T!Last THEN con.count ELSE con.count + 1
         /\ d.count + d.row_position = con.count + con.row_position + 1
         /\ d.column_position = 0 /\ d.style = con.style
<1>1. /\ con.count \in Nat /\ con.row_position \in Rows /\ con.style \in Styles
      /\ BUFFER_HEIGHT \in Nat \ {0}
  BY DEF OnScreen
<1>2. T!Last = con.count + BUFFER_HEIGHT - 1  BY DEF T!Last
<1>3. Cursor(con).line = con.count + con.row_position /\ Cursor(con).style = con.style
  BY DEF Cursor
<1>4. T!Blank(con.style) = blank_row(con.style)  BY DEF T!Blank, T!Columns, blank_row, Cols
<1>5. CASE con.row_position < BUFFER_HEIGHT - 1
  <2>1. Cursor(con).line < T!Last  BY <1>1, <1>2, <1>3, <1>5 DEF Rows
  <2>2. T!Fed = Sheet(con)  BY <2>1 DEF T!Fed
  <2>3. /\ Sheet(d) = Sheet(con) /\ d.count = con.count /\ d.row_position = con.row_position + 1
        /\ d.column_position = 0 /\ d.style = con.style
    BY <1>5, NewLineTyped
  <2>4. d.count + d.row_position = con.count + con.row_position + 1  BY <1>1, <2>3 DEF Rows
  <2>5. QED  BY <2>1, <2>2, <2>3, <2>4
<1>6. CASE ~(con.row_position < BUFFER_HEIGHT - 1)
  <2>1. ~(Cursor(con).line < T!Last) /\ con.row_position \in Nat
    BY <1>1, <1>2, <1>3, <1>6 DEF Rows
  <2>2. /\ Sheet(d) = Sheet(scroll(con)) /\ d.count = con.count + 1
        /\ d.row_position = con.row_position /\ d.column_position = 0 /\ d.style = con.style
    BY <1>6, NewLineTyped
  <2>3. Sheet(scroll(con)) =
          [i \in 0 .. con.count + BUFFER_HEIGHT |->
             IF i <= con.count + BUFFER_HEIGHT - 1 THEN Sheet(con)[i] ELSE blank_row(con.style)]
    BY ScrollTyped
  <2>4. T!Fed = [i \in 0 .. con.count + BUFFER_HEIGHT |->
             IF i <= con.count + BUFFER_HEIGHT - 1 THEN Sheet(con)[i] ELSE blank_row(con.style)]
    <3>1. T!Last + 1 = con.count + BUFFER_HEIGHT  BY <1>1, <1>2
    <3>2. QED  BY <2>1, <3>1, <1>2, <1>3, <1>4 DEF T!Fed
  <2>5. d.count + d.row_position = con.count + con.row_position + 1  BY <1>1, <2>1, <2>2
  <2>6. Sheet(d) = T!Fed  BY <2>2, <2>3, <2>4
  <2>7. QED  BY <2>1, <2>2, <2>5, <2>6
<1>7. QED  BY <1>5, <1>6

LEMMA CursorMoved ==
  ASSUME NEW d, d.style = con.style
  PROVE  Cursor(d) = T!At(d.count + d.row_position, d.column_position)
BY DEF Cursor, T!At

(* One item of a call is one step of the terminal, or none.                *)
LEMMA PerformRefines ==
  ASSUME OnScreen(con), NEW item \in Items, con' = perform(con, item),
         owner["CONSOLE"] # Free, UNCHANGED owner
  PROVE  [T!AbsNext]_(T!absVars)
<1> DEFINE Same == UNCHANGED <<Sheet(con), con.count, Cursor(con)>>
<1>1. /\ con.count \in Nat /\ con.row_position \in Rows /\ con.style \in Styles
      /\ con.column_position \in 0 .. BUFFER_WIDTH /\ BUFFER_WIDTH \in Nat \ {0}
      /\ BUFFER_HEIGHT \in Nat \ {0}
  BY DEF OnScreen
<1>2. SUFFICES \/ (\E g \in Bytes : T!Type(g)) \/ T!NewLine \/ T!Home \/ T!Erase
               \/ T!SetStyle \/ T!Clear \/ Same
  BY DEF T!AbsNext, T!Write, T!absVars
<1>3. CASE con' = new_line(con)
  <2>1. /\ Sheet(con') = T!Fed
        /\ con'.count = IF Cursor(con).line < T!Last THEN con.count ELSE con.count + 1
        /\ con'.count + con'.row_position = con.count + con.row_position + 1
        /\ con'.column_position = 0 /\ con'.style = con.style
    BY <1>3, FeedSheet
  <2>2. Cursor(con') = T!At(Cursor(con).line + 1, 0)
    <3>1. Cursor(con).line + 1 = con'.count + con'.row_position  BY <2>1 DEF Cursor
    <3>2. QED  BY <2>1, <3>1, CursorMoved
  <2>3. T!NewLine  BY <2>1, <2>2 DEF T!NewLine, T!Feed
  <2>4. QED  BY <2>3
<1>4. CASE item.op = "style"
  <2>1. item.arg \in Styles  BY <1>4 DEF Items, ByteItems
  <2>2. con' = [con EXCEPT !.style = item.arg]  BY <1>4 DEF perform
  <2>3. /\ Sheet(con') = Sheet(con) /\ con'.count = con.count
        /\ Cursor(con') = [Cursor(con) EXCEPT !.style = item.arg]
    BY <2>2 DEF OnScreen, Sheet, Cursor
  <2>4. T!SetStyle  BY <2>1, <2>3 DEF T!SetStyle
  <2>5. QED  BY <2>4
<1>5. CASE item.op = "clear"
  <2>1. con' = clear(con)  BY <1>5 DEF perform
  <2>2. /\ con'.count = con.count /\ con'.style = con.style
        /\ con'.row_position = 0 /\ con'.column_position = 0
        /\ Sheet(con') = [i \in DOMAIN Sheet(con) |->
                            IF i < con.count THEN Sheet(con)[i] ELSE blank_row(con.style)]
    BY <2>1, ClearTyped
  <2>3. T!Blank(Cursor(con).style) = blank_row(con.style)
    BY DEF T!Blank, T!Columns, blank_row, Cols, Cursor
  <2>4. Cursor(con') = T!At(con.count, 0)
    <3>1. con'.count + con'.row_position = con.count  BY <1>1, <2>2
    <3>2. QED  BY <2>2, <3>1, CursorMoved
  <2>5. T!Clear  BY <2>2, <2>3, <2>4 DEF T!Clear
  <2>6. QED  BY <2>5
<1>6. CASE item.op = "backspace"
  <2>1. con' = backspace(con)  BY <1>6 DEF perform
  <2>2. ASSUME NEW row \in Rows, NEW col \in Cols, con' = backspace_at(con, row, col)
        PROVE  T!EraseAt(con.count + row, col)
    <3>1. /\ con'.count = con.count /\ con'.style = con.style
          /\ con'.row_position = row /\ con'.column_position = col
          /\ Sheet(con') = Patched(Sheet(con), con.count + row, col, <<SP, con.style>>)
      BY <2>2, BackspaceTyped
    <3>2. Cursor(con') = T!At(con.count + row, col)
      BY <3>1, CursorMoved
    <3>3. Cursor(con).style = con.style  BY DEF Cursor
    <3>4. QED  BY <3>1, <3>2, <3>3 DEF T!EraseAt, Patched
  <2>3. Cursor(con).line = con.count + con.row_position /\ Cursor(con).column = con.column_position
    BY DEF Cursor
  <2>4. CASE con.column_position > 0
    <3>1. con.column_position - 1 \in Cols  BY <1>1, <2>4 DEF Cols
    <3>2. con' = backspace_at(con, con.row_position, con.column_position - 1)
      BY <2>1, <2>4 DEF backspace
    <3>3. T!EraseAt(con.count + con.row_position, con.column_position - 1)
      BY <1>1, <3>1, <3>2, <2>2
    <3>4. T!Erase  BY <2>3, <2>4, <3>3 DEF T!Erase
    <3>5. QED  BY <3>4
  <2>5. CASE ~(con.column_position > 0) /\ con.row_position > 0
    <3>1. BUFFER_WIDTH - 1 \in Cols /\ con.row_position - 1 \in Rows  BY <1>1, <2>5 DEF Cols, Rows
    <3>2. con' = backspace_at(con, con.row_position - 1, BUFFER_WIDTH - 1)
      BY <2>1, <2>5 DEF backspace
    <3>3. T!EraseAt(con.count + (con.row_position - 1), BUFFER_WIDTH - 1)
      BY <3>1, <3>2, <2>2
    <3>4. con.count + (con.row_position - 1) = con.count + con.row_position - 1
          /\ con.count + con.row_position > con.count /\ con.column_position = 0
      BY <1>1, <2>5 DEF Rows
    <3>5. T!EraseAt(Cursor(con).line - 1, BUFFER_WIDTH - 1)
      <4>1. Cursor(con).line - 1 = con.count + (con.row_position - 1)
        BY <1>1, <2>3, <3>4 DEF Rows
      <4>2. QED  BY <3>3, <4>1
    <3>6. Cursor(con).column = 0 /\ Cursor(con).line > con.count  BY <2>3, <3>4
    <3>7. T!Erase  BY <3>5, <3>6 DEF T!Erase
    <3>8. QED  BY <3>7
  <2>6. CASE ~(con.column_position > 0) /\ ~(con.row_position > 0)
    BY <2>1, <2>6 DEF backspace
  <2>7. QED  BY <2>4, <2>5, <2>6
<1>7. CASE item.op = "newline"
  BY <1>3, <1>7 DEF perform
<1>8. CASE item.op \in {"byte", "char"}
  <2>1. item.arg \in Bytes  BY <1>8 DEF Items, ByteItems
  <2>2. CASE item.arg = LF
    <3>1. con' = new_line(con)  BY <1>8, <2>2 DEF perform, LF, CR
    <3>2. QED  BY <3>1, <1>3
  <2>3. CASE item.arg # LF /\ item.op = "byte" /\ item.arg = CR
    <3>1. con' = [con EXCEPT !.column_position = 0]  BY <2>3 DEF perform, LF, CR
    <3>2. /\ Sheet(con') = Sheet(con) /\ con'.count = con.count
          /\ Cursor(con') = T!At(Cursor(con).line, 0)
      BY <3>1 DEF OnScreen, Sheet, Cursor, T!At
    <3>3. T!Home  BY <3>2 DEF T!Home
    <3>4. QED  BY <3>3
  <2>4. CASE item.arg # LF /\ ~(item.op = "byte" /\ item.arg = CR)
    <3>1. con' = write_byte(con, item.arg)  BY <1>8, <2>4 DEF perform
    <3> DEFINE d == IF con.column_position >= BUFFER_WIDTH THEN new_line(con) ELSE con
    <3>2. /\ con'.count = d.count /\ con'.style = d.style /\ d.style = con.style
          /\ con'.row_position = d.row_position
          /\ con'.column_position = d.column_position + 1
          /\ Sheet(con') = Patched(Sheet(d), d.count + d.row_position, d.column_position,
                                   <<item.arg, d.style>>)
      BY <2>1, <3>1, WriteByteTyped
    <3>3. /\ Cursor(con).line = con.count + con.row_position
          /\ Cursor(con).column = con.column_position /\ Cursor(con).style = con.style
      BY DEF Cursor
    <3>4. CASE con.column_position < BUFFER_WIDTH
      <4>1. d = con  BY <1>1, <3>4
      <4>2. Cursor(con') = T!At(Cursor(con).line, Cursor(con).column + 1)  BY <3>2, <4>1 DEF Cursor, T!At
      <4>3. Sheet(con') = Patched(Sheet(con), Cursor(con).line, Cursor(con).column,
                                  <<item.arg, Cursor(con).style>>)
        BY <3>2, <3>3, <4>1
      <4>4. T!Type(item.arg)  BY <3>2, <3>3, <3>4, <4>1, <4>2, <4>3 DEF T!Type, Patched
      <4>5. QED  BY <2>1, <4>4
    <3>5. CASE ~(con.column_position < BUFFER_WIDTH)
      <4>1. d = new_line(con) /\ con.column_position = BUFFER_WIDTH  BY <1>1, <3>5
      <4>2. /\ Sheet(d) = T!Fed
            /\ d.count = IF Cursor(con).line < T!Last THEN con.count ELSE con.count + 1
            /\ d.count + d.row_position = con.count + con.row_position + 1
            /\ d.column_position = 0
        BY <4>1, FeedSheet
      <4> HIDE DEF d
      <4>3. Cursor(con') = T!At(Cursor(con).line + 1, 1)
        <5>1. con'.count + con'.row_position = d.count + d.row_position  BY <3>2
        <5>2. Cursor(con).line + 1 = con'.count + con'.row_position  BY <3>3, <4>2, <5>1
        <5>3. con'.column_position = 1  BY <3>2, <4>2
        <5>4. con'.style = con.style  BY <3>2
        <5>5. QED  BY <5>2, <5>3, <5>4, CursorMoved
      <4>4. Sheet(con') = Patched(T!Fed, Cursor(con).line + 1, 0, <<item.arg, Cursor(con).style>>)
        BY <3>2, <3>3, <4>2
      <4>5. T!Type(item.arg)
        BY <3>2, <3>3, <4>1, <4>2, <4>3, <4>4 DEF T!Type, T!Feed, Patched
      <4>6. QED  BY <2>1, <4>5
    <3>6. QED  BY <3>4, <3>5
  <2>5. QED  BY <2>2, <2>3, <2>4
<1>9. QED  BY <1>4, <1>5, <1>6, <1>7, <1>8 DEF Items, ByteItems

(* The console implements the terminal.                                    *)
THEOREM ConsoleImplementsTerminal == Spec => ImplementsTerminal
<1>1. Init => T!AbsInit
  <2> SUFFICES ASSUME Init PROVE T!AbsInit  OBVIOUS
  <2>1. con.count = 0 /\ con.row_position = 0 /\ con.column_position = 0
        /\ con.style = DEFAULT_STYLE /\ con.screen = [r \in Rows |-> blank_row(DEFAULT_STYLE)]
        /\ owner["CONSOLE"] = Free
    BY DEF Init, Locks
  <2>2. \A r \in Rows : con.screen[r] \in Row  BY <2>1, BlankRow
  <2>3. Sheet(con) \in [0 .. BUFFER_HEIGHT - 1 -> Row]
    <3>1. \A i \in 0 .. BUFFER_HEIGHT - 1 : ~(i < 0) /\ i - 0 \in Rows  BY DEF Rows
    <3>2. 0 + BUFFER_HEIGHT - 1 = BUFFER_HEIGHT - 1  OBVIOUS
    <3>3. QED  BY <2>1, <2>2, <3>1, <3>2 DEF Sheet
  <2>4. Cursor(con) \in [line : {0}, column : {0}, style : Styles]  BY <2>1 DEF Cursor
  <2>5. QED  BY <2>1, <2>3, <2>4 DEF T!AbsInit, T!Columns, Row, Cols
<1>2. ConsoleInv /\ [Next]_vars => [T!AbsNext]_(T!absVars)
  <2> SUFFICES ASSUME ConsoleInv, [Next]_vars PROVE [T!AbsNext]_(T!absVars)
    OBVIOUS
  <2>1. ASSUME NEW a \in Actors, Lock(a) PROVE [T!AbsNext]_(T!absVars)
    <3>1. CASE Current(a).lock = "CONSOLE"
      <4>1. T!Open(a)
        BY <2>1, <3>1 DEF Lock, T!Open, ConsoleInv, TypeOK, Locks
      <4>2. QED  BY <4>1 DEF T!AbsNext
    <3>2. CASE Current(a).lock # "CONSOLE"
      BY <2>1, <3>2 DEF Lock, T!absVars, ConsoleInv, TypeOK
    <3>3. QED  BY <3>1, <3>2
  <2>2. ASSUME NEW a \in Actors, Write(a) PROVE [T!AbsNext]_(T!absVars)
    <3>1. /\ job[a].calls \in Seq(Calls) /\ job[a].calls # <<>> /\ Current(a) \in Calls
          /\ Current(a).items # <<>> /\ Current(a).lock = "CONSOLE" /\ job[a].inside
      BY <2>2 DEF Write, Making, ConsoleInv, TypeOK, Current, Inside
    <3>2. Current(a).items \in Seq(Items)  BY <3>1 DEF Calls
    <3>3. Head(Current(a).items) \in Items  BY <3>1, <3>2
    <3>4. owner["CONSOLE"] # Free  BY <3>1 DEF ConsoleInv, LockInv, Actors, Free
    <3>5. QED  BY <2>2, <3>3, <3>4, PerformRefines DEF Write, ConsoleInv, TypeOK
  <2>3. ASSUME NEW a \in Actors, Unlock(a) PROVE [T!AbsNext]_(T!absVars)
    <3>1. owner[Current(a).lock] = a  BY <2>3 DEF Unlock, ConsoleInv, LockInv
    <3>2. CASE Current(a).lock = "CONSOLE"
      <4>1. T!Close
        BY <2>3, <3>1, <3>2 DEF Unlock, T!Close, ConsoleInv, TypeOK, Locks, Actors, Free
      <4>2. QED  BY <4>1 DEF T!AbsNext
    <3>3. CASE Current(a).lock # "CONSOLE"
      BY <2>3, <3>3 DEF Unlock, T!absVars, ConsoleInv, TypeOK
    <3>4. QED  BY <3>2, <3>3
  <2>4. CASE UNCHANGED <<con, owner>>
    BY <2>4 DEF T!absVars
  <2>5. QED
    BY <2>1, <2>2, <2>3, <2>4
       DEF Next, Step, Send, enable, run_routine, panic, keyboard, report, vars
<1>3. Spec => []ConsoleInv  BY ConsoleInit, ConsoleStep, PTL DEF Spec
<1>4. QED  BY <1>1, <1>2, <1>3, PTL DEF Spec, ImplementsTerminal, T!AbsSpec
=============================================================================
