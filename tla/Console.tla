------------------------------- MODULE Console ------------------------------
(***************************************************************************)
(* The text console of kernel/src/vga.rs and the serial port of            *)
(* kernel/src/serial.rs, each behind a spin lock, and who uses them: the   *)
(* kernel's only thread (kernel_main and the shell), the keyboard          *)
(* interrupt, which echoes what is typed, and the exception handlers,      *)
(* which report and halt.  There is one processor: a handler runs with     *)
(* interrupts off, and what it interrupted waits until it returns.         *)
(*                                                                         *)
(* An operator named X_Y after a comment that starts with "Fault:" is a    *)
(* deliberately wrong variant Y of X; no specification uses it.            *)
(***************************************************************************)
EXTENDS Integers, Sequences

CONSTANTS
  BUFFER_WIDTH, BUFFER_HEIGHT,   \* 80 and 25 in the code
  Bytes,       \* the bytes a message may hold
  Styles, DEFAULT_STYLE, HEAD_STYLE, PANIC_STYLE,
  Texts,       \* the messages, and the names the shell prints
  Numbers,     \* the numbers it prints, as their digits
  EchoedBytes, \* the characters of the keys that may be typed
  SPIN_LIMIT,  \* 1_000_000 in the code: the looks at the line status
  Exceptions,  \* whether exceptions happen
  MaxRoutines, MaxKeys  \* bounds on the work of the thread and on typing

LF == "LF"
CR == "CR"
SP == "SP"

ASSUME ConsoleAssumption ==
  /\ BUFFER_WIDTH \in Nat \ {0} /\ BUFFER_HEIGHT \in Nat \ {0}
  /\ {LF, CR, SP} \subseteq Bytes /\ EchoedBytes \subseteq Bytes
  /\ Texts \subseteq Seq(Bytes) /\ Numbers \subseteq Seq(Bytes)
  /\ {DEFAULT_STYLE, HEAD_STYLE, PANIC_STYLE} \subseteq Styles
  /\ SPIN_LIMIT \in Nat /\ MaxRoutines \in Nat /\ MaxKeys \in Nat

VARIABLES
  con,         \* the Console and the screen it writes, see TypeOK
  owner,       \* who holds CONSOLE and SERIAL
  job,         \* what each actor is doing
  spins,       \* of the wait for the serial transmitter
  interrupts,  \* whether the processor takes interrupts
  routines, keys  \* how many there have been

vars == <<con, owner, job, spins, interrupts, routines, keys>>

Rows == 0 .. BUFFER_HEIGHT - 1
Cols == 0 .. BUFFER_WIDTH - 1

blank_row(style) == [c \in Cols |-> <<SP, style>>]
-----------------------------------------------------------------------------
(* vga.rs: the methods of Console, from the console before to the one      *)
(* after.  con.gone is history: the rows that scrolled off the top.        *)

(* Fault: the last row keeps its text when the screen scrolls.             *)
scroll_KeepsLast(c) ==
  [c EXCEPT !.gone = [i \in 0 .. c.count |-> IF i < c.count THEN c.gone[i] ELSE c.screen[0]],
            !.count = @ + 1,
            !.screen = [r \in Rows |-> IF r < BUFFER_HEIGHT - 1 THEN c.screen[r + 1]
                                       ELSE c.screen[r]]]

scroll(c) ==
  [c EXCEPT !.gone = [i \in 0 .. c.count |-> IF i < c.count THEN c.gone[i] ELSE c.screen[0]],
            !.count = @ + 1,
            !.screen = [r \in Rows |-> IF r < BUFFER_HEIGHT - 1 THEN c.screen[r + 1]
                                       ELSE blank_row(c.style)]]

(* Fault: the last row is not the end of the screen.                       *)
new_line_RunsOff(c) == [c EXCEPT !.column_position = 0, !.row_position = @ + 1]

new_line(c) ==
  IF c.row_position < BUFFER_HEIGHT - 1
  THEN [c EXCEPT !.column_position = 0, !.row_position = @ + 1]
  ELSE [scroll(c) EXCEPT !.column_position = 0]

write_entry_at(c, byte, row, col) == [c EXCEPT !.screen[row][col] = <<byte, c.style>>]

write_byte(c, byte) ==
  LET d == IF c.column_position >= BUFFER_WIDTH THEN new_line(c) ELSE c
  IN  [write_entry_at(d, byte, d.row_position, d.column_position)
        EXCEPT !.column_position = @ + 1]

backspace_at(c, row, col) ==
  [write_entry_at(c, SP, row, col) EXCEPT !.row_position = row, !.column_position = col]

backspace(c) ==
  IF c.column_position > 0 THEN backspace_at(c, c.row_position, c.column_position - 1)
  ELSE IF c.row_position > 0 THEN backspace_at(c, c.row_position - 1, BUFFER_WIDTH - 1)
  ELSE c

clear(c) == [c EXCEPT !.screen = [r \in Rows |-> blank_row(c.style)],
                      !.row_position = 0, !.column_position = 0]

(* One item of a call on the console.  A byte is one of a string           *)
(* (Console::write_str), a char one of put_char (write_char), which does   *)
(* not know the carriage return.                                           *)
Item(op, arg) == [op |-> op, arg |-> arg]

perform(c, item) ==
  CASE item.op = "style" -> [c EXCEPT !.style = item.arg]
    [] item.op = "clear" -> clear(c)
    [] item.op = "backspace" -> backspace(c)
    [] item.op = "newline" -> new_line(c)
    [] item.op \in {"byte", "char"} /\ item.arg = LF -> new_line(c)
    [] item.op = "byte" /\ item.arg = CR -> [c EXCEPT !.column_position = 0]
    [] OTHER -> write_byte(c, item.arg)
-----------------------------------------------------------------------------
(* Calls: the lock that is held from the start to the end of the call, and *)
(* what is done under it, item by item.                                    *)
Call(lock, items) == [lock |-> lock, items |-> items]

Each(m) == [i \in DOMAIN m |-> Item("byte", m[i])]

vga_init == Call("CONSOLE", <<Item("clear", SP)>>)
vga_write_str(m) == Call("CONSOLE", Each(m))
vga_write_line(m) == Call("CONSOLE", Append(Each(m), Item("newline", SP)))
vga_put_char(c) == Call("CONSOLE", <<Item("char", c)>>)
vga_backspace == Call("CONSOLE", <<Item("backspace", SP)>>)
vga_set_style(s) == Call("CONSOLE", <<Item("style", s)>>)
vga_panic(m) ==
  Call("CONSOLE", <<Item("style", PANIC_STYLE)>> \o Each(m)
                  \o <<Item("byte", LF), Item("style", con.style)>>)

serial_write(m) == Call("SERIAL", Each(m))

(* The shell writes to both outputs, one after the other, and a number     *)
(* digit by digit on the screen.                                           *)
write_str(m) == <<serial_write(m), vga_write_str(m)>>
writeln(m) == write_str(m) \o write_str(<<CR, LF>>)
print_num(n) == [i \in DOMAIN n |-> vga_put_char(n[i])]
writeln_num(prefix, n) ==
  <<serial_write(prefix \o n \o <<CR, LF>>), vga_write_str(prefix)>>
    \o print_num(n) \o <<vga_put_char(LF)>>
ls_entry(name, size) ==
  <<serial_write(name \o <<SP>> \o size \o <<CR, LF>>), vga_write_str(name), vga_put_char(SP)>>
    \o print_num(size) \o <<vga_put_char(LF)>>

(* What kernel_main writes before it enables interrupts.                   *)
headline(m) ==
  <<serial_write(m \o <<CR, LF>>), vga_init, vga_set_style(HEAD_STYLE), vga_write_line(m),
    vga_set_style(DEFAULT_STYLE)>>

(* What is left to send when the transmitter has taken one byte: a line    *)
(* feed is preceded by a carriage return.                                  *)
After(items) ==
  IF Head(items) = Item("byte", LF) THEN <<Item("char", LF)>> \o Tail(items)
  ELSE Tail(items)
-----------------------------------------------------------------------------
(* The three actors, the later ones interrupting the earlier.  A job is    *)
(* the calls still to make, whether the first of them has its lock, and    *)
(* whether the actor goes on or halts for ever when they are made.         *)
Actors == {"thread", "irq", "exception"}
Locks == {"CONSOLE", "SERIAL"}
Free == "free"
Idle == [calls |-> <<>>, inside |-> FALSE, halts |-> FALSE]
Job(calls, halts) == [calls |-> calls, inside |-> FALSE, halts |-> halts]

Busy(a) == job[a] # Idle
Running(a) ==
  /\ Busy(a)
  /\ a \in {"thread", "irq"} => ~Busy("exception")
  /\ a = "thread" => ~Busy("irq")

(* The call an actor is making.                                            *)
Current(a) == Head(job[a].calls)
Making(a) == Running(a) /\ job[a].calls # <<>>

(* Spinning on a lock is a wait for its owner to free it.                  *)
Lock(a) ==
  /\ Making(a) /\ ~job[a].inside
  /\ owner[Current(a).lock] = Free
  /\ owner' = [owner EXCEPT ![Current(a).lock] = a]
  /\ job' = [job EXCEPT ![a].inside = TRUE]
  /\ UNCHANGED <<con, spins, interrupts, routines, keys>>

Inside(a, lock) == job[a].inside /\ job[a].calls # <<>> /\ Current(a).lock = lock

Write(a) ==
  /\ Making(a) /\ Inside(a, "CONSOLE")
  /\ Current(a).items # <<>>
  /\ con' = perform(con, Head(Current(a).items))
  /\ job' = [job EXCEPT ![a].calls[1].items = Tail(@)]
  /\ UNCHANGED <<owner, spins, interrupts, routines, keys>>

(* Fault: the wait for the transmitter has no end.                         *)
Send_NoTimeout(a) ==
  /\ Making(a) /\ Inside(a, "SERIAL")
  /\ Current(a).items # <<>>
  /\ \/ /\ spins' = 0
        /\ job' = [job EXCEPT ![a].calls[1].items = After(@)]
     \/ /\ spins' = 1 - spins
        /\ UNCHANGED job
  /\ UNCHANGED <<con, owner, interrupts, routines, keys>>

(* A look at the line status: the byte goes out when the transmitter is    *)
(* ready or has been looked at too often.                                  *)
Send(a) ==
  /\ Making(a) /\ Inside(a, "SERIAL")
  /\ Current(a).items # <<>>
  /\ \/ /\ spins' = 0
        /\ job' = [job EXCEPT ![a].calls[1].items = After(@)]
     \/ /\ spins < SPIN_LIMIT
        /\ spins' = spins + 1
        /\ UNCHANGED job
  /\ UNCHANGED <<con, owner, interrupts, routines, keys>>

(* Fault: the guard outlives the call.                                     *)
Unlock_Keeps(a) ==
  /\ Making(a) /\ job[a].inside
  /\ Current(a).items = <<>>
  /\ job' = [job EXCEPT ![a].calls = Tail(@), ![a].inside = FALSE]
  /\ UNCHANGED <<con, owner, spins, interrupts, routines, keys>>

(* The guard of the lock is dropped at the end of the call.                *)
Unlock(a) ==
  /\ Making(a) /\ job[a].inside
  /\ Current(a).items = <<>>
  /\ owner' = [owner EXCEPT ![Current(a).lock] = Free]
  /\ job' = [job EXCEPT ![a].calls = Tail(@), ![a].inside = FALSE]
  /\ UNCHANGED <<con, spins, interrupts, routines, keys>>

Step(a) == Lock(a) \/ Write(a) \/ Send(a) \/ Unlock(a)
-----------------------------------------------------------------------------
(* kernel_main, with interrupts off until it has set everything up.        *)
enable ==
  /\ ~interrupts /\ ~Busy("thread") /\ ~Busy("exception")
  /\ interrupts' = TRUE
  /\ UNCHANGED <<con, owner, job, spins, routines, keys>>

(* The shell, or another part of the main loop.                            *)
run_routine ==
  /\ interrupts /\ \A a \in Actors : ~Busy(a)
  /\ routines < MaxRoutines
  /\ \E m \in Texts, n \in Numbers :
       \E calls \in {write_str(m), writeln(m), writeln_num(m, n), ls_entry(m, n)} :
         job' = [job EXCEPT !["thread"] = Job(calls, FALSE)]
  /\ routines' = routines + 1
  /\ UNCHANGED <<con, owner, spins, interrupts, keys>>

(* The thread panics, between two calls: the message goes to both outputs. *)
panic ==
  /\ \A a \in Actors \ {"thread"} : ~Busy(a)
  /\ ~job["thread"].inside /\ ~job["thread"].halts
  /\ \E m \in Texts :
       job' = [job EXCEPT !["thread"] = Job(<<serial_write(Append(m, LF)), vga_panic(m)>>, TRUE)]
  /\ UNCHANGED <<con, owner, spins, interrupts, routines, keys>>

(* The call with which handle_scancode echoes a key.                       *)
Echoes == {vga_backspace, vga_write_str(<<SP, SP, SP, SP>>)}
            \cup {vga_put_char(c) : c \in EchoedBytes}

(* The keyboard interrupt: an echo, or, for the shutdown combinations, a   *)
(* message on the serial port and the exit.                                *)
keyboard ==
  /\ interrupts /\ ~Busy("irq") /\ ~Busy("exception")
  /\ keys < MaxKeys
  /\ \/ \E c \in Echoes : job' = [job EXCEPT !["irq"] = Job(<<c>>, FALSE)]
     \/ \E m \in Texts : job' = [job EXCEPT !["irq"] = Job(<<serial_write(m)>>, TRUE)]
  /\ keys' = keys + 1
  /\ UNCHANGED <<con, owner, spins, interrupts, routines>>

(* An exception, at any instruction of the others: two or three messages   *)
(* on the serial port, one after the other, and the processor halts.       *)
report ==
  /\ Exceptions /\ ~Busy("exception")
  /\ \E n \in {2, 3}, m \in Texts :
       job' = [job EXCEPT !["exception"] = Job([i \in 1 .. n |-> serial_write(m)], TRUE)]
  /\ UNCHANGED <<con, owner, spins, interrupts, routines, keys>>

(* The state in which kernel_main starts to write: the serial port and the *)
(* IDT are set up.  vga_init wipes what the BIOS left on the screen.       *)
Init ==
  /\ con = [screen |-> [r \in Rows |-> blank_row(DEFAULT_STYLE)], row_position |-> 0,
            column_position |-> 0, style |-> DEFAULT_STYLE,
            gone |-> <<>>, count |-> 0]
  /\ owner = [l \in Locks |-> Free]
  /\ \E m \in Texts :
       job = [a \in Actors |-> IF a = "thread" THEN Job(headline(m), FALSE) ELSE Idle]
  /\ spins = 0 /\ interrupts = FALSE /\ routines = 0 /\ keys = 0

Next ==
  \/ \E a \in Actors : Step(a)
  \/ enable \/ run_routine \/ panic \/ keyboard \/ report

Spec == Init /\ [][Next]_vars

(* The processor executes whatever runs on it.                             *)
FairSpec == Spec /\ \A a \in Actors : WF_vars(Step(a))
-----------------------------------------------------------------------------
Row == [Cols -> Bytes \X Styles]
ByteItems == [op : {"byte", "char"}, arg : Bytes]
Items == ByteItems \cup [op : {"style"}, arg : Styles]
           \cup [op : {"newline", "backspace", "clear"}, arg : {SP}]
Calls == [lock : {"CONSOLE"}, items : Seq(Items)]
           \cup [lock : {"SERIAL"}, items : Seq(ByteItems)]

OnScreen(c) ==
  c \in [screen : [Rows -> Row], row_position : Rows, column_position : 0 .. BUFFER_WIDTH,
         style : Styles, gone : [0 .. c.count - 1 -> Row], count : Nat]

(* The cursor is on the screen, or just past the end of a row, so that     *)
(* every entry the console writes is inside the VGA buffer (write_byte,    *)
(* new_line, backspace).                                                   *)
TypeOK ==
  /\ OnScreen(con)
  /\ owner \in [Locks -> Actors \cup {Free}]
  /\ job \in [Actors -> [calls : Seq(Calls), inside : BOOLEAN, halts : BOOLEAN]]
  /\ spins \in 0 .. SPIN_LIMIT
  /\ interrupts \in BOOLEAN /\ routines \in 0 .. MaxRoutines /\ keys \in 0 .. MaxKeys

(* The sheet is the rows that are gone and then those on the screen.       *)
Sheet(c) == [i \in 0 .. c.count + BUFFER_HEIGHT - 1 |->
               IF i < c.count THEN c.gone[i] ELSE c.screen[i - c.count]]
Cursor(c) == [line |-> c.count + c.row_position, column |-> c.column_position,
              style |-> c.style]

T == INSTANCE Terminal WITH
  Width <- BUFFER_WIDTH, Height <- BUFFER_HEIGHT, Glyphs <- Bytes, Space <- SP,
  Writers <- Actors, Nobody <- Free,
  sheet <- Sheet(con), top <- con.count, cursor <- Cursor(con),
  writer <- owner["CONSOLE"]

(* The console is a terminal: no row is lost or changed when the screen    *)
(* scrolls, a glyph goes where the cursor is, and whoever has begun a      *)
(* message finishes it before anyone else writes.                          *)
ImplementsTerminal == T!AbsSpec

(* An actor waits for a lock that an actor it interrupted holds: neither   *)
(* will ever go on.                                                        *)
Stuck(a) ==
  /\ Making(a) /\ ~job[a].inside
  /\ \E b \in Actors \ {a} : Inside(b, Current(a).lock)

Halted(a) == job[a].calls = <<>> /\ job[a].halts

(* A handler returns or halts after its reports, unless it interrupted a   *)
(* write to the very output it needs.                                      *)
HandlersEnd ==
  /\ Busy("exception") ~> (Halted("exception") \/ Stuck("exception"))
  /\ Busy("irq") ~> (~Busy("irq") \/ Halted("irq") \/ Stuck("irq") \/ Busy("exception"))

(* "Handles a raw set-1 scancode; returns the combo description when a     *)
(* shutdown should be triggered": handle_scancode, which echoes the key,   *)
(* returns.                                                                *)
KeysHandled == Busy("irq") /\ ~job["irq"].halts ~> ~Busy("irq")

(* A lock is held by the actor that is inside a call on it, and by no      *)
(* other.                                                                  *)
LockInv == \A a \in Actors : job[a].inside =>
             job[a].calls # <<>> /\ owner[Current(a).lock] = a

ConsoleInv == TypeOK /\ LockInv
=============================================================================
