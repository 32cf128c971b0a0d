------------------------------ MODULE Keyboard ------------------------------
(***************************************************************************)
(* The path of a key press: the keyboard interrupt (idt.rs, keyboard.rs)   *)
(* decodes a scancode and pushes characters into the ring KBUF, and the    *)
(* shell (shell.rs), called from the loop of main.rs, polls the ring and   *)
(* edits its line.                                                         *)
(*                                                                         *)
(* There is one CPU and the handlers run with interrupts off, so an        *)
(* interrupt is one step, which may come between any two memory accesses   *)
(* of poll_char and between the last poll and the hlt of the main loop.    *)
(*                                                                         *)
(* KBUF is an immutable static that kbuf_push writes through a cast        *)
(* pointer.  That is undefined behaviour, with two outcomes: `build' says  *)
(* whether the compiled read of poll_char loads memory, or was folded to   *)
(* the initial value 0.                                                    *)
(*                                                                         *)
(* An operator named X_Y after a comment that starts with "Fault:" is a    *)
(* deliberately wrong variant Y of X; no specification uses it.            *)
(***************************************************************************)
EXTENDS Integers, Sequences

CONSTANTS
  KBUF_CAP,    \* 256 in the code
  LINE_LEN,    \* 256 in the code: LINE.len()
  Scancodes,   \* the bytes the keyboard may send
  Builds       \* the outcomes of the undefined read: "memory", "folded"

ASSUME KeyboardAssumption ==
  /\ KBUF_CAP \in Nat /\ KBUF_CAP >= 2
  /\ LINE_LEN \in Nat
  /\ Scancodes \subseteq 0 .. 255
  /\ Builds \subseteq {"memory", "folded"}

VARIABLES
  CTRL_HELD, SHIFT_HELD,
  KBUF, KHEAD, KTAIL,
  build,       \* never changes
  pc,          \* where the main loop is
  tail, byte,  \* locals of poll_char
  polled,      \* the last character poll_char returned
  shell,       \* [line: LINE[..LEN], executed: the line executed last]
  intended,    \* history: `shell' as if every character pushed was already read
  running      \* FALSE once the machine was switched off

isrVars == <<CTRL_HELD, SHIFT_HELD, KBUF, KHEAD, intended, running>>
shellVars == <<KTAIL, tail, byte, polled, shell>>
vars == <<isrVars, shellVars, build, pc>>

(***************************************************************************)
(* MAP_NORMAL and MAP_SHIFT, row by row of the keyboard.                   *)
(***************************************************************************)
None == "None"

MAP_NORMAL == [code \in 0 .. 57 |->
  CASE code \in 2 .. 13 -> <<"1","2","3","4","5","6","7","8","9","0","-","=">>[code - 1]
    [] code \in 16 .. 27 -> <<"q","w","e","r","t","y","u","i","o","p","[","]">>[code - 15]
    [] code \in 30 .. 41 -> <<"a","s","d","f","g","h","j","k","l",";","'","grave">>[code - 29]
    [] code \in 43 .. 53 -> <<"\\","z","x","c","v","b","n","m",",",".","/">>[code - 42]
    [] code = 57 -> " "
    [] OTHER -> None]

MAP_SHIFT == [code \in 0 .. 57 |->
  CASE code \in 2 .. 13 -> <<"!","@","#","$","%","^","&","*","(",")","_","+">>[code - 1]
    [] code \in 16 .. 27 -> <<"Q","W","E","R","T","Y","U","I","O","P","{","}">>[code - 15]
    [] code \in 30 .. 41 -> <<"A","S","D","F","G","H","J","K","L",":","\"","~">>[code - 29]
    [] code \in 43 .. 53 -> <<"|","Z","X","C","V","B","N","M","<",">","?">>[code - 42]
    [] code = 57 -> " "
    [] OTHER -> None]

Printable == ({MAP_NORMAL[code] : code \in 0 .. 57}
                \cup {MAP_SHIFT[code] : code \in 0 .. 57}) \ {None}

Enter == "LF"
Backspace == "BS"
Nul == "NUL"
Chars == Printable \cup {Enter, Backspace, Nul}
-----------------------------------------------------------------------------
(* Fault: no test for a full line.                                         *)
Edit_NoBound(s, c) ==
  CASE c = Enter -> [line |-> <<>>, executed |-> s.line]
    [] c = Backspace /\ s.line # <<>> ->
         [s EXCEPT !.line = SubSeq(@, 1, Len(@) - 1)]
    [] c \in Printable -> [s EXCEPT !.line = Append(@, c)]
    [] OTHER -> s

(* One character of shell::step; a full line ignores further characters,   *)
(* and Enter executes the line and clears it.                              *)
Edit(s, c) ==
  CASE c = Enter -> [line |-> <<>>, executed |-> s.line]
    [] c = Backspace /\ s.line # <<>> ->
         [s EXCEPT !.line = SubSeq(@, 1, Len(@) - 1)]
    [] c \in Printable /\ Len(s.line) < LINE_LEN ->
         [s EXCEPT !.line = Append(@, c)]
    [] OTHER -> s

(* Fault: pushing into a full ring.                                        *)
kbuf_push_NoFullTest(r, c) ==
  [buf |-> [r.buf EXCEPT ![r.head] = c], head |-> (r.head + 1) % KBUF_CAP,
   intended |-> Edit(r.intended, c)]

(* kbuf_push on r = [buf, head, intended].                                 *)
kbuf_push(r, c) ==
  LET next == (r.head + 1) % KBUF_CAP
  IN  IF next # KTAIL
        THEN [buf |-> [r.buf EXCEPT ![r.head] = c], head |-> next,
              intended |-> Edit(r.intended, c)]
        ELSE r

Ring == [buf |-> KBUF, head |-> KHEAD, intended |-> intended]

(* The ring after the characters of a key press: none, one, or a tab's     *)
(* four spaces.                                                            *)
PushAll(s) ==
  CASE Len(s) = 0 -> Ring
    [] Len(s) = 1 -> kbuf_push(Ring, s[1])
    [] OTHER -> kbuf_push(kbuf_push(kbuf_push(kbuf_push(Ring,
                  s[1]), s[2]), s[3]), s[4])

(* A CPU in hlt wakes up when an interrupt handler returns.                *)
Wake == pc' = IF pc = "hlt" THEN "tail" ELSE pc
-----------------------------------------------------------------------------
IsRelease(scancode) == scancode >= 128

Code(scancode) == scancode % 128

(* The extended prefix, a release, a modifier, X and C push nothing.       *)
IsSilent(scancode) ==
  \/ scancode = 224
  \/ IsRelease(scancode)
  \/ Code(scancode) \in {42, 54, 29, 45, 46}

(* The characters handle_scancode pushes.                                  *)
Pushes(scancode) ==
  LET code == Code(scancode)
      map  == IF SHIFT_HELD THEN MAP_SHIFT ELSE MAP_NORMAL
  IN  IF IsSilent(scancode) THEN <<>>
      ELSE CASE code = 14 -> <<Backspace>>
             [] code = 15 -> <<" ", " ", " ", " ">>
             [] code = 28 -> <<Enter>>
             [] code \in DOMAIN map /\ map[code] # None -> <<map[code]>>
             [] OTHER     -> <<>>

(* X or C pressed while Ctrl is held switches the machine off.             *)
IsShutdown(scancode) ==
  Code(scancode) \in {45, 46} /\ ~IsRelease(scancode) /\ CTRL_HELD

handle_scancode(scancode) ==
  LET ring == PushAll(Pushes(scancode))
  IN  /\ SHIFT_HELD' = IF Code(scancode) \in {42, 54}
                         THEN ~IsRelease(scancode) ELSE SHIFT_HELD
      /\ CTRL_HELD' = IF Code(scancode) = 29
                        THEN ~IsRelease(scancode) ELSE CTRL_HELD
      /\ KBUF' = ring.buf /\ KHEAD' = ring.head /\ intended' = ring.intended

(* The keyboard interrupt: decode, then shut down if told to.              *)
KeyboardInterrupt(scancode) ==
  /\ running
  /\ handle_scancode(scancode)
  /\ running' = ~IsShutdown(scancode)
  /\ Wake
  /\ UNCHANGED <<shellVars, build>>

(* Fault: the timer line left masked in the interrupt controller.          *)
TimerInterrupt_Masked == FALSE /\ UNCHANGED vars

(* The timer interrupt, as far as this path is concerned: it ends a hlt.   *)
TimerInterrupt ==
  /\ running
  /\ pc = "hlt"
  /\ Wake
  /\ UNCHANGED <<isrVars, shellVars, build>>
-----------------------------------------------------------------------------
(* poll_char, one memory access at a time.                                 *)
LoadTail ==
  /\ running /\ pc = "tail"
  /\ tail' = KTAIL
  /\ pc' = "head"
  /\ UNCHANGED <<isrVars, KTAIL, byte, polled, shell, build>>

(* Fault: the slot given back before it is read.                           *)
LoadHead_FreesSlot ==
  /\ running /\ pc = "head"
  /\ IF tail = KHEAD
       THEN pc' = "empty" /\ UNCHANGED KTAIL
       ELSE pc' = "read" /\ KTAIL' = (tail + 1) % KBUF_CAP
  /\ UNCHANGED <<isrVars, tail, byte, polled, shell, build>>

LoadHead ==
  /\ running /\ pc = "head"
  /\ pc' = IF tail = KHEAD THEN "empty" ELSE "read"
  /\ UNCHANGED <<isrVars, shellVars, build>>

ReadSlot ==
  /\ running /\ pc = "read"
  /\ byte' = IF build = "memory" THEN KBUF[tail] ELSE Nul
  /\ pc' = "store"
  /\ UNCHANGED <<isrVars, KTAIL, tail, polled, shell, build>>

StoreTail ==
  /\ running /\ pc = "store"
  /\ KTAIL' = (tail + 1) % KBUF_CAP
  /\ polled' = byte
  /\ pc' = "edit"
  /\ UNCHANGED <<isrVars, tail, byte, shell, build>>

(* The body of shell::step's loop for the character polled.                *)
EditLine ==
  /\ running /\ pc = "edit"
  /\ shell' = Edit(shell, polled)
  /\ pc' = "tail"
  /\ UNCHANGED <<isrVars, KTAIL, tail, byte, polled, build>>

(* The ring was empty: the main loop executes hlt, and starts over once an *)
(* interrupt wakes it.                                                     *)
Halt ==
  /\ running /\ pc = "empty"
  /\ pc' = "hlt"
  /\ UNCHANGED <<isrVars, shellVars, build>>

MainLoop == LoadTail \/ LoadHead \/ ReadSlot \/ StoreTail \/ EditLine \/ Halt

Init ==
  /\ CTRL_HELD = FALSE /\ SHIFT_HELD = FALSE
  /\ KBUF = [i \in 0 .. KBUF_CAP - 1 |-> Nul]
  /\ KHEAD = 0 /\ KTAIL = 0
  /\ build \in Builds
  /\ pc = "tail" /\ tail = 0 /\ byte = Nul /\ polled = "none"
  /\ shell = [line |-> <<>>, executed |-> <<>>]
  /\ intended = shell
  /\ running = TRUE

Next ==
  \/ \E scancode \in Scancodes : KeyboardInterrupt(scancode)
  \/ TimerInterrupt
  \/ MainLoop

Spec == Init /\ [][Next]_vars

(* The CPU keeps executing the main loop, and the timer keeps ticking.     *)
FairSpec == Spec /\ WF_vars(MainLoop) /\ WF_vars(TimerInterrupt)
-----------------------------------------------------------------------------
Line == {l \in Seq(Printable) : Len(l) <= LINE_LEN}

Slots == 0 .. KBUF_CAP - 1

(* The indices stay inside KBUF, and LEN inside LINE.                      *)
TypeOK ==
  /\ CTRL_HELD \in BOOLEAN /\ SHIFT_HELD \in BOOLEAN /\ running \in BOOLEAN
  /\ KBUF \in [Slots -> Chars]
  /\ KHEAD \in Slots /\ KTAIL \in Slots /\ tail \in Slots
  /\ build \in Builds
  /\ pc \in {"tail", "head", "read", "store", "edit", "empty", "hlt"}
  /\ byte \in Chars /\ polled \in Chars \cup {"none"}
  /\ shell \in [line : Line, executed : Line]

(* How many characters wait in the ring, and which.                        *)
Waiting == IF KHEAD >= KTAIL THEN KHEAD - KTAIL ELSE KHEAD - KTAIL + KBUF_CAP

Contents == [i \in 1 .. Waiting |-> KBUF[(KTAIL + i - 1) % KBUF_CAP]]

(***************************************************************************)
(* The inductive invariant of the ring: the shell's copy of KTAIL is       *)
(* current, it reads a slot only while a character waits there, and the    *)
(* byte it has read is still the oldest one of the ring.                   *)
(***************************************************************************)
KeyboardInv ==
  /\ KBUF \in [Slots -> Chars]
  /\ KHEAD \in Slots /\ KTAIL \in Slots
  /\ pc \in {"head", "read", "store"} => tail = KTAIL
  /\ pc \in {"read", "store"} => KHEAD # KTAIL
  /\ pc = "store" /\ build = "memory" => byte = KBUF[KTAIL]

(* The shell after one character of q after the other.                     *)
EditAll(s, q) ==
  LET after[i \in 0 .. Len(q)] == IF i = 0 THEN s ELSE Edit(after[i - 1], q[i])
  IN  after[Len(q)]

(* Reading the characters on their way from the ring to the shell brings   *)
(* its line, and the line it executed last, to what immediate processing   *)
(* of every character pushed would have made of them: nothing is lost,     *)
(* doubled or reordered between the interrupt and the shell.               *)
PipelineFaithful ==
  LET inHand == IF pc = "edit" THEN <<polled>> ELSE <<>>
  IN  EditAll(shell, inHand \o Contents) = intended

(* The oldest key press waiting is eventually taken by the shell, also     *)
(* when it comes between the last poll and the hlt of the main loop        *)
(* (unless the machine is switched off first).                             *)
OldestKeyTaken ==
  \A i \in Slots : (KTAIL = i /\ KHEAD # i) ~> (KTAIL # i \/ ~running)

(* The ring implements InputQueue: "SPSC: ISR writes, shell reads"         *)
(* (keyboard.rs:9).                                                        *)
Queue == INSTANCE InputQueue WITH
  Capacity <- KBUF_CAP - 1, queue <- Contents, taken <- polled

ImplementsInputQueue == Queue!AbsSpec
=============================================================================
