------------------------------ MODULE Console -------------------------------
(***************************************************************************)
(* The polled console (console.rs), the calls that use it, and the timer   *)
(* (timer.rs and the interrupt branch of trap_handler), whose handler      *)
(* prints.  The UART and the clock run beside the hart.  The kernel runs   *)
(* with interrupts off: while it polls, the timer can only become due.     *)
(*                                                                         *)
(* One unit of time in user mode stands for a stretch of the program.      *)
(***************************************************************************)
EXTENDS Integers, SequencesExt

CONSTANTS
  UserMessage,     \* buffers that programs write
  KernelMessage,   \* messages of the kernel other than those of the timer
  ReadLen,         \* lengths of reads
  Received,        \* characters that may arrive
  Interval,        \* 10_000_000
  Base, Digits     \* print_hex: 16 and 16

TickModulus == Base ^ Digits     \* TICK_COUNT is a usize

ASSUME ConsoleAssumption ==
  /\ Interval \in Nat \ {0} /\ Base \in Nat \ {0, 1} /\ Digits \in Nat \ {0}
  /\ ReadLen \subseteq Nat

VARIABLES
  mode,    \* "user", or what the kernel does: "put" or "get"
  todo,    \* characters the current call has still to put
  ticking, \* the current call is the handler of the timer interrupt
  want,    \* characters the current read has still to get
  got,     \* those it has stored
  thr,     \* the UART's transmitter holding register
  line,    \* the last character it sent, and a bit that flips with each
  rbr,     \* its receiver buffer register
  dr,      \* bit 0 of its line status register: rbr holds a new character
  due,     \* time left until the timer interrupt; 0: it is pending
  TICK_COUNT

kernelVars == <<mode, todo, ticking, want, got, TICK_COUNT>>
vars == <<kernelVars, thr, line, rbr, dr, due>>

NoChar == "none"
Digit(n) == <<"0", "1", "2", "3", "4", "5", "6", "7", "8", "9", "a", "b", "c",
              "d", "e", "f">>[n + 1]

Init ==
  /\ mode = "user" /\ todo = <<>> /\ ticking = FALSE
  /\ want = 0 /\ got = <<>>
  /\ thr = NoChar /\ line = <<NoChar, 0>>
  /\ rbr = NoChar /\ dr = FALSE
  /\ due = Interval
  /\ TICK_COUNT = 0

-----------------------------------------------------------------------------
(* The device and the clock.                                               *)

Transmit ==
  /\ thr # NoChar
  /\ line' = <<thr, 1 - line[2]>>
  /\ thr' = NoChar
  /\ UNCHANGED <<kernelVars, rbr, dr, due>>

Receive(c) ==
  /\ rbr' = c /\ dr' = TRUE
  /\ UNCHANGED <<kernelVars, thr, line, due>>

TimePasses ==
  /\ due > 0
  /\ due' = due - 1
  /\ UNCHANGED <<kernelVars, thr, line, rbr, dr>>

-----------------------------------------------------------------------------
(* console.rs.                                                             *)

PutStr(s) ==   \* the characters putstr puts
  FoldLeft(LAMBDA a, c : IF c = "nl" THEN a \o <<"cr", c>> ELSE Append(a, c),
           <<>>, s)

(* print_hex: the top digit, then shift.                                   *)
PrintHex(val) ==
  FoldLeft(LAMBDA a, i : [val |-> (a.val * Base) % TickModulus,
                          out |-> Append(a.out, Digit(a.val \div Base ^ (Digits - 1)))],
           [val |-> val, out |-> <<>>], [i \in 1 .. Digits |-> i]).out

(* Mutant: the character is written without waiting for the register.      *)
PutCharNoWait ==
  /\ mode = "put" /\ todo # <<>>
  /\ thr' = Head(todo)
  /\ todo' = Tail(todo)
  /\ UNCHANGED <<mode, ticking, want, got, TICK_COUNT, line, rbr, dr, due>>

(* putchar's loop has seen bit 5 of the line status register.              *)
PutChar ==
  /\ mode = "put" /\ todo # <<>>
  /\ thr = NoChar
  /\ thr' = Head(todo)
  /\ todo' = Tail(todo)
  /\ UNCHANGED <<mode, ticking, want, got, TICK_COUNT, line, rbr, dr, due>>

(* read_char's loop has seen bit 0; the read of the register clears it.    *)
ReadChar ==
  /\ mode = "get" /\ want > 0
  /\ dr
  /\ got' = Append(got, rbr)
  /\ want' = want - 1
  /\ dr' = FALSE
  /\ UNCHANGED <<mode, todo, ticking, TICK_COUNT, thr, line, rbr, due>>

-----------------------------------------------------------------------------
(* Entries to the kernel.  A pending interrupt is taken before the program *)
(* can do anything.                                                        *)

InUser == mode = "user" /\ due > 0

Puts(s) == mode' = "put" /\ todo' = s /\ UNCHANGED <<want, got, thr, line, rbr, dr>>

SysWrite(s) ==
  /\ InUser
  /\ Puts(s)
  /\ UNCHANGED <<ticking, TICK_COUNT, due>>

KernelPrints(s) ==   \* the message of do_segfault, of a fatal trap or a panic
  /\ InUser
  /\ Puts(PutStr(s))
  /\ UNCHANGED <<ticking, TICK_COUNT, due>>

SysRead(n) ==
  /\ InUser
  /\ mode' = "get" /\ want' = n /\ got' = <<>>
  /\ UNCHANGED <<todo, ticking, TICK_COUNT, thr, line, rbr, dr, due>>

TickText(n) == PutStr(<<"tick">>) \o PrintHex(n) \o PutStr(<<"nl">>)

(* Mutant: the timer is set before the message is printed.                 *)
TimerInterruptArms ==
  /\ mode = "user" /\ due = 0
  /\ TICK_COUNT' = (TICK_COUNT + 1) % TickModulus
  /\ Puts(TickText(TICK_COUNT'))
  /\ due' = Interval
  /\ UNCHANGED ticking

TimerInterrupt ==
  /\ mode = "user" /\ due = 0
  /\ TICK_COUNT' = (TICK_COUNT + 1) % TickModulus
  /\ Puts(TickText(TICK_COUNT'))
  /\ ticking' = TRUE
  /\ UNCHANGED due

(* The call is over.  The timer's handler reads the clock and sets the     *)
(* timer at its end.                                                       *)
Return ==
  /\ \/ mode = "put" /\ todo = <<>>
     \/ mode = "get" /\ want = 0
  /\ mode' = "user" /\ ticking' = FALSE
  /\ due' = IF ticking THEN Interval ELSE due
  /\ UNCHANGED <<todo, want, got, TICK_COUNT, thr, line, rbr, dr>>

Handler == PutChar \/ ReadChar \/ TimerInterrupt \/ Return

Next ==
  \/ Handler
  \/ \E s \in UserMessage : SysWrite(s)
  \/ \E s \in KernelMessage : KernelPrints(s)
  \/ \E n \in ReadLen : SysRead(n)
  \/ Transmit \/ TimePasses
  \/ \E c \in Received : Receive(c)

(* The hart goes on executing the kernel's instructions, the UART sends    *)
(* what it holds, the clock runs, and somebody types.                      *)
Fairness ==
  /\ WF_vars(Handler) /\ WF_vars(Transmit) /\ WF_vars(TimePasses)
  /\ WF_vars(~dr /\ \E c \in Received : Receive(c))

Spec == Init /\ [][Next]_vars
FairSpec == Spec /\ Fairness

-----------------------------------------------------------------------------
(* The line carries every message whole, in order and unmixed, kernel      *)
(* messages with "\r\n", the bytes of write as they are and the right      *)
(* number for each tick, and read stores what was received: the polling    *)
(* loops implement ConsoleStream.                                          *)
Numeral(n) == [i \in 1 .. Digits |-> Digit((n \div Base ^ (Digits - i)) % Base)]
Stream == INSTANCE ConsoleStream
  WITH queue <- (IF thr = NoChar THEN <<>> ELSE <<thr>>) \o todo,
       input <- IF dr THEN <<rbr>> ELSE <<>>,
       count <- TICK_COUNT,
       TickMessage <- LAMBDA n : <<"tick">> \o Numeral(n) \o <<"nl">>
StreamSpec == Stream!Spec

(* The program gets to run again and again: every write and every message  *)
(* of the kernel comes to an end, every read does if characters keep       *)
(* coming, and however long a tick's message takes, the next tick is       *)
(* counted from the end of the handler, not from the tick before.          *)
ProgramRuns == []<>InUser
=============================================================================
