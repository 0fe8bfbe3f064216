--------------------------- MODULE ConsoleStream ----------------------------
(***************************************************************************)
(* What the console promises: the line carries the messages one after the  *)
(* other, whole and unchanged, and a read gets characters in the order in  *)
(* which the receiver held them, each once.                                *)
(***************************************************************************)
EXTENDS Integers, SequencesExt

CONSTANTS
  UserMessage,      \* buffers of write, sent as they are
  KernelMessage,    \* messages of the kernel, sent with "\r\n"
  TickMessage(_),   \* the message of the n-th tick
  TickModulus,
  Received          \* characters that may arrive

VARIABLES
  queue,   \* accepted for the line and not yet on it
  line,    \* the last character on the line, and a bit that flips with each
  input,   \* held by the receiver
  got,     \* what the current read has stored
  count    \* ticks so far

vars == <<queue, line, input, got, count>>

Init == queue = <<>> /\ input = <<>> /\ got = <<>> /\ count = 0

(* t is s with a carriage return before each newline and nowhere else.     *)
IsCrLf(t, s) ==
  /\ SelectSeq(t, LAMBDA c : c # "cr") = s
  /\ \A i \in 1 .. Len(t) :
       /\ t[i] = "cr" => i < Len(t) /\ t[i + 1] = "nl"
       /\ t[i] = "nl" => i > 1 /\ t[i - 1] = "cr"

(* A message begins when at most the last character of the one before it   *)
(* has still to leave.                                                     *)
Said == SubSeq(queue', Len(queue) + 1, Len(queue'))
Say ==
  /\ Len(queue) <= 1 /\ queue' # queue
  /\ IsPrefix(queue, queue')
  /\ \/ Said \in UserMessage /\ count' = count
     \/ (\E s \in KernelMessage : IsCrLf(Said, s)) /\ count' = count
     \/ /\ count' = (count + 1) % TickModulus
        /\ IsCrLf(Said, TickMessage(count'))
  /\ UNCHANGED <<line, input, got>>

Leave ==
  /\ queue # <<>>
  /\ line' = <<Head(queue), 1 - line[2]>>
  /\ queue' = Tail(queue)
  /\ UNCHANGED <<input, got, count>>

(* A character that arrives before the last one was read replaces it.      *)
Arrive == \E c \in Received : input' = <<c>> /\ UNCHANGED <<queue, line, got, count>>

BeginRead == got' = <<>> /\ UNCHANGED <<queue, line, input, count>>

Take ==
  /\ input # <<>>
  /\ got' = Append(got, Head(input))
  /\ input' = Tail(input)
  /\ UNCHANGED <<queue, line, count>>

Next == Say \/ Leave \/ Arrive \/ BeginRead \/ Take

Spec == Init /\ [][Next]_vars
=============================================================================
