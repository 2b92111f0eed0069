------------------------------ MODULE Keyboard ------------------------------
(***************************************************************************)
(* The scancode ring of src/keyboard.rs: a circular buffer that keeps one  *)
(* cell unused to tell full from empty.  The keyboard interrupt pushes,    *)
(* the boot code pops.                                                     *)
(***************************************************************************)
EXTENDS Integers, Sequences

CONSTANT RingSize   \* SCANCODE_BUF_SIZE, 256 in the code

ASSUME RingAssumption == RingSize \in Nat \ {0, 1}

NoByte == "0"   \* what the static buffer is filled with

EmptyRing == [buf |-> [i \in 0 .. (RingSize - 1) |-> NoByte], head |-> 0, tail |-> 0]

\* Mutant: the test for a full ring is one cell too late.
TryPushOverwrites(q, b) ==
  [q EXCEPT !.buf[q.tail] = b, !.tail = (q.tail + 1) % RingSize]

\* ScancodeQueue::try_push: a full ring drops the byte.
TryPush(q, b) ==
  LET next == (q.tail + 1) % RingSize
  IN  IF next = q.head THEN q
      ELSE [q EXCEPT !.buf[q.tail] = b, !.tail = next]

RingIsEmpty(q) == q.head = q.tail

\* Mutant: the head runs off the end of the buffer.
PopRestRunsOff(q) == [q EXCEPT !.head = q.head + 1]

\* ScancodeQueue::try_pop of a ring that is not empty; the byte is only printed.
PopRest(q) == [q EXCEPT !.head = (q.head + 1) % RingSize]

\* The bytes in the ring, oldest first.
RingContents(q) ==
  [i \in 1 .. (q.tail - q.head) % RingSize |-> q.buf[(q.head + i - 1) % RingSize]]

=============================================================================
