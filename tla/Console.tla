------------------------------- MODULE Console -------------------------------
(***************************************************************************)
(* Console input (input.rs, keyboard.rs, serial.rs): bytes of the serial   *)
(* port and scancodes of the keyboard on their way to the one reader.      *)
(*                                                                         *)
(* Interrupt handlers put bytes into two rings; read_char empties them,    *)
(* and also moves serial bytes itself (drain_receiver), which makes a      *)
(* second producer for a ring that was built for one.  The reader runs one *)
(* step at a time, because handlers interrupt it wherever its interrupt    *)
(* flag is set; a handler is one step.  A byte is named by its position in *)
(* what is sent, a scancode likewise.                                      *)
(***************************************************************************)
EXTENDS Naturals, FiniteSets, SequencesExt

CONSTANTS
  SERIAL_CAP,  \* slots of SBUF (256); one stays empty
  RAW_CAP,     \* slots of RAW_BUF (512)
  UartFifo,    \* bytes the receiver of the UART holds (16)
  LastByte,    \* bound: serial bytes sent
  LastScan,    \* bound: scancodes of the keyboard
  Unprintable, \* serial bytes poll_serial_char drops
  Partial      \* scancodes that complete no character: prefixes, releases

ASSUME ConsoleConstants ==
  /\ SERIAL_CAP \in Nat \ {0, 1} /\ RAW_CAP \in Nat \ {0, 1}
  /\ UartFifo \in Nat \ {0}
  /\ LastByte \in Nat /\ LastScan \in Nat
  /\ Unprintable \subseteq 1 .. LastByte /\ Partial \subseteq 1 .. LastScan

VARIABLES
  \* the UART and its interrupt (external)
  wired,  \* IRQ4 reaches the CPU: through the PIC, not after apic::init
  sent,   \* serial bytes that have arrived
  fifo,   \* the receiver FIFO
  irq4,   \* the interrupt request, latched by its edge
  scans,  \* scancodes that have arrived
  \* input.rs: SBUF, SW, SR; keyboard.rs: RAW_BUF, RAW_W, RAW_R
  sbuf, sw, sr,
  rbuf, rw, rr,
  \* the reader
  pc,     \* where it is in read_char, or "user"
  intr,   \* its interrupt flag
  hand,   \* drain_receiver's b, w; 0 when it holds no byte
  slot,
  \* history
  got,    \* serial bytes returned by read_char
  keys,   \* scancodes whose character read_char returned
  lost,   \* serial bytes that found the ring or the FIFO full
  klost,  \* scancodes that found their ring full
  raced   \* serial_irq has run while drain_receiver was moving a byte

uartVars == <<wired, sent, fifo, irq4>>
serialRing == <<sbuf, sw, sr>>
rawRing == <<rbuf, rw, rr>>
readerVars == <<pc, intr, hand, slot>>
history == <<got, keys, lost, klost, raced>>
vars == <<uartVars, scans, serialRing, rawRing, readerVars, history>>

Slots(cap) == 0 .. cap - 1
\* The next slot, with the wrap one slot late.
AfterLate(i, cap) == (i + 1) % (cap + 1)
After(i, cap) == (i + 1) % cap

\* What a ring holds, oldest first.
Held(buf, w, r, cap) ==
  [k \in 1 .. (w + cap - r) % cap |-> buf[(r + k - 1) % cap]]
Serial == Held(sbuf, sw, sr, SERIAL_CAP)
Raw == Held(rbuf, rw, rr, RAW_CAP)

Init ==
  /\ wired \in BOOLEAN
  /\ sent = 0 /\ fifo = << >> /\ irq4 = FALSE /\ scans = 0
  /\ sbuf = [i \in Slots(SERIAL_CAP) |-> 0] /\ sw = 0 /\ sr = 0
  /\ rbuf = [i \in Slots(RAW_CAP) |-> 0] /\ rw = 0 /\ rr = 0
  /\ pc = "user" /\ intr = TRUE /\ hand = 0 /\ slot = 0
  /\ got = << >> /\ keys = << >> /\ lost = {} /\ klost = {} /\ raced = FALSE

-----------------------------------------------------------------------------
(* The UART and the interrupt handlers *)

\* A byte arrives.  The request is raised when the FIFO stops being empty.
Arrive ==
  /\ sent < LastByte
  /\ sent' = sent + 1
  /\ IF Len(fifo) < UartFifo
       THEN /\ fifo' = Append(fifo, sent + 1)
            /\ irq4' = (irq4 \/ (wired /\ fifo = << >>))
            /\ UNCHANGED lost
       ELSE /\ lost' = lost \cup {sent + 1}
            /\ UNCHANGED <<fifo, irq4>>
  /\ UNCHANGED <<wired, scans, serialRing, rawRing, readerVars,
                 got, keys, klost, raced>>

\* A wake-up that is taken as the end of the wait, as a loop-less read would.
Asleep == pc

\* Every interrupt ends a hlt; read_char then starts its loop again.
Awake == IF pc = "halted" THEN "poll" ELSE pc

\* The room computed as if no slot had to stay empty.
RoomAll == (sr + SERIAL_CAP - sw) % SERIAL_CAP

Room == (sr + SERIAL_CAP - sw - 1) % SERIAL_CAP

\* serial_irq empties the FIFO into the ring.  When the ring is full the byte
\* it has just read is gone and the handler returns, leaving the rest.
SerialIrq ==
  /\ irq4 /\ intr
  /\ irq4' = FALSE
  /\ LET n == IF Len(fifo) <= Room THEN Len(fifo) ELSE Room
         left == IF n < Len(fifo) THEN n + 2 ELSE n + 1 IN
     /\ sbuf' = [i \in Slots(SERIAL_CAP) |->
                   LET k == (i + SERIAL_CAP - sw) % SERIAL_CAP IN
                   IF k < n THEN fifo[k + 1] ELSE sbuf[i]]
     /\ sw' = (sw + n) % SERIAL_CAP
     /\ lost' = lost \cup {fifo[k] : k \in n + 1 .. left - 1}
     /\ fifo' = SubSeq(fifo, left, Len(fifo))
  /\ raced' = (raced \/ (pc \in {"hand", "store", "publish"} /\ fifo # << >>))
  /\ pc' = Awake
  /\ UNCHANGED <<wired, sent, scans, sr, rawRing, intr, hand, slot,
                 got, keys, klost>>

\* push_byte that does not look for the reader.
KeyboardIrqBlind ==
  /\ scans < LastScan /\ intr
  /\ scans' = scans + 1
  /\ rbuf' = [rbuf EXCEPT ![rw] = scans + 1]
  /\ rw' = After(rw, RAW_CAP)
  /\ pc' = Awake
  /\ UNCHANGED <<uartVars, serialRing, rr, intr, hand, slot, history>>

\* keyboard_interrupt_handler with push_byte: a scancode that finds the ring
\* full is dropped.
KeyboardIrq ==
  /\ scans < LastScan /\ intr
  /\ scans' = scans + 1
  /\ IF After(rw, RAW_CAP) = rr
       THEN klost' = klost \cup {scans + 1} /\ UNCHANGED <<rbuf, rw>>
       ELSE /\ rbuf' = [rbuf EXCEPT ![rw] = scans + 1]
            /\ rw' = After(rw, RAW_CAP)
            /\ UNCHANGED klost
  /\ pc' = Awake
  /\ UNCHANGED <<uartVars, serialRing, rr, intr, hand, slot,
                 got, keys, lost, raced>>

\* The 1 kHz tick; all it does for the console is to end a hlt.
Timer ==
  /\ pc = "halted"
  /\ pc' = Awake
  /\ UNCHANGED <<uartVars, scans, serialRing, rawRing, intr, hand, slot, history>>

-----------------------------------------------------------------------------
(* read_char *)

Goto(from, to) == pc = from /\ pc' = to

\* The read system call enters with interrupts off (SFMASK).
Read ==
  /\ Goto("user", "poll")
  /\ intr' = FALSE
  /\ UNCHANGED <<uartVars, scans, serialRing, rawRing, hand, slot, history>>

\* A pop that looks at the slot after the oldest.
PollSerialNext(from, none) ==
  /\ pc = from
  /\ IF sr = sw
       THEN pc' = none /\ UNCHANGED <<sr, got>>
       ELSE /\ sr' = After(sr, SERIAL_CAP)
            /\ pc' = "done"
            /\ got' = Append(got, sbuf[After(sr, SERIAL_CAP)])
  /\ UNCHANGED <<uartVars, scans, sbuf, sw, rawRing, intr, hand, slot,
                 keys, lost, klost, raced>>

\* poll_serial_char at the start of the loop ("poll") and after the drain
\* ("again"): one byte leaves the ring; one that is not ASCII text yields None.
PollSerial(from, none) ==
  /\ pc = from
  /\ IF sr = sw
       THEN pc' = none /\ UNCHANGED <<sr, got>>
       ELSE /\ sr' = After(sr, SERIAL_CAP)
            /\ IF sbuf[sr] \in Unprintable
                 THEN pc' = none /\ UNCHANGED got
                 ELSE pc' = "done" /\ got' = Append(got, sbuf[sr])
  /\ UNCHANGED <<uartVars, scans, sbuf, sw, rawRing, intr, hand, slot,
                 keys, lost, klost, raced>>

\* try_read_byte, with interrupts off for as long as it takes.
DrainRead ==
  /\ pc = "drain"
  /\ IF fifo = << >>
       THEN pc' = "again" /\ UNCHANGED <<fifo, hand>>
       ELSE pc' = "hand" /\ hand' = Head(fifo) /\ fifo' = Tail(fifo)
  /\ UNCHANGED <<wired, sent, irq4, scans, serialRing, rawRing, intr, slot, history>>

\* The loads of SW and SR; a full ring drops the byte and ends the drain.
DrainCheck ==
  /\ pc = "hand"
  /\ IF After(sw, SERIAL_CAP) = sr
       THEN pc' = "again" /\ lost' = lost \cup {hand} /\ hand' = 0 /\ UNCHANGED slot
       ELSE pc' = "store" /\ slot' = sw /\ UNCHANGED <<lost, hand>>
  /\ UNCHANGED <<uartVars, scans, serialRing, rawRing, intr, got, keys, klost, raced>>

\* The stores to SBUF[w] and to SW.
DrainStore ==
  /\ Goto("store", "publish")
  /\ sbuf' = [sbuf EXCEPT ![slot] = hand]
  /\ UNCHANGED <<uartVars, scans, sw, sr, rawRing, intr, hand, slot, history>>

DrainPublish ==
  /\ Goto("publish", "drain")
  /\ sw' = After(slot, SERIAL_CAP)
  /\ hand' = 0 /\ slot' = 0
  /\ UNCHANGED <<uartVars, scans, sbuf, sr, rawRing, intr, history>>

\* decode_one takes one scancode; one that completes no character yields None,
\* and the reader goes to sleep even if more are waiting.
PollKeyboard ==
  /\ pc = "keys"
  /\ IF rr = rw
       THEN pc' = "halt" /\ UNCHANGED <<rr, keys>>
       ELSE /\ rr' = After(rr, RAW_CAP)
            /\ IF rbuf[rr] \in Partial
                 THEN pc' = "halt" /\ UNCHANGED keys
                 ELSE pc' = "done" /\ keys' = Append(keys, rbuf[rr])
  /\ UNCHANGED <<uartVars, scans, serialRing, rbuf, rw, intr, hand, slot,
                 got, lost, klost, raced>>

\* enable_and_hlt
Halt ==
  /\ Goto("halt", "halted")
  /\ intr' = TRUE
  /\ UNCHANGED <<uartVars, scans, serialRing, rawRing, hand, slot, history>>

\* The character goes to the user program, which restores its own flag, ...
Return ==
  /\ Goto("done", "user")
  /\ intr' = TRUE
  /\ UNCHANGED <<uartVars, scans, serialRing, rawRing, hand, slot, history>>

\* ... or to terminal::read_line, which reads the next one with the flag as it is.
ReadLine ==
  /\ Goto("done", "poll")
  /\ UNCHANGED <<uartVars, scans, serialRing, rawRing, intr, hand, slot, history>>

Reader ==
  \/ Read \/ PollSerial("poll", "drain") \/ PollSerial("again", "keys")
  \/ DrainRead \/ DrainCheck \/ DrainStore \/ DrainPublish
  \/ PollKeyboard \/ Halt \/ Return \/ ReadLine

Next == Arrive \/ SerialIrq \/ KeyboardIrq \/ Timer \/ Reader

\* The shell reads for ever and its task gets the CPU (Scheduler); the local
\* APIC ticks.  Nothing makes bytes arrive.
Spec == Init /\ [][Next]_vars
FairSpec == Spec /\ WF_vars(Reader) /\ WF_vars(Timer) /\ SF_vars(SerialIrq)

-----------------------------------------------------------------------------
(* Properties *)

\* Indices stay in their rings, histories hold what was sent, and the reader's
\* flag is off only before its first hlt since the system call.
TypeOK ==
  /\ wired \in BOOLEAN /\ irq4 \in BOOLEAN /\ intr \in BOOLEAN /\ raced \in BOOLEAN
  /\ sent \in 0 .. LastByte /\ scans \in 0 .. LastScan
  /\ fifo \in Seq(1 .. sent) /\ Len(fifo) <= UartFifo
  /\ sbuf \in [Slots(SERIAL_CAP) -> 0 .. sent]
  /\ rbuf \in [Slots(RAW_CAP) -> 0 .. scans]
  /\ {sw, sr, slot} \subseteq Slots(SERIAL_CAP) /\ {rw, rr} \subseteq Slots(RAW_CAP)
  /\ pc \in {"user", "poll", "drain", "hand", "store", "publish", "again",
             "keys", "halt", "halted", "done"}
  /\ hand \in 0 .. sent /\ (hand # 0 <=> pc \in {"hand", "store", "publish"})
  /\ (pc \in {"user", "halted"} => intr)
  /\ ToSet(got) \subseteq 1 .. sent /\ lost \subseteq 1 .. sent
  /\ ToSet(keys) \subseteq 1 .. scans /\ klost \subseteq 1 .. scans

Increasing(s) == \A i, j \in DOMAIN s : i < j => s[i] < s[j]

InHand == IF pc \in {"hand", "store", "publish"} THEN <<hand>> ELSE << >>

\* Serial bytes reach the reader in the order they were sent, each once, and
\* only a full ring or a full FIFO loses one, unless serial_irq has run between
\* the steps in which drain_receiver moves a byte.  Even then no byte is
\* delivered twice.
SerialFaithful ==
  /\ ~raced => /\ Increasing(got \o Serial \o InHand \o fifo)
               /\ 1 .. sent \subseteq
                    ToSet(got \o Serial \o InHand \o fifo) \cup lost \cup Unprintable
  /\ \A i, j \in DOMAIN got : got[i] = got[j] => i = j
  /\ ToSet(got) \cap lost = {}

\* Keys reach the reader in the order they were struck, each once, although the
\* ring is shared with the handler; only a full ring loses one.
KeysFaithful ==
  /\ Increasing(keys \o Raw)
  /\ 1 .. scans \subseteq ToSet(keys \o Raw) \cup klost \cup Partial

\* A byte that has arrived is delivered or lost, also when its interrupt never
\* comes (the APIC leaves IRQ4 unrouted) or came just before the hlt: the drain
\* and the tick are enough.  The same for keys behind an incomplete sequence.
EveryByteSettles ==
  /\ \A b \in 1 .. LastByte \ Unprintable :
       sent >= b ~> (b \in ToSet(got) \cup lost \/ raced)
  /\ \A k \in 1 .. LastScan \ Partial :
       scans >= k ~> k \in ToSet(keys) \cup klost
=============================================================================
