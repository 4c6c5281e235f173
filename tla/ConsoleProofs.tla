----------------------------- MODULE ConsoleProofs -----------------------------
(***************************************************************************)
(* Theorems about Console for rings of every size, any FIFO and any number *)
(* of bytes and keys: the state has its types - no index leaves its ring,  *)
(* no slot that was never written is read -, keys are delivered in order,  *)
(* each once, and serial bytes reach the reader in order and without a gap *)
(* while the handler does not run between the steps of drain_receiver, and *)
(* never twice whatever it does.                                           *)
(***************************************************************************)
EXTENDS Console, SequenceTheorems, TLAPS

-----------------------------------------------------------------------------
(* Rings *)

\* Reducing an index that is less than one lap ahead.
LEMMA ModSmall ==
  ASSUME NEW cap \in Nat \ {0}, NEW x \in Nat, x < 2 * cap
  PROVE  x % cap = IF x < cap THEN x ELSE x - cap
<1>1. CASE x < cap
  BY <1>1
<1>2. CASE x >= cap
  <2>1. x = 1 * cap + (x - cap) /\ x - cap \in 0 .. cap - 1
    BY <1>2
  <2> QED BY <1>2, <2>1
<1> QED BY <1>1, <1>2

\* The next slot.
LEMMA AfterIs ==
  ASSUME NEW cap \in Nat \ {0, 1}, NEW i \in Slots(cap)
  PROVE  /\ After(i, cap) \in Slots(cap)
         /\ After(i, cap) = IF i + 1 < cap THEN i + 1 ELSE 0
<1>1. i \in Nat /\ i < cap
  BY DEF Slots
<1>2. (i + 1) % cap = IF i + 1 < cap THEN i + 1 ELSE i + 1 - cap
  BY <1>1, ModSmall
<1> QED BY <1>1, <1>2 DEF After, Slots

\* How many slots b is ahead of a.
Ahead(a, b, cap) == (b + cap - a) % cap

LEMMA AheadIs ==
  ASSUME NEW cap \in Nat \ {0, 1}, NEW a \in Slots(cap), NEW b \in Slots(cap)
  PROVE  /\ Ahead(a, b, cap) \in Slots(cap)
         /\ Ahead(a, b, cap) = IF b >= a THEN b - a ELSE b + cap - a
<1>1. a \in Nat /\ a < cap /\ b \in Nat /\ b < cap
  BY DEF Slots
<1> DEFINE x == b + cap - a
<1>2. x \in Nat /\ x < 2 * cap
  BY <1>1
<1>3. x = b + cap - a /\ Ahead(a, b, cap) = x % cap
  BY DEF Ahead
<1> HIDE DEF x
<1>4. x % cap = IF x < cap THEN x ELSE x - cap
  BY <1>2, ModSmall
<1> QED BY <1>1, <1>3, <1>4 DEF Slots

\* The slot of the k-th element of a ring that is read at r.
Place(r, k, cap) == IF r + k - 1 < cap THEN r + k - 1 ELSE r + k - 1 - cap

\* The k-th element that a ring holds.
LEMMA HeldAt ==
  ASSUME NEW cap \in Nat \ {0, 1}, NEW buf, NEW w \in Slots(cap),
         NEW r \in Slots(cap), NEW k \in 1 .. Ahead(r, w, cap)
  PROVE  /\ Place(r, k, cap) \in Slots(cap)
         /\ Held(buf, w, r, cap)[k] = buf[Place(r, k, cap)]
<1> DEFINE x == r + k - 1
<1>1. r \in Nat /\ r < cap /\ Ahead(r, w, cap) \in Nat /\ Ahead(r, w, cap) < cap
  BY AheadIs DEF Slots
<1>2. x \in Nat /\ x < 2 * cap /\ Place(r, k, cap) = IF x < cap THEN x ELSE x - cap
  BY <1>1 DEF Place
<1>3. Held(buf, w, r, cap)[k] = buf[x % cap]
  BY DEF Held, Ahead
<1> HIDE DEF x
<1>4. x % cap = Place(r, k, cap)
  BY <1>2, ModSmall
<1>5. Place(r, k, cap) \in Slots(cap)
  BY <1>2 DEF Slots
<1> QED BY <1>3, <1>4, <1>5

\* A ring of cap slots, each with an element of S.
Buffer(buf, cap, S) == buf \in [Slots(cap) -> S]

\* It is a sequence with one element for each slot between the two indices.
LEMMA HeldIs ==
  ASSUME NEW S, NEW cap \in Nat \ {0, 1}, NEW buf, Buffer(buf, cap, S),
         NEW w \in Slots(cap), NEW r \in Slots(cap)
  PROVE  /\ Held(buf, w, r, cap) \in Seq(S)
         /\ Len(Held(buf, w, r, cap)) = Ahead(r, w, cap)
<1> DEFINE n == Ahead(r, w, cap)
<1>1. n \in Nat
  BY AheadIs DEF Slots
<1>2. Held(buf, w, r, cap) = [k \in 1 .. n |-> Held(buf, w, r, cap)[k]]
  BY DEF Held, Ahead
<1>3. \A k \in 1 .. n : Held(buf, w, r, cap)[k] \in S
  BY HeldAt DEF Buffer
<1> HIDE DEF n
<1>4. Held(buf, w, r, cap) \in [1 .. n -> S]
  BY <1>2, <1>3
<1>5. Held(buf, w, r, cap) \in Seq(S) /\ Len(Held(buf, w, r, cap)) = n
  BY <1>1, <1>4
<1> QED BY <1>5 DEF n

\* Moving r on takes the oldest element away.
LEMMA PopRing ==
  ASSUME NEW S, NEW cap \in Nat \ {0, 1}, NEW buf \in [Slots(cap) -> S],
         NEW w \in Slots(cap), NEW r \in Slots(cap), r # w
  PROVE  /\ Held(buf, w, r, cap) # << >>
         /\ Head(Held(buf, w, r, cap)) = buf[r]
         /\ Held(buf, w, After(r, cap), cap) = Tail(Held(buf, w, r, cap))
<1> DEFINE n == Ahead(r, w, cap)
           s == After(r, cap)
           old == Held(buf, w, r, cap)
           cut == Held(buf, w, s, cap)
<1>0. Buffer(buf, cap, S)
  BY DEF Buffer
<1>1. /\ r \in Nat /\ r < cap /\ w \in Nat /\ w < cap /\ s \in Slots(cap)
      /\ n = IF w >= r THEN w - r ELSE w + cap - r
      /\ s = IF r + 1 < cap THEN r + 1 ELSE 0
  <2>1. r \in Nat /\ r < cap /\ w \in Nat /\ w < cap
    BY DEF Slots
  <2>2. n = IF w >= r THEN w - r ELSE w + cap - r
    BY AheadIs
  <2>3. s \in Slots(cap) /\ s = IF r + 1 < cap THEN r + 1 ELSE 0
    BY AfterIs
  <2> QED BY <2>1, <2>2, <2>3
<1>2. /\ old \in Seq(S) /\ Len(old) = n
      /\ \A k \in 1 .. n : old[k] = buf[Place(r, k, cap)]
  <2>1. old \in Seq(S) /\ Len(old) = n
    BY <1>0, HeldIs
  <2>2. \A k \in 1 .. n : old[k] = buf[Place(r, k, cap)]
    BY HeldAt
  <2> QED BY <2>1, <2>2
<1>3. /\ cut \in Seq(S) /\ Len(cut) = Ahead(s, w, cap)
      /\ \A k \in 1 .. Ahead(s, w, cap) : cut[k] = buf[Place(s, k, cap)]
  <2>1. s \in Slots(cap)
    BY <1>1
  <2> HIDE DEF s, n, old
  <2>2. Held(buf, w, s, cap) \in Seq(S) /\ Len(Held(buf, w, s, cap)) = Ahead(s, w, cap)
    BY ONLY <1>0, <2>1, HeldIs, w \in Slots(cap), cap \in Nat \ {0, 1}
  <2>3. \A k \in 1 .. Ahead(s, w, cap) : Held(buf, w, s, cap)[k] = buf[Place(s, k, cap)]
    BY ONLY <2>1, HeldAt, w \in Slots(cap), cap \in Nat \ {0, 1}
  <2> QED BY <2>2, <2>3
<1>4. n \in Nat \ {0}
  BY <1>1
<1>5. Ahead(s, w, cap) = n - 1
  <2>1. Ahead(s, w, cap) = IF w >= s THEN w - s ELSE w + cap - s
    BY <1>1, AheadIs
  <2> HIDE DEF n, s
  <2> QED BY <1>1, <2>1
<1>6. Place(r, 1, cap) = r /\ \A k \in 1 .. n - 1 : Place(s, k, cap) = Place(r, k + 1, cap)
  <2> HIDE DEF n, s
  <2> QED BY <1>1 DEF Place
<1> HIDE DEF n, s, old, cut
<1>7. old # << >> /\ Head(old) = buf[r]
  BY <1>2, <1>4, <1>6
<1>8. /\ Tail(old) \in Seq(S) /\ Len(Tail(old)) = n - 1
      /\ \A k \in 1 .. n - 1 : Tail(old)[k] = old[k + 1]
  BY <1>2, <1>4
<1>9. ASSUME NEW k \in 1 .. n - 1 PROVE cut[k] = Tail(old)[k]
  <2>1. k + 1 \in 1 .. n /\ k \in 1 .. Ahead(s, w, cap)
    BY <1>4, <1>5
  <2> QED BY <1>2, <1>3, <1>6, <1>8, <2>1
<1>10. cut = Tail(old)
  BY <1>3, <1>4, <1>5, <1>8, <1>9
<1> QED BY <1>7, <1>10 DEF cut, old, s

-----------------------------------------------------------------------------
(* Sequences *)

\* A new greatest element at the end of the second of two sequences.
LEMMA PutNext ==
  ASSUME NEW n \in Nat, NEW a \in Seq(1 .. n), NEW b \in Seq(1 .. n), Increasing(a \o b)
  PROVE  /\ Increasing(a \o Append(b, n + 1))
         /\ ToSet(a \o Append(b, n + 1)) = ToSet(a \o b) \cup {n + 1}
<1> DEFINE s == a \o b
           t == a \o Append(b, n + 1)
           m == Len(s)
<1>1. s \in Seq(1 .. n) /\ m = Len(a) + Len(b) /\ m \in Nat
  BY ConcatProperties, LenProperties
<1>2. a \in Seq(1 .. n + 1) /\ b \in Seq(1 .. n + 1)
  BY SeqMonotonic
<1>3. Append(b, n + 1) \in Seq(1 .. n + 1) /\ Len(Append(b, n + 1)) = Len(b) + 1
  BY <1>2
<1>4. t \in Seq(1 .. n + 1) /\ Len(t) = m + 1
  BY <1>1, <1>2, <1>3, ConcatProperties, LenProperties
<1>5. ASSUME NEW k \in 1 .. m PROVE t[k] = s[k] /\ s[k] \in 1 .. n
  BY <1>1
<1>6. t[m + 1] = n + 1
  BY <1>1
<1>7. DOMAIN s = 1 .. m /\ DOMAIN t = 1 .. m + 1
  BY <1>1, <1>4, LenProperties
<1>8. \A i, j \in 1 .. m : i < j => s[i] < s[j]
  BY <1>7 DEF Increasing
<1> HIDE DEF s, t, m
<1>9. ASSUME NEW i \in 1 .. m + 1, NEW j \in 1 .. m + 1, i < j PROVE t[i] < t[j]
  <2>1. i \in 1 .. m /\ t[i] = s[i] /\ s[i] \in 1 .. n
    BY <1>1, <1>5, <1>9
  <2>2. CASE j = m + 1
    BY <1>6, <2>1, <2>2
  <2>3. CASE j \in 1 .. m
    BY <1>5, <1>8, <1>9, <2>1, <2>3
  <2> QED BY <1>1, <2>2, <2>3
<1>10. {t[k] : k \in 1 .. m + 1} = {s[k] : k \in 1 .. m} \cup {n + 1}
  <2>1. 1 .. m + 1 = (1 .. m) \cup {m + 1}
    BY <1>1
  <2>2. \A k \in 1 .. m : t[k] = s[k]
    BY <1>5
  <2> HIDE DEF m
  <2> QED BY <1>6, <2>1, <2>2
<1>11. Increasing(t) /\ ToSet(t) = ToSet(s) \cup {n + 1}
  BY <1>7, <1>9, <1>10 DEF Increasing, ToSet
<1> QED BY <1>11 DEF s, t

\* The head of the second goes to the end of the first.
LEMMA HandOver ==
  ASSUME NEW S, NEW a \in Seq(S), NEW b \in Seq(S), b # << >>
  PROVE  Append(a, Head(b)) \o Tail(b) = a \o b
<1> DEFINE s == Append(a, Head(b)) \o Tail(b)
           t == a \o b
<1>1. Head(b) \in S /\ Tail(b) \in Seq(S) /\ Len(b) \in Nat \ {0} /\ Len(Tail(b)) = Len(b) - 1
  BY HeadTailProperties, LenProperties, EmptySeq
<1>2. Append(a, Head(b)) \in Seq(S) /\ Len(Append(a, Head(b))) = Len(a) + 1 /\ Len(a) \in Nat
  BY <1>1
<1>3. s \in Seq(S) /\ t \in Seq(S) /\ Len(s) = Len(a) + Len(b) /\ Len(t) = Len(a) + Len(b)
  BY <1>1, <1>2, ConcatProperties
<1>4. ASSUME NEW k \in 1 .. Len(a) + Len(b) PROVE s[k] = t[k]
  BY <1>1, <1>2
<1> HIDE DEF s, t
<1>5. s = t
  BY <1>3, <1>4, SeqEqual
<1> QED BY <1>5 DEF s, t

\* The head of the second goes away.
LEMMA LeaveOut ==
  ASSUME NEW a \in Seq(Nat), NEW b \in Seq(Nat), b # << >>, Increasing(a \o b)
  PROVE  /\ Increasing(a \o Tail(b))
         /\ ToSet(a \o b) \subseteq ToSet(a \o Tail(b)) \cup {Head(b)}
<1> DEFINE s == a \o b
           t == a \o Tail(b)
           p == Len(a)
           m == Len(a) + Len(b)
<1>1. Tail(b) \in Seq(Nat) /\ Len(b) \in Nat \ {0} /\ Len(Tail(b)) = Len(b) - 1 /\ p \in Nat
  BY HeadTailProperties, LenProperties, EmptySeq
<1>2. s \in Seq(Nat) /\ t \in Seq(Nat) /\ Len(s) = m /\ Len(t) = m - 1 /\ m \in Nat
  BY <1>1, ConcatProperties
<1>3. DOMAIN s = 1 .. m /\ DOMAIN t = 1 .. m - 1
  BY <1>2, LenProperties
<1> DEFINE at(k) == IF k <= p THEN k ELSE k + 1
<1>4. ASSUME NEW k \in 1 .. m - 1 PROVE t[k] = s[at(k)] /\ at(k) \in 1 .. m
  BY <1>1, <1>2
<1>5. s[p + 1] = Head(b)
  BY <1>1, <1>2
<1>6. \A i, j \in 1 .. m : i < j => s[i] < s[j]
  BY <1>3 DEF Increasing
<1>7. p \in Nat /\ m \in Nat /\ p < m
  BY <1>1, <1>2
<1> HIDE DEF s, t, p, m
<1>8. ASSUME NEW i \in 1 .. m - 1, NEW j \in 1 .. m - 1, i < j PROVE t[i] < t[j]
  <2>1. at(i) < at(j)
    BY <1>7, <1>8
  <2>2. at(i) \in 1 .. m /\ at(j) \in 1 .. m /\ t[i] = s[at(i)] /\ t[j] = s[at(j)]
    BY <1>4
  <2> HIDE DEF at
  <2> QED BY <1>6, <2>1, <2>2
<1>9. ASSUME NEW k \in 1 .. m, k # p + 1
      PROVE  \E l \in 1 .. m - 1 : t[l] = s[k]
  <2>1. CASE k <= p
    <3>1. k \in 1 .. m - 1 /\ at(k) = k
      BY <1>7, <2>1
    <3>2. t[k] = s[k]
      BY <1>4, <3>1
    <3> QED BY <3>1, <3>2
  <2>2. CASE k > p + 1
    <3>1. k - 1 \in 1 .. m - 1 /\ at(k - 1) = k
      BY <1>7, <2>2
    <3>2. t[k - 1] = s[k]
      BY <1>4, <3>1
    <3> QED BY <3>1, <3>2
  <2> QED BY <1>7, <1>9, <2>1, <2>2
<1>10. {s[k] : k \in 1 .. m} \subseteq {t[k] : k \in 1 .. m - 1} \cup {Head(b)}
  BY <1>5, <1>9
<1>11. Increasing(t) /\ ToSet(s) \subseteq ToSet(t) \cup {Head(b)}
  BY <1>3, <1>8, <1>10 DEF Increasing, ToSet
<1> QED BY <1>11 DEF s, t

-----------------------------------------------------------------------------
(* The inductive invariant *)

\* The keyboard's half: what the ring holds and what was returned are scancodes.
KeyInv ==
  /\ scans \in 0 .. LastScan
  /\ rbuf \in [Slots(RAW_CAP) -> 0 .. scans]
  /\ rw \in Slots(RAW_CAP) /\ rr \in Slots(RAW_CAP)
  /\ keys \in Seq(1 .. scans) /\ Raw \in Seq(1 .. scans)
  /\ klost \subseteq 1 .. scans
  /\ KeysFaithful

Moving == {"hand", "store", "publish"}
Points == {"user", "poll", "drain", "again", "keys", "halt", "halted", "done"} \cup Moving

AheadS(a, b) == Ahead(a, b, SERIAL_CAP)

\* Slots between the indices hold bytes, and so does the one that drain_receiver
\* is about to publish, which the handler may have passed already but not by a lap.
RingInv ==
  /\ \A i \in Slots(SERIAL_CAP) : AheadS(sr, i) < AheadS(sr, sw) => sbuf[i] \in 1 .. sent
  /\ pc \in {"store", "publish"} =>
       AheadS(sr, slot) <= AheadS(sr, sw) /\ After(slot, SERIAL_CAP) # sr
  /\ pc = "publish" => sbuf[slot] \in 1 .. sent

\* The serial port's half.
SerialInv ==
  /\ sent \in 0 .. LastByte
  /\ fifo \in Seq(1 .. sent) /\ Len(fifo) <= UartFifo
  /\ sbuf \in [Slots(SERIAL_CAP) -> 0 .. sent]
  /\ sw \in Slots(SERIAL_CAP) /\ sr \in Slots(SERIAL_CAP) /\ slot \in Slots(SERIAL_CAP)
  /\ hand \in 0 .. sent
  /\ pc \in Points
  /\ hand # 0 <=> pc \in Moving
  /\ got \in Seq(1 .. sent)
  /\ lost \subseteq 1 .. sent
  /\ RingInv

\* Where the reader is, and the flags.
ControlInv ==
  /\ wired \in BOOLEAN /\ irq4 \in BOOLEAN /\ intr \in BOOLEAN /\ raced \in BOOLEAN
  /\ pc \in Points
  /\ pc \in {"user", "halted"} => intr

IInv == KeyInv /\ SerialInv /\ ControlInv

\* Nothing is held when the indices are equal.
LEMMA HeldNothing ==
  ASSUME NEW S, NEW cap \in Nat \ {0, 1}, NEW buf \in [Slots(cap) -> S], NEW w \in Slots(cap)
  PROVE  Held(buf, w, w, cap) = << >>
<1>1. Held(buf, w, w, cap) \in Seq(S) /\ Len(Held(buf, w, w, cap)) = Ahead(w, w, cap)
  BY HeldIs DEF Buffer
<1>2. Ahead(w, w, cap) = 0
  BY AheadIs DEF Slots
<1> HIDE DEF Held
<1> QED BY <1>1, <1>2, EmptySeq

-----------------------------------------------------------------------------
(* The keyboard *)

LEMMA KeyInit == Init => KeyInv
<1> SUFFICES ASSUME Init PROVE KeyInv
  OBVIOUS
<1>1. /\ scans = 0 /\ rw = 0 /\ rr = 0 /\ keys = << >> /\ klost = {}
      /\ rbuf = [i \in Slots(RAW_CAP) |-> 0]
  BY DEF Init
<1>2. RAW_CAP \in Nat \ {0, 1} /\ LastScan \in Nat
  BY ConsoleConstants
<1>3. rbuf \in [Slots(RAW_CAP) -> 0 .. scans] /\ rw \in Slots(RAW_CAP)
  BY <1>1, <1>2 DEF Slots
<1>4. Raw = << >>
  BY <1>1, <1>2, <1>3, HeldNothing DEF Raw
<1>5. KeysFaithful
  <2>1. keys \o Raw = << >>
    BY <1>1, <1>4
  <2> QED BY <1>1, <2>1 DEF KeysFaithful, Increasing
<1> QED BY <1>1, <1>2, <1>3, <1>4, <1>5, EmptySeq DEF KeyInv

\* Writing the slot at rw and moving rw on appends an element, unless the ring is
\* full: one slot stays empty.
LEMMA PushRaw ==
  ASSUME NEW S, NEW x \in S,
         rbuf \in [Slots(RAW_CAP) -> S], rw \in Slots(RAW_CAP), rr \in Slots(RAW_CAP),
         rbuf' = [rbuf EXCEPT ![rw] = x], rw' = After(rw, RAW_CAP), rw' # rr, rr' = rr
  PROVE  /\ rbuf' \in [Slots(RAW_CAP) -> S] /\ rw' \in Slots(RAW_CAP)
         /\ Raw' = Append(Raw, x)
<1> DEFINE cap == RAW_CAP
           n == Ahead(rr, rw, cap)
<1>1. /\ cap \in Nat \ {0, 1} /\ rr \in Nat /\ rr < cap /\ rw \in Nat /\ rw < cap
  BY ConsoleConstants DEF Slots
<1>2. n = IF rw >= rr THEN rw - rr ELSE rw + cap - rr
  BY <1>1, AheadIs
<1>3. rw' \in Slots(cap) /\ rw' = IF rw + 1 < cap THEN rw + 1 ELSE 0
  BY <1>1, AfterIs
<1>4. /\ cap \in Nat \ {0, 1} /\ rr \in Slots(cap) /\ rw' \in Slots(cap)
      /\ rbuf' \in [Slots(cap) -> S] /\ Buffer(rbuf', cap, S)
  BY <1>1, <1>3 DEF Buffer
<1>5. Ahead(rr, rw', cap) = IF rw' >= rr THEN rw' - rr ELSE rw' + cap - rr
  BY <1>1, <1>3, AheadIs
<1> HIDE DEF n, cap
<1>6. n \in Nat /\ Ahead(rr, rw', cap) = n + 1
  BY <1>1, <1>2, <1>3, <1>5
<1>7. /\ Place(rr, n + 1, cap) = rw
      /\ \A k \in 1 .. n : Place(rr, k, cap) \in Slots(cap) /\ Place(rr, k, cap) # rw
  BY <1>1, <1>2 DEF Slots, Place
<1>a. Buffer(rbuf, cap, S) /\ rw \in Slots(cap) /\ cap \in Nat \ {0, 1}
      /\ rr \in Slots(cap)
  BY <1>1 DEF cap, Buffer
<1>b. Raw = Held(rbuf, rw, rr, cap) /\ n = Ahead(rr, rw, cap)
  BY DEF Raw, n, cap
<1>8. Raw \in Seq(S) /\ Len(Raw) = n
  <2>1. /\ Held(rbuf, rw, rr, cap) \in Seq(S)
        /\ Len(Held(rbuf, rw, rr, cap)) = Ahead(rr, rw, cap)
    BY ONLY <1>a, HeldIs
  <2> QED BY <1>b, <2>1
<1>9. \A k \in 1 .. n : Raw[k] = rbuf[Place(rr, k, cap)]
  <2>1. \A k \in 1 .. Ahead(rr, rw, cap) :
          Held(rbuf, rw, rr, cap)[k] = rbuf[Place(rr, k, cap)]
    BY ONLY <1>a, HeldAt
  <2> QED BY <1>b, <2>1
<1>10. Held(rbuf', rw', rr, cap) \in Seq(S) /\ Len(Held(rbuf', rw', rr, cap)) = n + 1
  <2>1. /\ Held(rbuf', rw', rr, cap) \in Seq(S)
        /\ Len(Held(rbuf', rw', rr, cap)) = Ahead(rr, rw', cap)
    BY ONLY <1>4, HeldIs
  <2> QED BY <1>6, <2>1
<1>11. \A k \in 1 .. n + 1 :
         Held(rbuf', rw', rr, cap)[k] = rbuf'[Place(rr, k, cap)]
  <2>1. \A k \in 1 .. Ahead(rr, rw', cap) :
          Held(rbuf', rw', rr, cap)[k] = rbuf'[Place(rr, k, cap)]
    BY ONLY <1>4, HeldAt
  <2> QED BY <1>6, <2>1
<1>12. Held(rbuf', rw', rr, cap) = Raw'
  BY DEF Raw, cap
<1>13. Raw'[n + 1] = x
  BY <1>6, <1>7, <1>11, <1>12, <1>1 DEF cap
<1>14. ASSUME NEW k \in 1 .. n PROVE Raw'[k] = Raw[k]
  <2>1. k \in 1 .. n + 1
    BY <1>6
  <2>2. Raw'[k] = rbuf'[Place(rr, k, cap)] /\ Raw[k] = rbuf[Place(rr, k, cap)]
    BY <1>9, <1>11, <1>12, <2>1
  <2>3. Place(rr, k, cap) \in Slots(RAW_CAP) /\ Place(rr, k, cap) # rw
    BY <1>7 DEF cap
  <2> QED BY <2>2, <2>3
<1>15. Append(Raw, x) \in Seq(S) /\ Len(Append(Raw, x)) = n + 1
  BY <1>8
<1>16. ASSUME NEW k \in 1 .. n + 1 PROVE Raw'[k] = Append(Raw, x)[k]
  <2>1. CASE k = n + 1
    BY <1>6, <1>8, <1>13, <2>1
  <2>2. CASE k # n + 1
    <3>1. k \in 1 .. n
      BY <1>6, <2>2
    <3> QED BY <1>6, <1>8, <1>14, <3>1
  <2> QED BY <2>1, <2>2
<1>17. Raw' = Append(Raw, x)
  BY <1>6, <1>10, <1>12, <1>15, <1>16, SeqEqual
<1> QED BY <1>3, <1>4, <1>17 DEF cap

\* A key at the end of the ring, or lost because the ring is full.
LEMMA KeyPush ==
  ASSUME KeyInv, KeyboardIrq
  PROVE  KeyInv'
<1> DEFINE S == 0 .. scans + 1
<1>1. /\ RAW_CAP \in Nat \ {0, 1} /\ LastScan \in Nat
      /\ scans \in Nat /\ scans' = scans + 1 /\ scans' \in 0 .. LastScan
      /\ keys' = keys /\ rr' = rr
  BY ConsoleConstants DEF KeyInv, KeyboardIrq, history, rawRing
<1>2. /\ rbuf \in [Slots(RAW_CAP) -> S] /\ rw \in Slots(RAW_CAP) /\ rr \in Slots(RAW_CAP)
  BY <1>1 DEF KeyInv
<1>3. /\ keys \in Seq(1 .. scans) /\ Raw \in Seq(1 .. scans)
      /\ keys \in Seq(1 .. scans + 1) /\ Raw \in Seq(1 .. scans + 1)
  <2>1. 1 .. scans \subseteq 1 .. scans + 1
    BY <1>1
  <2> QED BY <2>1, SeqMonotonic DEF KeyInv
<1>4. /\ Increasing(keys \o Raw) /\ klost \subseteq 1 .. scans
      /\ 1 .. scans \subseteq ToSet(keys \o Raw) \cup klost \cup Partial
  BY DEF KeyInv, KeysFaithful
<1>5. 1 .. scans + 1 = (1 .. scans) \cup {scans + 1}
  BY <1>1
<1>6. CASE After(rw, RAW_CAP) = rr
  <2>1. klost' = klost \cup {scans + 1} /\ rbuf' = rbuf /\ rw' = rw
    BY <1>6 DEF KeyboardIrq
  <2>2. Raw' = Raw
    BY <1>1, <2>1 DEF Raw
  <2>3. KeysFaithful'
    BY <1>1, <1>4, <1>5, <2>1, <2>2 DEF KeysFaithful
  <2> QED BY <1>1, <1>2, <1>3, <1>4, <1>5, <2>1, <2>2, <2>3 DEF KeyInv
<1>7. CASE After(rw, RAW_CAP) # rr
  <2>1. /\ klost' = klost /\ rbuf' = [rbuf EXCEPT ![rw] = scans + 1]
        /\ rw' = After(rw, RAW_CAP)
    BY <1>7 DEF KeyboardIrq
  <2>2. scans + 1 \in S /\ rw' # rr
    BY <1>1, <1>7, <2>1
  <2> HIDE DEF S
  <2>3. /\ rbuf' \in [Slots(RAW_CAP) -> S] /\ rw' \in Slots(RAW_CAP)
        /\ Raw' = Append(Raw, scans + 1)
    BY <1>1, <1>2, <2>1, <2>2, PushRaw
  <2>4. /\ Increasing(keys \o Append(Raw, scans + 1))
        /\ ToSet(keys \o Append(Raw, scans + 1)) = ToSet(keys \o Raw) \cup {scans + 1}
    BY <1>1, <1>3, <1>4, PutNext
  <2>5. KeysFaithful'
    BY <1>1, <1>4, <1>5, <2>1, <2>3, <2>4 DEF KeysFaithful
  <2>7. Append(Raw, scans + 1) \in Seq(1 .. scans + 1)
    BY <1>1, <1>3
  <2> QED BY <1>1, <1>2, <1>3, <1>4, <1>5, <2>1, <2>3, <2>5, <2>7 DEF KeyInv, S
<1> QED BY <1>6, <1>7

\* The oldest key leaves the ring, and is returned unless it completes nothing.
LEMMA KeyPop ==
  ASSUME KeyInv, PollKeyboard
  PROVE  KeyInv'
<1> DEFINE S == 0 .. scans
<1>1. /\ RAW_CAP \in Nat \ {0, 1} /\ scans \in Nat /\ scans' = scans
      /\ klost' = klost /\ rbuf' = rbuf /\ rw' = rw
  BY ConsoleConstants DEF KeyInv, PollKeyboard
<1>2. rbuf \in [Slots(RAW_CAP) -> S] /\ rw \in Slots(RAW_CAP) /\ rr \in Slots(RAW_CAP)
  BY DEF KeyInv
<1>3. keys \in Seq(1 .. scans) /\ Raw \in Seq(1 .. scans)
  BY DEF KeyInv
<1>4. CASE rr = rw
  <2>1. rr' = rr /\ keys' = keys
    BY <1>4 DEF PollKeyboard
  <2> QED BY <1>1, <2>1 DEF KeyInv, KeysFaithful, Raw
<1>5. CASE rr # rw
  <2>1. /\ rr' = After(rr, RAW_CAP)
        /\ IF rbuf[rr] \in Partial THEN keys' = keys ELSE keys' = Append(keys, rbuf[rr])
    BY <1>5 DEF PollKeyboard
  <2> HIDE DEF S
  <2>2. /\ Raw # << >> /\ Head(Raw) = rbuf[rr]
        /\ Raw' = Tail(Raw)
    <3>1. /\ Held(rbuf, rw, rr, RAW_CAP) # << >>
          /\ Head(Held(rbuf, rw, rr, RAW_CAP)) = rbuf[rr]
          /\ Held(rbuf, rw, After(rr, RAW_CAP), RAW_CAP) = Tail(Held(rbuf, rw, rr, RAW_CAP))
      BY <1>1, <1>2, <1>5, PopRing
    <3> QED BY <1>1, <2>1, <3>1 DEF Raw
  <2>3. Tail(Raw) \in Seq(1 .. scans) /\ Head(Raw) \in 1 .. scans
    BY <1>3, <2>2, HeadTailProperties
  <2>4. keys' \in Seq(1 .. scans)
    BY <1>3, <2>1, <2>2, <2>3
  <2>5. KeysFaithful'
    <3>1. CASE rbuf[rr] \in Partial
      <4>1. keys \in Seq(Nat) /\ Raw \in Seq(Nat)
        BY <1>1, <1>3, SeqMonotonic
      <4>2. /\ Increasing(keys \o Tail(Raw))
            /\ ToSet(keys \o Raw) \subseteq ToSet(keys \o Tail(Raw)) \cup {Head(Raw)}
        BY <2>2, <4>1, LeaveOut DEF KeyInv, KeysFaithful
      <4> QED BY <1>1, <2>1, <2>2, <3>1, <4>2 DEF KeyInv, KeysFaithful
    <3>2. CASE rbuf[rr] \notin Partial
      <4>1. keys' \o Raw' = keys \o Raw
        BY <1>3, <2>1, <2>2, <3>2, HandOver
      <4> QED BY <1>1, <4>1 DEF KeyInv, KeysFaithful
    <3> QED BY <3>1, <3>2
  <2>6. rr' \in Slots(RAW_CAP)
    BY <1>1, <1>2, <2>1, AfterIs
  <2> QED BY <1>1, <2>2, <2>3, <2>4, <2>5, <2>6 DEF KeyInv
<1> QED BY <1>4, <1>5

LEMMA KeyFrame ==
  ASSUME KeyInv, UNCHANGED <<scans, rawRing, keys, klost>>
  PROVE  KeyInv'
BY DEF KeyInv, KeysFaithful, Raw, rawRing

LEMMA KeyStep ==
  ASSUME KeyInv, [Next]_vars
  PROVE  KeyInv'
<1>1. CASE KeyboardIrq
  BY <1>1, KeyPush
<1>2. CASE PollKeyboard
  BY <1>2, KeyPop
<1>3. CASE Arrive \/ SerialIrq \/ Timer
  BY <1>3, KeyFrame DEF Arrive, SerialIrq, Timer, rawRing, history
<1>4. CASE Read \/ PollSerial("poll", "drain") \/ PollSerial("again", "keys")
  BY <1>4, KeyFrame DEF Read, PollSerial, rawRing, history
<1>5. CASE DrainRead \/ DrainCheck \/ DrainStore \/ DrainPublish
  BY <1>5, KeyFrame DEF DrainRead, DrainCheck, DrainStore, DrainPublish, rawRing, history
<1>6. CASE Halt \/ Return \/ ReadLine \/ UNCHANGED vars
  BY <1>6, KeyFrame DEF Halt, Return, ReadLine, vars, rawRing, history
<1> QED BY <1>1, <1>2, <1>3, <1>4, <1>5, <1>6 DEF Next, Reader

-----------------------------------------------------------------------------
(* The serial port *)

LEMMA SerialCap == SERIAL_CAP \in Nat \ {0, 1}
BY ConsoleConstants

LEMMA SerialInit == Init => SerialInv
<1> SUFFICES ASSUME Init PROVE SerialInv
  OBVIOUS
<1>1. /\ sent = 0 /\ fifo = << >> /\ sw = 0 /\ sr = 0 /\ slot = 0 /\ hand = 0 /\ pc = "user"
      /\ got = << >> /\ lost = {} /\ sbuf = [i \in Slots(SERIAL_CAP) |-> 0]
  BY DEF Init
<1>2. 0 \in Slots(SERIAL_CAP) /\ LastByte \in Nat /\ UartFifo \in Nat
  BY ConsoleConstants DEF Slots
<1>3. \A i \in Slots(SERIAL_CAP) : AheadS(0, i) >= 0 /\ AheadS(0, 0) = 0
  BY <1>2, SerialCap, AheadIs DEF Slots, AheadS
<1>4. \A i \in Slots(SERIAL_CAP) : AheadS(0, i) \in Nat
  BY <1>2, SerialCap, AheadIs DEF Slots, AheadS
<1>5. RingInv
  BY <1>1, <1>2, <1>3, <1>4 DEF RingInv
<1> QED BY <1>1, <1>2, <1>5, EmptySeq DEF SerialInv, Points, Moving

\* More bytes are sent: what held before holds of them too.
LEMMA ArriveSerial ==
  ASSUME SerialInv, Arrive
  PROVE  SerialInv'
<1>1. /\ sent \in Nat /\ sent' = sent + 1 /\ sent' \in 0 .. LastByte
      /\ UNCHANGED <<sbuf, sw, sr, pc, hand, slot, got>>
  BY ConsoleConstants DEF Arrive, SerialInv, serialRing, readerVars
<1>2. 1 .. sent \subseteq 1 .. sent' /\ 0 .. sent \subseteq 0 .. sent' /\ sent + 1 \in 1 .. sent'
  BY <1>1
<1>3. fifo \in Seq(1 .. sent') /\ got \in Seq(1 .. sent')
  BY <1>2, SeqMonotonic DEF SerialInv
<1>4. fifo' \in Seq(1 .. sent') /\ Len(fifo') <= UartFifo
  <2>1. CASE Len(fifo) < UartFifo
    <3>1. fifo' = Append(fifo, sent + 1)
      BY <2>1 DEF Arrive
    <3>2. Len(fifo) \in Nat /\ UartFifo \in Nat
      BY <1>3, LenProperties, ConsoleConstants
    <3> QED BY <1>2, <1>3, <2>1, <3>1, <3>2
  <2>2. CASE ~(Len(fifo) < UartFifo)
    BY <1>3, <2>2 DEF Arrive, SerialInv
  <2> QED BY <2>1, <2>2
<1>5. lost' \subseteq 1 .. sent'
  BY <1>2 DEF Arrive, SerialInv
<1>6. RingInv'
  BY <1>1, <1>2 DEF RingInv, SerialInv, AheadS
<1>7. sbuf \in [Slots(SERIAL_CAP) -> 0 .. sent']
  BY <1>2 DEF SerialInv
<1> QED BY <1>1, <1>2, <1>3, <1>4, <1>5, <1>6, <1>7 DEF SerialInv

LEMMA PollSerialSerial ==
  ASSUME SerialInv, NEW from \in {"poll", "again"}, NEW none \in {"drain", "keys"},
         PollSerial(from, none)
  PROVE  SerialInv'
<1>1. /\ UNCHANGED <<sent, fifo, sbuf, sw, hand, slot, lost>>
      /\ pc = from /\ pc' \in {"drain", "keys", "done"}
  BY DEF PollSerial, uartVars
<1>2. pc' \in Points /\ pc' \notin Moving /\ pc \notin Moving
  BY <1>1 DEF Points, Moving
<1>3. sw \in Slots(SERIAL_CAP) /\ sr \in Slots(SERIAL_CAP)
  BY DEF SerialInv
<1>4. CASE sr = sw
  <2>1. sr' = sr /\ got' = got
    BY <1>4 DEF PollSerial
  <2>2. RingInv'
    BY <1>1, <1>2, <2>1 DEF SerialInv, RingInv, AheadS, Moving
  <2> QED BY <1>1, <1>2, <2>1, <2>2 DEF SerialInv
<1>5. CASE sr # sw
  <2>1. sr' = After(sr, SERIAL_CAP) /\ (got' = got \/ got' = Append(got, sbuf[sr]))
    BY <1>5 DEF PollSerial
  <2>2. sr' \in Slots(SERIAL_CAP) /\ sr' = IF sr + 1 < SERIAL_CAP THEN sr + 1 ELSE 0
    BY <1>3, <2>1, SerialCap, AfterIs
  <2>3. sbuf[sr] \in 1 .. sent
    <3>1. /\ AheadS(sr, sr) = IF sr >= sr THEN sr - sr ELSE sr + SERIAL_CAP - sr
          /\ AheadS(sr, sw) = IF sw >= sr THEN sw - sr ELSE sw + SERIAL_CAP - sr
      BY <1>3, SerialCap, AheadIs DEF AheadS
    <3>2. /\ sr \in Nat /\ sr < SERIAL_CAP /\ sw \in Nat /\ sw < SERIAL_CAP
          /\ SERIAL_CAP \in Nat
      BY <1>3, SerialCap DEF Slots
    <3>3. AheadS(sr, sr) < AheadS(sr, sw)
      BY <1>5, <3>1, <3>2
    <3> QED BY <1>3, <3>3 DEF SerialInv, RingInv
  <2>4. got' \in Seq(1 .. sent)
    <3>1. got \in Seq(1 .. sent)
      BY DEF SerialInv
    <3>2. Append(got, sbuf[sr]) \in Seq(1 .. sent)
      BY <2>3, <3>1, AppendProperties
    <3> QED BY <2>1, <3>1, <3>2
  <2>5. ASSUME NEW i \in Slots(SERIAL_CAP), AheadS(sr', i) < AheadS(sr', sw)
        PROVE  sbuf[i] \in 1 .. sent
    <3>1. /\ AheadS(sr, i) = IF i >= sr THEN i - sr ELSE i + SERIAL_CAP - sr
          /\ AheadS(sr, sw) = IF sw >= sr THEN sw - sr ELSE sw + SERIAL_CAP - sr
      BY <1>3, SerialCap, AheadIs DEF AheadS
    <3>2. /\ AheadS(sr', i) = IF i >= sr' THEN i - sr' ELSE i + SERIAL_CAP - sr'
          /\ AheadS(sr', sw) = IF sw >= sr' THEN sw - sr' ELSE sw + SERIAL_CAP - sr'
      BY <1>3, <2>2, SerialCap, AheadIs DEF AheadS
    <3>3. /\ sr \in Nat /\ sr < SERIAL_CAP /\ sw \in Nat /\ sw < SERIAL_CAP
          /\ i \in Nat /\ i < SERIAL_CAP /\ SERIAL_CAP \in Nat
      BY <1>3, SerialCap DEF Slots
    <3>4. AheadS(sr, i) < AheadS(sr, sw)
      BY <1>5, <2>2, <2>5, <3>1, <3>2, <3>3
    <3> QED BY <3>4 DEF SerialInv, RingInv
  <2>6. RingInv'
    BY <1>1, <1>2, <2>5 DEF RingInv, AheadS, Moving
  <2> QED BY <1>1, <1>2, <2>2, <2>4, <2>6 DEF SerialInv
<1> QED BY <1>4, <1>5

LEMMA DrainReadSerial ==
  ASSUME SerialInv, DrainRead
  PROVE  SerialInv'
<1>1. UNCHANGED <<sent, sbuf, sw, sr, slot, got, lost>> /\ pc = "drain"
  BY DEF DrainRead, serialRing, history
<1>2. pc' \in Points /\ pc' \notin {"store", "publish"}
  BY DEF DrainRead, Points, Moving
<1>3. RingInv'
  BY <1>1, <1>2 DEF SerialInv, RingInv, AheadS
<1>4. CASE fifo = << >>
  <2>1. fifo' = fifo /\ hand' = hand /\ pc' = "again"
    BY <1>4 DEF DrainRead
  <2> QED BY <1>1, <1>2, <1>3, <2>1 DEF SerialInv, Moving
<1>5. CASE fifo # << >>
  <2>1. pc' = "hand" /\ hand' = Head(fifo) /\ fifo' = Tail(fifo)
    BY <1>5 DEF DrainRead
  <2>2. /\ Head(fifo) \in 1 .. sent /\ Tail(fifo) \in Seq(1 .. sent)
        /\ Len(Tail(fifo)) = Len(fifo) - 1 /\ Len(fifo) \in Nat /\ sent \in Nat
    BY <1>5, HeadTailProperties, LenProperties DEF SerialInv
  <2>3. Len(fifo') <= UartFifo
    BY <2>1, <2>2, ConsoleConstants DEF SerialInv
  <2>4. hand' \in 0 .. sent /\ hand' # 0 /\ pc' \in Moving
    BY <2>1, <2>2 DEF Moving
  <2> QED BY <1>1, <1>2, <1>3, <2>1, <2>2, <2>3, <2>4 DEF SerialInv
<1> QED BY <1>4, <1>5

LEMMA DrainCheckSerial ==
  ASSUME SerialInv, DrainCheck
  PROVE  SerialInv'
<1>1. UNCHANGED <<sent, fifo, sbuf, sw, sr, got>> /\ pc = "hand"
  BY DEF DrainCheck, uartVars, serialRing
<1>2. hand \in 1 .. sent
  BY <1>1 DEF SerialInv, Moving
<1>3. CASE After(sw, SERIAL_CAP) = sr
  <2>1. pc' = "again" /\ lost' = lost \cup {hand} /\ hand' = 0 /\ slot' = slot
    BY <1>3 DEF DrainCheck
  <2>2. RingInv'
    BY <1>1, <2>1 DEF SerialInv, RingInv, AheadS
  <2> QED BY <1>1, <1>2, <2>1, <2>2 DEF SerialInv, Moving, Points
<1>4. CASE After(sw, SERIAL_CAP) # sr
  <2>1. pc' = "store" /\ slot' = sw /\ lost' = lost /\ hand' = hand
    BY <1>4 DEF DrainCheck
  <2>2. AheadS(sr, sw) <= AheadS(sr, sw)
    BY SerialCap, AheadIs DEF SerialInv, AheadS, Slots
  <2>3. RingInv'
    BY <1>1, <1>4, <2>1, <2>2 DEF SerialInv, RingInv, AheadS
  <2> QED BY <1>1, <1>2, <2>1, <2>3 DEF SerialInv, Moving, Points
<1> QED BY <1>3, <1>4

LEMMA DrainStoreSerial ==
  ASSUME SerialInv, DrainStore
  PROVE  SerialInv'
<1>1. /\ UNCHANGED <<sent, fifo, sw, sr, slot, hand, got, lost>>
      /\ pc = "store" /\ pc' = "publish" /\ sbuf' = [sbuf EXCEPT ![slot] = hand]
  BY DEF DrainStore, Goto, uartVars, history
<1>2. hand \in 1 .. sent /\ slot \in Slots(SERIAL_CAP)
  BY <1>1 DEF SerialInv, Moving
<1>3. sbuf' \in [Slots(SERIAL_CAP) -> 0 .. sent]
  BY <1>1, <1>2 DEF SerialInv
<1>4. sbuf'[slot] = hand /\ \A i \in Slots(SERIAL_CAP) : i # slot => sbuf'[i] = sbuf[i]
  BY <1>1, <1>2 DEF SerialInv
<1>5. RingInv'
  BY <1>1, <1>2, <1>4 DEF SerialInv, RingInv, AheadS
<1> QED BY <1>1, <1>2, <1>3, <1>5 DEF SerialInv, Moving, Points

LEMMA DrainPublishSerial ==
  ASSUME SerialInv, DrainPublish
  PROVE  SerialInv'
<1>1. /\ UNCHANGED <<sent, fifo, sbuf, sr, got, lost>>
      /\ pc = "publish" /\ pc' = "drain" /\ sw' = After(slot, SERIAL_CAP)
      /\ hand' = 0 /\ slot' = 0
  BY DEF DrainPublish, Goto, uartVars, history
<1>2. slot \in Slots(SERIAL_CAP) /\ sr \in Slots(SERIAL_CAP) /\ sw \in Slots(SERIAL_CAP)
  BY DEF SerialInv
<1>3. sw' \in Slots(SERIAL_CAP) /\ sw' = IF slot + 1 < SERIAL_CAP THEN slot + 1 ELSE 0
  BY <1>1, <1>2, SerialCap, AfterIs
<1>4. /\ AheadS(sr, slot) <= AheadS(sr, sw) /\ sw' # sr
      /\ sbuf[slot] \in 1 .. sent
  BY <1>1 DEF SerialInv, RingInv
<1>5. ASSUME NEW i \in Slots(SERIAL_CAP), AheadS(sr, i) < AheadS(sr, sw')
      PROVE  sbuf[i] \in 1 .. sent
  <2>1. /\ AheadS(sr, i) = IF i >= sr THEN i - sr ELSE i + SERIAL_CAP - sr
        /\ AheadS(sr, sw) = IF sw >= sr THEN sw - sr ELSE sw + SERIAL_CAP - sr
    BY <1>2, SerialCap, AheadIs DEF AheadS
  <2>2. /\ AheadS(sr, slot) = IF slot >= sr THEN slot - sr ELSE slot + SERIAL_CAP - sr
        /\ AheadS(sr, sw') = IF sw' >= sr THEN sw' - sr ELSE sw' + SERIAL_CAP - sr
    BY <1>2, <1>3, SerialCap, AheadIs DEF AheadS
  <2>3. /\ sr \in Nat /\ sr < SERIAL_CAP /\ slot \in Nat /\ slot < SERIAL_CAP
        /\ i \in Nat /\ i < SERIAL_CAP /\ SERIAL_CAP \in Nat /\ sw \in Nat /\ sw < SERIAL_CAP
    BY <1>2, SerialCap DEF Slots
  <2>4. i = slot \/ AheadS(sr, i) < AheadS(sr, sw)
    BY <1>3, <1>4, <1>5, <2>1, <2>2, <2>3
  <2> QED BY <1>4, <2>4 DEF SerialInv, RingInv
<1>6. RingInv'
  BY <1>1, <1>5 DEF RingInv, AheadS
<1>7. 0 \in Slots(SERIAL_CAP)
  BY SerialCap DEF Slots
<1> QED BY <1>1, <1>3, <1>6, <1>7 DEF SerialInv, Moving, Points

\* Steps that leave the port alone.
LEMMA SerialFrame ==
  ASSUME SerialInv, UNCHANGED <<sent, fifo, serialRing, hand, slot, got, lost>>,
         pc' = pc \/ (pc \notin Moving /\ pc' \in Points \ Moving)
  PROVE  SerialInv'
<1>1. UNCHANGED <<sent, fifo, sbuf, sw, sr, hand, slot, got, lost>>
  BY DEF serialRing
<1>2. RingInv'
  BY <1>1 DEF SerialInv, RingInv, AheadS, Moving
<1> QED BY <1>1, <1>2 DEF SerialInv

\* How many bytes the handler moves from the FIFO into the ring.
Moved == IF Len(fifo) <= Room THEN Len(fifo) ELSE Room

\* They fit, behind what the ring holds; the byte after them is lost.
LEMMA SerialIrqMoves ==
  ASSUME SerialInv, SerialIrq
  PROVE  /\ Moved \in Nat /\ Moved <= Len(fifo) /\ AheadS(sr, sw) + Moved < SERIAL_CAP
         /\ sw' \in Slots(SERIAL_CAP) /\ AheadS(sr, sw') = AheadS(sr, sw) + Moved
         /\ \A i \in Slots(SERIAL_CAP) :
              sbuf'[i] = IF AheadS(sw, i) < Moved THEN fifo[AheadS(sw, i) + 1] ELSE sbuf[i]
         /\ Moved < Len(fifo) => /\ lost' = lost \cup {fifo[Moved + 1]}
                                 /\ fifo' = SubSeq(fifo, Moved + 2, Len(fifo))
         /\ Moved = Len(fifo) => lost' = lost /\ fifo' = << >>
<1> DEFINE l == Len(fifo)
           left == IF Moved < l THEN Moved + 2 ELSE Moved + 1
           d == AheadS(sr, sw)
<1>1. /\ sbuf' = [i \in Slots(SERIAL_CAP) |->
                    IF AheadS(sw, i) < Moved THEN fifo[AheadS(sw, i) + 1] ELSE sbuf[i]]
      /\ sw' = (sw + Moved) % SERIAL_CAP
      /\ lost' = lost \cup {fifo[j] : j \in Moved + 1 .. left - 1}
      /\ fifo' = SubSeq(fifo, left, l)
  BY DEF SerialIrq, Moved, AheadS, Ahead
<1>2. /\ sw \in Slots(SERIAL_CAP) /\ sr \in Slots(SERIAL_CAP)
      /\ fifo \in Seq(1 .. sent) /\ l \in Nat
  BY LenProperties DEF SerialInv
<1>3. /\ sr \in Nat /\ sr < SERIAL_CAP /\ sw \in Nat /\ sw < SERIAL_CAP
      /\ SERIAL_CAP \in Nat \ {0, 1}
  BY <1>2, SerialCap DEF Slots
<1>4. d = IF sw >= sr THEN sw - sr ELSE sw + SERIAL_CAP - sr
  BY <1>2, SerialCap, AheadIs DEF AheadS
<1>5. Room = SERIAL_CAP - 1 - d
  <2> DEFINE x == sr + SERIAL_CAP - sw - 1
  <2>1. x \in Nat /\ x < 2 * SERIAL_CAP /\ Room = x % SERIAL_CAP
    BY <1>3 DEF Room
  <2> HIDE DEF x
  <2>2. Room = IF x < SERIAL_CAP THEN x ELSE x - SERIAL_CAP
    BY <1>3, <2>1, ModSmall
  <2> QED BY <1>3, <1>4, <2>2 DEF x
<1> HIDE DEF l, d
<1>6. Moved \in Nat /\ Moved <= l /\ d + Moved < SERIAL_CAP /\ d \in Nat
  <2>1. d \in Nat /\ d < SERIAL_CAP
    BY ONLY <1>3, <1>4
  <2>2. Room \in Nat /\ d + Room < SERIAL_CAP
    BY ONLY <1>3, <1>5, <2>1
  <2>3. Moved = IF l <= Room THEN l ELSE Room
    BY DEF Moved, l
  <2>4. Moved \in Nat /\ Moved <= l /\ Moved <= Room
    BY ONLY <1>2, <2>2, <2>3
  <2> QED BY ONLY <1>2, <1>3, <2>1, <2>2, <2>4
<1>7. sw' \in Slots(SERIAL_CAP) /\ AheadS(sr, sw') = d + Moved
  <2> DEFINE x == sw + Moved
  <2>1. x \in Nat /\ x < 2 * SERIAL_CAP /\ sw' = x % SERIAL_CAP
    BY <1>1, <1>3, <1>4, <1>6
  <2> HIDE DEF x
  <2>2. sw' = IF x < SERIAL_CAP THEN x ELSE x - SERIAL_CAP
    BY <1>3, <2>1, ModSmall
  <2>3. sw' \in Slots(SERIAL_CAP)
    BY <1>3, <2>1, <2>2 DEF Slots
  <2>4. AheadS(sr, sw') = IF sw' >= sr THEN sw' - sr ELSE sw' + SERIAL_CAP - sr
    BY <1>2, <2>3, SerialCap, AheadIs DEF AheadS
  <2>5. x = sw + Moved
    BY DEF x
  <2>6. AheadS(sr, sw') = d + Moved
    BY ONLY <1>3, <1>4, <1>6, <2>2, <2>4, <2>5
  <2> QED BY <2>3, <2>6
<1>8. ASSUME NEW i \in Slots(SERIAL_CAP)
      PROVE  sbuf'[i] = IF AheadS(sw, i) < Moved THEN fifo[AheadS(sw, i) + 1] ELSE sbuf[i]
  BY <1>1
<1>9. ASSUME Moved < l
      PROVE  lost' = lost \cup {fifo[Moved + 1]} /\ fifo' = SubSeq(fifo, Moved + 2, l)
  <2>1. left = Moved + 2
    BY <1>9
  <2>2. Moved + 1 .. left - 1 = {Moved + 1}
    BY <1>6, <2>1
  <2> HIDE DEF left
  <2> QED BY <1>1, <2>1, <2>2
<1>10. ASSUME Moved = l
       PROVE  lost' = lost /\ fifo' = << >>
  <2>1. left = l + 1
    BY <1>2, <1>10
  <2>2. Moved + 1 .. left - 1 = {}
    BY <1>2, <1>10, <2>1
  <2> HIDE DEF left
  <2>3. SubSeq(fifo, left, l) = << >>
    <3>1. left \in Int /\ l \in Int /\ l < left
      BY <1>2, <2>1
    <3> QED BY ONLY <3>1, SubSeqEmpty
  <2> QED BY <1>1, <2>2, <2>3
<1> QED BY <1>6, <1>7, <1>8, <1>9, <1>10 DEF l, d

\* Where a slot is, counted from the reader's index and from the handler's.
LEMMA SlotIs ==
  ASSUME SerialInv, NEW i \in Slots(SERIAL_CAP)
  PROVE  /\ i \in Nat /\ i < SERIAL_CAP /\ SERIAL_CAP \in Nat \ {0, 1}
         /\ sr \in Nat /\ sr < SERIAL_CAP /\ sw \in Nat /\ sw < SERIAL_CAP
         /\ AheadS(sr, i) = IF i >= sr THEN i - sr ELSE i + SERIAL_CAP - sr
         /\ AheadS(sw, i) = IF i >= sw THEN i - sw ELSE i + SERIAL_CAP - sw
         /\ AheadS(sr, sw) = IF sw >= sr THEN sw - sr ELSE sw + SERIAL_CAP - sr
<1>1. sw \in Slots(SERIAL_CAP) /\ sr \in Slots(SERIAL_CAP)
  BY DEF SerialInv
<1>2. SERIAL_CAP \in Nat \ {0, 1}
  BY SerialCap
<1>3. /\ i \in Nat /\ i < SERIAL_CAP
      /\ sr \in Nat /\ sr < SERIAL_CAP /\ sw \in Nat /\ sw < SERIAL_CAP
  BY <1>1, <1>2 DEF Slots
<1>4. AheadS(sr, i) = IF i >= sr THEN i - sr ELSE i + SERIAL_CAP - sr
  BY ONLY <1>1, <1>2, AheadIs, i \in Slots(SERIAL_CAP) DEF AheadS
<1>5. AheadS(sw, i) = IF i >= sw THEN i - sw ELSE i + SERIAL_CAP - sw
  BY ONLY <1>1, <1>2, AheadIs, i \in Slots(SERIAL_CAP) DEF AheadS
<1>6. AheadS(sr, sw) = IF sw >= sr THEN sw - sr ELSE sw + SERIAL_CAP - sr
  BY ONLY <1>1, <1>2, AheadIs DEF AheadS
<1> QED BY <1>2, <1>3, <1>4, <1>5, <1>6

\* A slot that the ring holds after the handler ran held its byte before, or has
\* one of those the handler moved.
LEMMA HandlerSlot ==
  ASSUME SerialInv, SerialIrq, NEW i \in Slots(SERIAL_CAP),
         AheadS(sr, i) < AheadS(sr, sw')
  PROVE  \/ /\ AheadS(sr, i) < AheadS(sr, sw)
            /\ sbuf'[i] = sbuf[i]
         \/ /\ AheadS(sw, i) = AheadS(sr, i) - AheadS(sr, sw)
            /\ AheadS(sw, i) + 1 \in 1 .. Moved /\ AheadS(sw, i) + 1 \in 1 .. Len(fifo)
            /\ sbuf'[i] = fifo[AheadS(sw, i) + 1]
<1>1. /\ Moved \in Nat /\ Moved <= Len(fifo) /\ AheadS(sr, sw) + Moved < SERIAL_CAP
      /\ AheadS(sr, sw') = AheadS(sr, sw) + Moved
      /\ sbuf'[i] = IF AheadS(sw, i) < Moved THEN fifo[AheadS(sw, i) + 1] ELSE sbuf[i]
  BY SerialIrqMoves
<1>2. /\ i \in Nat /\ i < SERIAL_CAP /\ SERIAL_CAP \in Nat
      /\ sr \in Nat /\ sr < SERIAL_CAP /\ sw \in Nat /\ sw < SERIAL_CAP
      /\ AheadS(sr, i) = IF i >= sr THEN i - sr ELSE i + SERIAL_CAP - sr
      /\ AheadS(sw, i) = IF i >= sw THEN i - sw ELSE i + SERIAL_CAP - sw
      /\ AheadS(sr, sw) = IF sw >= sr THEN sw - sr ELSE sw + SERIAL_CAP - sr
  BY SlotIs
<1>3. Len(fifo) \in Nat
  BY LenProperties DEF SerialInv
<1> DEFINE a == AheadS(sr, i)
           b == AheadS(sw, i)
           d == AheadS(sr, sw)
           l == Len(fifo)
           n == Moved
<1>4. a < d + n
  BY <1>1
<1> HIDE DEF a, b, d, l, n
<1>5. CASE a < d
  <2>1. ~(b < n)
    BY ONLY <1>1, <1>2, <1>5 DEF a, b, d, n
  <2> QED BY <1>1, <1>5, <2>1 DEF a, b, d, n
<1>6. CASE ~(a < d)
  <2>1. b = a - d /\ b \in Nat
    BY ONLY <1>2, <1>6 DEF a, b, d
  <2>2. d \in Nat /\ a \in Nat
    BY ONLY <1>2 DEF a, d
  <2>3. b < n /\ b + 1 \in 1 .. n /\ b + 1 \in 1 .. l
    BY ONLY <1>1, <1>3, <1>4, <2>1, <2>2 DEF n, l
  <2> QED BY <1>1, <2>1, <2>3 DEF a, b, d, n, l
<1> QED BY <1>5, <1>6

\* The handler keeps the invariant, also between the steps of drain_receiver.
LEMMA SerialIrqSerial ==
  ASSUME SerialInv, SerialIrq
  PROVE  SerialInv'
<1>1. /\ UNCHANGED <<sent, sr, slot, hand, got>> /\ pc' = Awake
      /\ sbuf' = [i \in Slots(SERIAL_CAP) |-> sbuf'[i]]
  BY DEF SerialIrq
<1>2. /\ Moved \in Nat /\ Moved <= Len(fifo)
      /\ sw' \in Slots(SERIAL_CAP) /\ AheadS(sr, sw') = AheadS(sr, sw) + Moved
      /\ \A i \in Slots(SERIAL_CAP) :
           sbuf'[i] = IF AheadS(sw, i) < Moved THEN fifo[AheadS(sw, i) + 1] ELSE sbuf[i]
  BY SerialIrqMoves
<1>3. /\ fifo \in Seq(1 .. sent) /\ Len(fifo) \in Nat /\ Len(fifo) <= UartFifo
      /\ sent \in Nat /\ UartFifo \in Nat
  BY LenProperties, ConsoleConstants DEF SerialInv
<1>4. ASSUME NEW j \in 1 .. Len(fifo) PROVE fifo[j] \in 1 .. sent
  BY <1>3, ElementOfSeq
<1>5. ASSUME NEW i \in Slots(SERIAL_CAP) PROVE sbuf'[i] \in 1 .. sent \/ sbuf'[i] = sbuf[i]
  <2>1. CASE AheadS(sw, i) < Moved
    <3>1. AheadS(sw, i) \in Nat
      BY SlotIs
    <3>2. AheadS(sw, i) + 1 \in 1 .. Len(fifo)
      BY ONLY <1>2, <1>3, <2>1, <3>1
    <3> QED BY <1>2, <1>4, <2>1, <3>2
  <2> QED BY <1>2, <2>1
<1>6. sbuf' \in [Slots(SERIAL_CAP) -> 0 .. sent]
  <2>1. \A i \in Slots(SERIAL_CAP) : sbuf[i] \in 0 .. sent
    BY DEF SerialInv
  <2>2. \A i \in Slots(SERIAL_CAP) : sbuf'[i] \in 0 .. sent
    BY <1>3, <1>5, <2>1
  <2> QED BY <1>1, <2>2
<1>7. /\ pc' \in Points /\ (pc' \in Moving <=> pc \in Moving)
      /\ (pc' \in {"store", "publish"} => pc' = pc)
  BY <1>1 DEF Awake, SerialInv, Points, Moving
<1>8. RingInv'
  <2>1. ASSUME NEW i \in Slots(SERIAL_CAP), AheadS(sr, i) < AheadS(sr, sw')
        PROVE  sbuf'[i] \in 1 .. sent
    <3>1. CASE AheadS(sr, i) < AheadS(sr, sw) /\ sbuf'[i] = sbuf[i]
      BY <3>1 DEF SerialInv, RingInv
    <3>2. CASE AheadS(sw, i) + 1 \in 1 .. Len(fifo) /\ sbuf'[i] = fifo[AheadS(sw, i) + 1]
      BY <1>4, <3>2
    <3> QED BY <2>1, <3>1, <3>2, HandlerSlot
  <2>2. ASSUME pc' \in {"store", "publish"}
        PROVE  AheadS(sr, slot) <= AheadS(sr, sw') /\ After(slot, SERIAL_CAP) # sr
    <3>1. AheadS(sr, slot) <= AheadS(sr, sw) /\ After(slot, SERIAL_CAP) # sr
      BY <1>7, <2>2 DEF SerialInv, RingInv
    <3>2. AheadS(sr, slot) \in Nat /\ AheadS(sr, sw) \in Nat
      <4>1. slot \in Slots(SERIAL_CAP)
        BY DEF SerialInv
      <4> QED BY <4>1, SlotIs
    <3> QED BY <1>2, <3>1, <3>2
  <2>3. ASSUME pc' = "publish" PROVE sbuf'[slot] \in 1 .. sent
    <3>1. sbuf[slot] \in 1 .. sent /\ slot \in Slots(SERIAL_CAP)
      BY <1>7, <2>3 DEF SerialInv, RingInv
    <3> QED BY <1>5, <3>1
  <2> QED BY <1>1, <2>1, <2>2, <2>3 DEF RingInv, AheadS
<1>9. fifo' \in Seq(1 .. sent) /\ Len(fifo') <= UartFifo /\ lost' \subseteq 1 .. sent
  <2>1. lost \subseteq 1 .. sent
    BY DEF SerialInv
  <2>2. CASE Moved = Len(fifo)
    <3>1. lost' = lost /\ fifo' = << >>
      BY <2>2, SerialIrqMoves
    <3> QED BY <1>3, <2>1, <3>1
  <2>3. CASE Moved # Len(fifo)
    <3>1. Moved < Len(fifo) /\ Moved + 1 \in 1 .. Len(fifo) /\ Moved + 2 \in Int
      BY ONLY <1>2, <1>3, <2>3
    <3>2. lost' = lost \cup {fifo[Moved + 1]} /\ fifo' = SubSeq(fifo, Moved + 2, Len(fifo))
      BY <3>1, SerialIrqMoves
    <3>3. \A j \in Moved + 2 .. Len(fifo) : fifo[j] \in 1 .. sent
      BY <1>2, <1>3, <1>4
    <3>4. /\ fifo' \in Seq(1 .. sent)
          /\ Len(fifo') = IF Moved + 2 <= Len(fifo) THEN Len(fifo) - (Moved + 2) + 1 ELSE 0
      BY <1>3, <3>1, <3>2, <3>3, SubSeqProperties
    <3>5. Len(fifo') <= UartFifo
      BY ONLY <1>2, <1>3, <3>4
    <3>6. fifo[Moved + 1] \in 1 .. sent
      BY <1>4, <3>1
    <3> QED BY <2>1, <3>2, <3>4, <3>5, <3>6
  <2> QED BY <2>2, <2>3
<1>10. hand' \in 0 .. sent /\ (hand' # 0 <=> pc' \in Moving)
  BY <1>1, <1>7 DEF SerialInv
<1> QED BY <1>1, <1>2, <1>6, <1>7, <1>8, <1>9, <1>10 DEF SerialInv

LEMMA SerialStep ==
  ASSUME SerialInv, [Next]_vars
  PROVE  SerialInv'
<1>1. CASE Arrive
  BY <1>1, ArriveSerial
<1>2. CASE SerialIrq
  BY <1>2, SerialIrqSerial
<1>3. CASE PollSerial("poll", "drain") \/ PollSerial("again", "keys")
  BY <1>3, PollSerialSerial
<1>4. CASE DrainRead \/ DrainCheck
  BY <1>4, DrainReadSerial, DrainCheckSerial
<1>5. CASE DrainStore \/ DrainPublish
  BY <1>5, DrainStoreSerial, DrainPublishSerial
<1>6. CASE KeyboardIrq \/ Timer
  <2>1. UNCHANGED <<sent, fifo, serialRing, hand, slot, got, lost>> /\ pc' = Awake
    BY <1>6 DEF KeyboardIrq, Timer, uartVars, history
  <2>2. pc' = pc \/ (pc \notin Moving /\ pc' \in Points \ Moving)
    BY <2>1 DEF Awake, Points, Moving
  <2> QED BY <2>1, <2>2, SerialFrame
<1>7. CASE Read \/ PollKeyboard
  <2>1. UNCHANGED <<sent, fifo, serialRing, hand, slot, got, lost>>
    BY <1>7 DEF Read, PollKeyboard, uartVars, history
  <2>2. pc \notin Moving /\ pc' \in Points \ Moving
    BY <1>7 DEF Read, PollKeyboard, Goto, Points, Moving
  <2> QED BY <2>1, <2>2, SerialFrame
<1>8. CASE Halt \/ Return \/ ReadLine
  <2>1. UNCHANGED <<sent, fifo, serialRing, hand, slot, got, lost>>
    BY <1>8 DEF Halt, Return, ReadLine, uartVars, history
  <2>2. pc \notin Moving /\ pc' \in Points \ Moving
    BY <1>8 DEF Halt, Return, ReadLine, Goto, Points, Moving
  <2> QED BY <2>1, <2>2, SerialFrame
<1>9. CASE UNCHANGED vars
  BY <1>9, SerialFrame DEF vars, uartVars, serialRing, readerVars, history
<1> QED BY <1>1, <1>2, <1>3, <1>4, <1>5, <1>6, <1>7, <1>8, <1>9 DEF Next, Reader

-----------------------------------------------------------------------------
(* The whole *)

LEMMA ControlInit == Init => ControlInv
BY DEF Init, ControlInv, Points

LEMMA ControlStep ==
  ASSUME ControlInv, [Next]_vars
  PROVE  ControlInv'
<1> USE DEF ControlInv, Points, Moving
<1>1. CASE Arrive
  BY <1>1 DEF Arrive, readerVars
<1>2. CASE SerialIrq \/ KeyboardIrq \/ Timer
  BY <1>2 DEF SerialIrq, KeyboardIrq, Timer, Awake, uartVars, history
<1>3. CASE Read \/ PollSerial("poll", "drain") \/ PollSerial("again", "keys")
  BY <1>3 DEF Read, PollSerial, Goto, uartVars, history
<1>4. CASE DrainRead \/ DrainCheck \/ DrainStore \/ DrainPublish
  BY <1>4 DEF DrainRead, DrainCheck, DrainStore, DrainPublish, Goto, uartVars, history
<1>5. CASE PollKeyboard \/ Halt \/ Return \/ ReadLine
  BY <1>5 DEF PollKeyboard, Halt, Return, ReadLine, Goto, uartVars, history
<1>6. CASE UNCHANGED vars
  BY <1>6 DEF vars, uartVars, readerVars, history
<1> QED BY <1>1, <1>2, <1>3, <1>4, <1>5, <1>6 DEF Next, Reader

\* The inductive invariant: each half needs only itself.
THEOREM ConsoleInvariant == Spec => []IInv
<1>1. Init => IInv
  BY KeyInit, SerialInit, ControlInit DEF IInv
<1>2. IInv /\ [Next]_vars => IInv'
  BY KeyStep, SerialStep, ControlStep DEF IInv
<1> QED BY <1>1, <1>2, PTL DEF Spec

\* Type correctness: for rings and FIFOs of every size no index leaves its ring,
\* and a slot is read only after a byte was put there, also when the handler
\* interrupts the reader that is moving a byte itself.
THEOREM ConsoleTypes == Spec => []TypeOK
<1>1. IInv => TypeOK
  <2> SUFFICES ASSUME IInv PROVE TypeOK
    OBVIOUS
  <2>1. ToSet(got) \subseteq 1 .. sent
    <3>1. got \in Seq(1 .. sent) /\ DOMAIN got = 1 .. Len(got)
      BY LenProperties DEF IInv, SerialInv
    <3> QED BY <3>1, ElementOfSeq DEF ToSet
  <2>2. ToSet(keys) \subseteq 1 .. scans
    <3>1. keys \in Seq(1 .. scans) /\ DOMAIN keys = 1 .. Len(keys)
      BY LenProperties DEF IInv, KeyInv
    <3> QED BY <3>1, ElementOfSeq DEF ToSet
  <2>3. hand # 0 <=> pc \in {"hand", "store", "publish"}
    BY DEF IInv, SerialInv, Moving
  <2>4. pc \in {"user", "poll", "drain", "hand", "store", "publish", "again",
                "keys", "halt", "halted", "done"}
    BY DEF IInv, SerialInv, Points, Moving
  <2> QED BY <2>1, <2>2, <2>3, <2>4 DEF IInv, KeyInv, SerialInv, ControlInv, TypeOK
<1> QED BY <1>1, ConsoleInvariant, PTL

\* For a ring of every size, keys reach the reader in the order they were struck,
\* each once, and only a full ring or a scancode that completes nothing loses one.
THEOREM KeysAreFaithful == Spec => []KeysFaithful
<1>1. IInv => KeysFaithful
  BY DEF IInv, KeyInv
<1> QED BY <1>1, ConsoleInvariant, PTL

-----------------------------------------------------------------------------
(* No byte twice *)

\* The slots between the indices.
Between == {i \in Slots(SERIAL_CAP) : AheadS(sr, i) < AheadS(sr, sw)}

\* A returned byte is nowhere else, ...
GotOnce ==
  /\ \A i, j \in DOMAIN got : got[i] = got[j] => i = j
  /\ \A i \in DOMAIN got : got[i] \notin lost /\ got[i] # hand
  /\ \A i \in DOMAIN got : \A j \in DOMAIN fifo : got[i] # fifo[j]
  /\ \A i \in DOMAIN got : \A j \in Between : got[i] # sbuf[j]

\* ... a byte in the FIFO is only there, ...
FifoOnce ==
  /\ \A i, j \in DOMAIN fifo : fifo[i] = fifo[j] => i = j
  /\ \A i \in DOMAIN fifo : fifo[i] \notin lost /\ fifo[i] # hand
  /\ \A i \in DOMAIN fifo : \A j \in Between : fifo[i] # sbuf[j]

\* ... a byte in the ring is in one slot, and the one drain_receiver moves is in
\* no slot but its own, which only the reader of the moment may find it in.
RingOnce ==
  /\ \A i, j \in Between : sbuf[i] = sbuf[j] => i = j
  /\ \A i \in Between : sbuf[i] \notin lost
  /\ hand \notin lost
  /\ pc \in {"hand", "store"} => \A i \in Between : sbuf[i] # hand
  /\ pc = "publish" => \A i \in Between : sbuf[i] = hand => i = slot
  /\ pc = "publish" /\ slot = sw => sbuf[slot] = hand

OnceInv == GotOnce /\ FifoOnce /\ RingOnce

\* The types of what the three speak of.
LEMMA Places ==
  ASSUME SerialInv
  PROVE  /\ DOMAIN got = 1 .. Len(got) /\ Len(got) \in Nat
         /\ DOMAIN fifo = 1 .. Len(fifo) /\ Len(fifo) \in Nat
         /\ \A i \in DOMAIN got : got[i] \in 1 .. sent
         /\ \A i \in DOMAIN fifo : fifo[i] \in 1 .. sent
         /\ \A i \in Between : i \in Slots(SERIAL_CAP) /\ sbuf[i] \in 1 .. sent
         /\ lost \subseteq 1 .. sent /\ hand \in 0 .. sent /\ sent \in Nat
         /\ got \in Seq(1 .. sent) /\ fifo \in Seq(1 .. sent)
<1>1. /\ got \in Seq(1 .. sent) /\ fifo \in Seq(1 .. sent)
      /\ lost \subseteq 1 .. sent /\ hand \in 0 .. sent /\ sent \in Nat
  BY ConsoleConstants DEF SerialInv
<1>2. /\ DOMAIN got = 1 .. Len(got) /\ Len(got) \in Nat
      /\ DOMAIN fifo = 1 .. Len(fifo) /\ Len(fifo) \in Nat
  BY <1>1, LenProperties
<1>3. \A i \in DOMAIN got : got[i] \in 1 .. sent
  BY <1>1, <1>2, ElementOfSeq
<1>4. \A i \in DOMAIN fifo : fifo[i] \in 1 .. sent
  BY <1>1, <1>2, ElementOfSeq
<1>5. \A i \in Between : i \in Slots(SERIAL_CAP) /\ sbuf[i] \in 1 .. sent
  BY DEF Between, SerialInv, RingInv
<1> QED BY <1>1, <1>2, <1>3, <1>4, <1>5

LEMMA OnceInit == Init => OnceInv
<1> SUFFICES ASSUME Init PROVE OnceInv
  OBVIOUS
<1>1. got = << >> /\ fifo = << >> /\ lost = {} /\ pc = "user" /\ sw = sr
  BY DEF Init
<1>2. DOMAIN got = {} /\ DOMAIN fifo = {}
  BY <1>1
<1>3. Between = {}
  <2>1. AheadS(sr, sr) = 0
    <3>1. sr \in Slots(SERIAL_CAP) /\ SERIAL_CAP \in Nat \ {0, 1}
      BY SerialCap DEF Init, Slots
    <3> QED BY <3>1, AheadIs DEF AheadS, Slots
  <2>2. \A i \in Slots(SERIAL_CAP) : AheadS(sr, i) \in Nat
    <3>1. sr \in Slots(SERIAL_CAP) /\ SERIAL_CAP \in Nat \ {0, 1}
      BY SerialCap DEF Init, Slots
    <3> QED BY <3>1, AheadIs DEF AheadS, Slots
  <2> QED BY <1>1, <2>1, <2>2 DEF Between
<1> QED BY <1>1, <1>2, <1>3 DEF OnceInv, GotOnce, FifoOnce, RingOnce

\* A byte arrives: it is new.
LEMMA ArriveOnce ==
  ASSUME SerialInv, OnceInv, Arrive
  PROVE  OnceInv'
<1>1. UNCHANGED <<sbuf, sw, sr, pc, slot, hand, got>>
  BY DEF Arrive, serialRing, readerVars
<1>2. Between' = Between
  BY <1>1 DEF Between, AheadS
<1>3. CASE Len(fifo) < UartFifo
  <2>1. fifo' = Append(fifo, sent + 1) /\ lost' = lost
    BY <1>3 DEF Arrive
  <2>2. /\ DOMAIN fifo' = 1 .. Len(fifo) + 1
        /\ \A i \in 1 .. Len(fifo) : fifo'[i] = fifo[i]
        /\ fifo'[Len(fifo) + 1] = sent + 1
    <3>1. fifo \in Seq(Nat) /\ sent + 1 \in Nat
      BY Places, SeqMonotonic
    <3>2. /\ fifo' \in Seq(Nat) /\ Len(fifo') = Len(fifo) + 1
          /\ \A i \in 1 .. Len(fifo) : fifo'[i] = fifo[i]
          /\ fifo'[Len(fifo) + 1] = sent + 1
      BY <2>1, <3>1, AppendProperties
    <3>3. DOMAIN fifo' = 1 .. Len(fifo')
      BY <3>2, LenProperties
    <3> QED BY <3>2, <3>3
  <2>3. ASSUME NEW i \in DOMAIN fifo'
        PROVE  (i \in DOMAIN fifo /\ fifo'[i] = fifo[i]) \/ (i = Len(fifo) + 1 /\ fifo'[i] = sent + 1)
    <3> DEFINE l == Len(fifo)
    <3>1. l \in Nat /\ DOMAIN fifo = 1 .. l /\ i \in 1 .. l + 1
      BY <2>2, Places
    <3> HIDE DEF l
    <3>2. i \in 1 .. l \/ i = l + 1
      BY ONLY <3>1
    <3> QED BY <2>2, <3>1, <3>2 DEF l
  <2>4. sent + 1 \notin 0 .. sent /\ sent + 1 \notin 1 .. sent
    BY Places
  <2>5. GotOnce'
    BY <1>1, <1>2, <2>1, <2>3, <2>4, Places DEF OnceInv, GotOnce
  <2>6. FifoOnce'
    BY <1>1, <1>2, <2>1, <2>3, <2>4, Places DEF OnceInv, FifoOnce
  <2>7. RingOnce'
    BY <1>1, <1>2, <2>1 DEF OnceInv, RingOnce
  <2> QED BY <2>5, <2>6, <2>7 DEF OnceInv
<1>4. CASE ~(Len(fifo) < UartFifo)
  <2>1. fifo' = fifo /\ lost' = lost \cup {sent + 1}
    BY <1>4 DEF Arrive
  <2>2. sent + 1 \notin 0 .. sent /\ sent + 1 \notin 1 .. sent
    BY Places
  <2> QED BY <1>1, <1>2, <2>1, <2>2, Places DEF OnceInv, GotOnce, FifoOnce, RingOnce
<1> QED BY <1>3, <1>4

\* The oldest byte of the ring is returned, or thrown away.
LEMMA PollSerialOnce ==
  ASSUME SerialInv, OnceInv, PollSerial("poll", "drain") \/ PollSerial("again", "keys")
  PROVE  OnceInv'
<1>1. /\ UNCHANGED <<fifo, sbuf, sw, hand, slot, lost>>
      /\ pc \notin Moving /\ pc' \notin Moving
  BY DEF PollSerial, uartVars, Moving
<1>2. CASE sr = sw
  <2>1. sr' = sr /\ got' = got
    BY <1>2 DEF PollSerial
  <2>2. Between' = Between
    BY <1>1, <2>1 DEF Between, AheadS
  <2> QED BY <1>1, <2>1, <2>2 DEF OnceInv, GotOnce, FifoOnce, RingOnce, Moving
<1>3. CASE sr # sw
  <2>1. /\ sr' = After(sr, SERIAL_CAP)
        /\ got' = got \/ got' = Append(got, sbuf[sr])
    BY <1>3 DEF PollSerial
  <2>2. sr \in Between
    <3>1. sr \in Slots(SERIAL_CAP) /\ sw \in Slots(SERIAL_CAP) /\ SERIAL_CAP \in Nat \ {0, 1}
      BY SerialCap DEF SerialInv
    <3>2. AheadS(sr, sr) = 0 /\ AheadS(sr, sw) \in Nat /\ AheadS(sr, sw) # 0
      BY <1>3, <3>1, SlotIs
    <3> QED BY <3>1, <3>2 DEF Between
  <2>3. ASSUME NEW i \in Between' PROVE i \in Between /\ i # sr
    <3>1. /\ i \in Slots(SERIAL_CAP) /\ AheadS(sr', i) < AheadS(sr', sw)
          /\ sr' \in Slots(SERIAL_CAP) /\ sw \in Slots(SERIAL_CAP)
          /\ sr' = IF sr + 1 < SERIAL_CAP THEN sr + 1 ELSE 0
      <4>1. /\ sr \in Slots(SERIAL_CAP) /\ sw \in Slots(SERIAL_CAP)
            /\ SERIAL_CAP \in Nat \ {0, 1}
        BY SerialCap DEF SerialInv
      <4> QED BY <1>1, <2>1, <4>1, AfterIs DEF Between, AheadS
    <3>2. /\ AheadS(sr', i) = IF i >= sr' THEN i - sr' ELSE i + SERIAL_CAP - sr'
          /\ AheadS(sr', sw) = IF sw >= sr' THEN sw - sr' ELSE sw + SERIAL_CAP - sr'
      BY <3>1, SerialCap, AheadIs DEF AheadS
    <3>3. /\ i \in Nat /\ i < SERIAL_CAP /\ SERIAL_CAP \in Nat
          /\ sr \in Nat /\ sr < SERIAL_CAP /\ sw \in Nat /\ sw < SERIAL_CAP
          /\ AheadS(sr, i) = IF i >= sr THEN i - sr ELSE i + SERIAL_CAP - sr
          /\ AheadS(sr, sw) = IF sw >= sr THEN sw - sr ELSE sw + SERIAL_CAP - sr
      BY <3>1, SlotIs
    <3>4. AheadS(sr, i) < AheadS(sr, sw) /\ i # sr
      BY ONLY <1>3, <3>1, <3>2, <3>3
    <3> QED BY <3>1, <3>4 DEF Between
  <2>4. CASE got' = got
    BY <1>1, <2>3, <2>4 DEF OnceInv, GotOnce, FifoOnce, RingOnce, Moving
  <2>5. CASE got' = Append(got, sbuf[sr])
    <3>1. ASSUME NEW i \in DOMAIN got'
          PROVE  \/ i \in DOMAIN got /\ got'[i] = got[i]
                 \/ i = Len(got) + 1 /\ got'[i] = sbuf[sr]
      <4>1. got \in Seq(1 .. sent) /\ sbuf[sr] \in 1 .. sent
        BY <2>2, Places
      <4>2. /\ got' \in Seq(1 .. sent) /\ Len(got') = Len(got) + 1
            /\ \A k \in 1 .. Len(got) : got'[k] = got[k]
            /\ got'[Len(got) + 1] = sbuf[sr]
        BY <2>5, <4>1, AppendProperties
      <4>3. DOMAIN got' = 1 .. Len(got) + 1
        BY <4>2, LenProperties
      <4> QED BY <4>2, <4>3, Places
    <3>2. GotOnce'
      <4>1. sbuf[sr] # hand
        BY <1>1, <2>2, Places DEF SerialInv
      <4> QED BY <1>1, <2>2, <2>3, <3>1, <4>1 DEF OnceInv, GotOnce, FifoOnce, RingOnce
    <3>3. FifoOnce' /\ RingOnce'
      BY <1>1, <2>3 DEF OnceInv, FifoOnce, RingOnce, Moving
    <3> QED BY <3>2, <3>3 DEF OnceInv
  <2> QED BY <2>1, <2>4, <2>5
<1> QED BY <1>2, <1>3

\* A byte of the FIFO is in the hand of drain_receiver, ...
LEMMA DrainReadOnce ==
  ASSUME SerialInv, OnceInv, DrainRead
  PROVE  OnceInv'
<1>1. UNCHANGED <<sbuf, sw, sr, slot, got, lost>> /\ pc = "drain"
  BY DEF DrainRead, serialRing, history
<1>2. Between' = Between
  BY <1>1 DEF Between, AheadS
<1>3. CASE fifo = << >>
  <2>1. fifo' = fifo /\ hand' = hand /\ pc' = "again"
    BY <1>3 DEF DrainRead
  <2> QED BY <1>1, <1>2, <2>1 DEF OnceInv, GotOnce, FifoOnce, RingOnce
<1>4. CASE fifo # << >>
  <2>1. fifo' = Tail(fifo) /\ hand' = Head(fifo) /\ pc' = "hand"
    BY <1>4 DEF DrainRead
  <2>2. 1 \in DOMAIN fifo /\ hand' = fifo[1]
    BY <1>4, <2>1, Places, EmptySeq
  <2>3. ASSUME NEW i \in DOMAIN fifo'
        PROVE  i + 1 \in DOMAIN fifo /\ i + 1 # 1 /\ fifo'[i] = fifo[i + 1] /\ i \in Nat
    <3>1. fifo \in Seq(1 .. sent)
      BY Places
    <3>2. /\ fifo' \in Seq(1 .. sent) /\ Len(fifo') = Len(fifo) - 1
          /\ \A k \in 1 .. Len(fifo') : fifo'[k] = fifo[k + 1]
      BY <1>4, <2>1, <3>1, HeadTailProperties
    <3>3. DOMAIN fifo' = 1 .. Len(fifo')
      BY <3>2, LenProperties
    <3> DEFINE l == Len(fifo)
               m == Len(fifo')
    <3>4. l \in Nat /\ m = l - 1 /\ i \in 1 .. m /\ DOMAIN fifo = 1 .. l
      BY <3>2, <3>3, Places
    <3>5. fifo'[i] = fifo[i + 1]
      BY <3>2, <3>4
    <3> HIDE DEF l, m
    <3>6. i + 1 \in 1 .. l /\ i + 1 # 1 /\ i \in Nat
      BY ONLY <3>4
    <3> QED BY <3>4, <3>5, <3>6
  <2>4. GotOnce'
    BY <1>1, <1>2, <2>2, <2>3 DEF OnceInv, GotOnce
  <2>5. FifoOnce'
    <3>1. \A i, j \in DOMAIN fifo' : fifo'[i] = fifo'[j] => i = j
      BY <2>3 DEF OnceInv, FifoOnce
    <3>2. \A i \in DOMAIN fifo' : fifo'[i] \notin lost' /\ fifo'[i] # hand'
      BY <1>1, <2>2, <2>3 DEF OnceInv, FifoOnce
    <3>3. \A i \in DOMAIN fifo' : \A j \in Between : fifo'[i] # sbuf[j]
      BY <2>3 DEF OnceInv, FifoOnce
    <3> QED BY <1>1, <1>2, <3>1, <3>2, <3>3 DEF FifoOnce
  <2>6. RingOnce'
    BY <1>1, <1>2, <2>1, <2>2 DEF OnceInv, FifoOnce, RingOnce
  <2> QED BY <2>4, <2>5, <2>6 DEF OnceInv
<1> QED BY <1>3, <1>4

\* ... is lost to a full ring, ...
LEMMA DrainCheckOnce ==
  ASSUME SerialInv, OnceInv, DrainCheck
  PROVE  OnceInv'
<1>1. UNCHANGED <<fifo, sbuf, sw, sr, got>> /\ pc = "hand"
  BY DEF DrainCheck, uartVars, serialRing
<1>2. Between' = Between
  BY <1>1 DEF Between, AheadS
<1>3. CASE pc' = "store"
  <2>1. lost' = lost /\ hand' = hand
    BY <1>3 DEF DrainCheck
  <2> QED BY <1>1, <1>2, <1>3, <2>1 DEF OnceInv, GotOnce, FifoOnce, RingOnce
<1>4. CASE pc' # "store"
  <2>1. lost' = lost \cup {hand} /\ hand' = 0 /\ pc' = "again"
    BY <1>4 DEF DrainCheck
  <2>2. 0 \notin 1 .. sent /\ hand # 0
    BY <1>1, Places DEF SerialInv, Moving
  <2>3. GotOnce'
    BY <1>1, <1>2, <2>1, <2>2, Places DEF OnceInv, GotOnce
  <2>4. FifoOnce'
    BY <1>1, <1>2, <2>1, <2>2, Places DEF OnceInv, FifoOnce
  <2>5. RingOnce'
    BY <1>1, <1>2, <2>1, <2>2, Places DEF OnceInv, RingOnce
  <2> QED BY <2>3, <2>4, <2>5 DEF OnceInv
<1> QED BY <1>3, <1>4

\* ... or goes into its slot, over whatever the handler has put there, ...
LEMMA DrainStoreOnce ==
  ASSUME SerialInv, OnceInv, DrainStore
  PROVE  OnceInv'
<1>1. /\ UNCHANGED <<fifo, sw, sr, slot, hand, got, lost>>
      /\ pc = "store" /\ pc' = "publish" /\ sbuf' = [sbuf EXCEPT ![slot] = hand]
  BY DEF DrainStore, Goto, uartVars, history
<1>2. Between' = Between /\ slot \in Slots(SERIAL_CAP)
  BY <1>1 DEF Between, AheadS, SerialInv
<1>3. sbuf'[slot] = hand /\ \A i \in Slots(SERIAL_CAP) : i # slot => sbuf'[i] = sbuf[i]
  BY <1>1, <1>2 DEF SerialInv
<1>4. \A i \in Between : i \in Slots(SERIAL_CAP)
  BY DEF Between
<1>5. GotOnce'
  BY <1>1, <1>2, <1>3, <1>4 DEF OnceInv, GotOnce
<1>6. FifoOnce'
  BY <1>1, <1>2, <1>3, <1>4 DEF OnceInv, FifoOnce
<1>7. RingOnce'
  BY <1>1, <1>2, <1>3, <1>4 DEF OnceInv, RingOnce
<1> QED BY <1>5, <1>6, <1>7 DEF OnceInv

\* ... which is then the last one of the ring.
LEMMA DrainPublishOnce ==
  ASSUME SerialInv, OnceInv, DrainPublish
  PROVE  OnceInv'
<1>1. /\ UNCHANGED <<fifo, sbuf, sr, got, lost>>
      /\ pc = "publish" /\ pc' = "drain" /\ sw' = After(slot, SERIAL_CAP) /\ hand' = 0
  BY DEF DrainPublish, Goto, uartVars, history
<1>2. /\ slot \in Slots(SERIAL_CAP) /\ AheadS(sr, slot) <= AheadS(sr, sw) /\ sw' # sr
      /\ hand # 0
  BY <1>1 DEF SerialInv, RingInv, Moving
<1>3. ASSUME NEW i \in Between' PROVE i \in Between \/ (i = slot /\ slot = sw /\ sbuf[slot] = hand)
  <2>1. i \in Slots(SERIAL_CAP) /\ AheadS(sr, i) < AheadS(sr, sw')
    BY <1>1 DEF Between, AheadS
  <2>2. sw' \in Slots(SERIAL_CAP) /\ sw' = IF slot + 1 < SERIAL_CAP THEN slot + 1 ELSE 0
    BY <1>1, <1>2, SerialCap, AfterIs
  <2>3. AheadS(sr, sw') = IF sw' >= sr THEN sw' - sr ELSE sw' + SERIAL_CAP - sr
    <3>1. sr \in Slots(SERIAL_CAP)
      BY DEF SerialInv
    <3> QED BY <2>2, <3>1, SerialCap, AheadIs DEF AheadS
  <2>4. /\ slot \in Nat /\ slot < SERIAL_CAP
        /\ AheadS(sr, slot) = IF slot >= sr THEN slot - sr ELSE slot + SERIAL_CAP - sr
    BY <1>2, SlotIs
  <2>5. /\ i \in Nat /\ i < SERIAL_CAP /\ SERIAL_CAP \in Nat
        /\ sr \in Nat /\ sr < SERIAL_CAP /\ sw \in Nat /\ sw < SERIAL_CAP
        /\ AheadS(sr, i) = IF i >= sr THEN i - sr ELSE i + SERIAL_CAP - sr
        /\ AheadS(sr, sw) = IF sw >= sr THEN sw - sr ELSE sw + SERIAL_CAP - sr
    BY <2>1, SlotIs
  <2>6. AheadS(sr, i) < AheadS(sr, sw) \/ (i = slot /\ slot = sw)
    BY ONLY <1>2, <2>1, <2>2, <2>3, <2>4, <2>5
  <2> QED BY <1>1, <2>1, <2>6 DEF OnceInv, RingOnce, Between
<1>4. 0 \notin 1 .. sent
  BY Places
<1>5. GotOnce'
  BY <1>1, <1>3, <1>4, Places DEF OnceInv, GotOnce
<1>6. FifoOnce'
  BY <1>1, <1>3, <1>4, Places DEF OnceInv, FifoOnce
<1>7. RingOnce'
  BY <1>1, <1>3, <1>4, Places DEF OnceInv, RingOnce
<1> QED BY <1>5, <1>6, <1>7 DEF OnceInv

\* The handler moves the front of the FIFO behind the ring, which may hide a byte
\* that it moved before, and loses at most the next one.
LEMMA SerialIrqOnce ==
  ASSUME SerialInv, OnceInv, SerialIrq
  PROVE  OnceInv'
<1>1. UNCHANGED <<sr, slot, hand, got>> /\ (pc' = pc \/ (pc' = "poll" /\ pc = "halted"))
  BY DEF SerialIrq, Awake
<1>2. /\ Moved \in Nat /\ Moved <= Len(fifo) /\ Len(fifo) \in Nat
      /\ AheadS(sr, sw') = AheadS(sr, sw) + Moved
  BY SerialIrqMoves, Places
\* What the new FIFO has comes from behind what was moved, ...
<1>3. ASSUME NEW i \in DOMAIN fifo'
      PROVE  /\ i \in Nat /\ i + Moved + 1 \in DOMAIN fifo /\ i + Moved + 1 > Moved + 1
             /\ fifo'[i] = fifo[i + Moved + 1]
  <2>1. CASE Moved = Len(fifo)
    <3>1. fifo' = << >>
      BY <2>1, SerialIrqMoves
    <3>2. DOMAIN fifo' = {}
      BY <3>1
    <3> QED BY <3>2
  <2>2. CASE Moved # Len(fifo)
    <3> DEFINE m == Moved + 2
               l == Len(fifo)
    <3>1. Moved < l /\ m \in Int /\ l \in Int
      BY <1>2, <2>2
    <3>2. fifo' = SubSeq(fifo, m, l)
      BY <3>1, SerialIrqMoves
    <3>3. m = Moved + 2 /\ DOMAIN fifo = 1 .. l /\ l \in Nat
      BY Places
    <3> HIDE DEF m, l
    <3>4. \A j \in m .. l : fifo[j] \in 1 .. sent
      <4>1. \A j \in m .. l : j \in DOMAIN fifo
        BY ONLY <1>2, <3>1, <3>3
      <4> QED BY <4>1, Places
    <3>5. /\ fifo' \in Seq(1 .. sent)
          /\ Len(fifo') = IF m <= l THEN l - m + 1 ELSE 0
          /\ \A k \in 1 .. l - m + 1 : fifo'[k] = fifo[m + k - 1]
      BY <3>1, <3>2, <3>4, SubSeqProperties
    <3>6. i \in 1 .. Len(fifo')
      BY <3>5, LenProperties
    <3>7. i \in Nat /\ i >= 1 /\ i \in 1 .. l - m + 1 /\ m + i - 1 = i + Moved + 1
      BY ONLY <1>2, <3>1, <3>3, <3>5, <3>6
    <3>8. i + Moved + 1 \in 1 .. l /\ i + Moved + 1 > Moved + 1
      BY ONLY <1>2, <3>1, <3>3, <3>7
    <3> QED BY <3>3, <3>5, <3>7, <3>8
  <2> QED BY <2>1, <2>2
\* ... what is newly lost is the one between, ...
<1>4. ASSUME NEW b \in lost'
      PROVE  b \in lost \/ (Moved + 1 \in DOMAIN fifo /\ b = fifo[Moved + 1])
  <2>1. CASE Moved = Len(fifo)
    BY <2>1, SerialIrqMoves
  <2>2. CASE Moved # Len(fifo)
    <3>1. Moved < Len(fifo) /\ Moved + 1 \in DOMAIN fifo
      <4> DEFINE l == Len(fifo)
      <4>1. l \in Nat /\ Moved \in Nat /\ Moved <= l /\ Moved # l /\ DOMAIN fifo = 1 .. l
        BY <1>2, <2>2, Places
      <4> HIDE DEF l
      <4>2. Moved < l /\ Moved + 1 \in DOMAIN fifo
        BY ONLY <4>1
      <4> QED BY <4>2 DEF l
    <3>2. lost' = lost \cup {fifo[Moved + 1]}
      BY <3>1, SerialIrqMoves
    <3> QED BY <3>1, <3>2
  <2> QED BY <2>1, <2>2
\* ... and each slot has its byte from before or one of those that were moved.
<1>5. ASSUME NEW i \in Between'
      PROVE  \/ i \in Between /\ sbuf'[i] = sbuf[i]
             \/ /\ AheadS(sw, i) + 1 \in 1 .. Moved /\ AheadS(sw, i) + 1 \in DOMAIN fifo
                /\ sbuf'[i] = fifo[AheadS(sw, i) + 1]
  <2>1. i \in Slots(SERIAL_CAP) /\ AheadS(sr, i) < AheadS(sr, sw')
    BY <1>1 DEF Between, AheadS
  <2> QED BY <2>1, HandlerSlot, Places DEF Between
<1>6. ASSUME NEW i \in Between', NEW j \in Between', AheadS(sw, i) + 1 = AheadS(sw, j) + 1
      PROVE  i = j
  <2>1. i \in Slots(SERIAL_CAP) /\ j \in Slots(SERIAL_CAP)
    BY DEF Between
  <2>2. /\ i \in Nat /\ i < SERIAL_CAP /\ SERIAL_CAP \in Nat /\ sw \in Nat /\ sw < SERIAL_CAP
        /\ AheadS(sw, i) = IF i >= sw THEN i - sw ELSE i + SERIAL_CAP - sw
    BY <2>1, SlotIs
  <2>3. /\ j \in Nat /\ j < SERIAL_CAP
        /\ AheadS(sw, j) = IF j >= sw THEN j - sw ELSE j + SERIAL_CAP - sw
    BY <2>1, SlotIs
  <2> QED BY ONLY <1>6, <2>2, <2>3
<1>7. \A i \in 1 .. Moved : i < Moved + 1 /\ i # Moved + 1
  BY <1>2
<1>8. \A i \in DOMAIN fifo : i \in Nat
  BY Places
<1>9. GotOnce'
  <2>1. \A i \in DOMAIN got : got[i] \notin lost'
    BY <1>4 DEF OnceInv, GotOnce
  <2>2. \A i \in DOMAIN got : \A j \in DOMAIN fifo' : got[i] # fifo'[j]
    BY <1>3 DEF OnceInv, GotOnce
  <2>3. \A i \in DOMAIN got : \A j \in Between' : got[i] # sbuf'[j]
    BY <1>5 DEF OnceInv, GotOnce
  <2> QED BY <1>1, <2>1, <2>2, <2>3 DEF OnceInv, GotOnce
<1>10. FifoOnce'
  <2>1. ASSUME NEW i \in DOMAIN fifo', NEW j \in DOMAIN fifo', fifo'[i] = fifo'[j]
        PROVE  i = j
    <3>1. i + Moved + 1 = j + Moved + 1
      BY <1>3, <2>1 DEF OnceInv, FifoOnce
    <3> QED BY <1>2, <1>3, <3>1
  <2>2. ASSUME NEW i \in DOMAIN fifo' PROVE fifo'[i] \notin lost'
    <3>1. fifo'[i] \notin lost
      BY <1>3 DEF OnceInv, FifoOnce
    <3>2. ASSUME Moved + 1 \in DOMAIN fifo PROVE fifo'[i] # fifo[Moved + 1]
      <4>1. i + Moved + 1 # Moved + 1
        BY <1>2, <1>3
      <4> QED BY <1>3, <3>2, <4>1 DEF OnceInv, FifoOnce
    <3> QED BY <1>4, <3>1, <3>2
  <2>3. \A i \in DOMAIN fifo' : fifo'[i] # hand
    BY <1>3 DEF OnceInv, FifoOnce
  <2>4. ASSUME NEW i \in DOMAIN fifo', NEW j \in Between' PROVE fifo'[i] # sbuf'[j]
    <3>1. CASE j \in Between /\ sbuf'[j] = sbuf[j]
      BY <1>3, <3>1 DEF OnceInv, FifoOnce
    <3>2. CASE /\ AheadS(sw, j) + 1 \in 1 .. Moved /\ AheadS(sw, j) + 1 \in DOMAIN fifo
               /\ sbuf'[j] = fifo[AheadS(sw, j) + 1]
      <4>1. i + Moved + 1 # AheadS(sw, j) + 1
        BY <1>2, <1>3, <3>2
      <4> QED BY <1>3, <3>2, <4>1 DEF OnceInv, FifoOnce
    <3> QED BY <1>5, <3>1, <3>2
  <2> QED BY <1>1, <2>1, <2>2, <2>3, <2>4 DEF FifoOnce
<1>11. RingOnce'
  <2>1. ASSUME NEW i \in Between', NEW j \in Between', sbuf'[i] = sbuf'[j]
        PROVE  i = j
    <3>1. CASE i \in Between /\ sbuf'[i] = sbuf[i]
      <4>1. CASE j \in Between /\ sbuf'[j] = sbuf[j]
        BY <2>1, <3>1, <4>1 DEF OnceInv, RingOnce
      <4>2. CASE AheadS(sw, j) + 1 \in DOMAIN fifo /\ sbuf'[j] = fifo[AheadS(sw, j) + 1]
        BY <2>1, <3>1, <4>2 DEF OnceInv, FifoOnce
      <4> QED BY <1>5, <4>1, <4>2
    <3>2. CASE AheadS(sw, i) + 1 \in DOMAIN fifo /\ sbuf'[i] = fifo[AheadS(sw, i) + 1]
      <4>1. CASE j \in Between /\ sbuf'[j] = sbuf[j]
        BY <2>1, <3>2, <4>1 DEF OnceInv, FifoOnce
      <4>2. CASE AheadS(sw, j) + 1 \in DOMAIN fifo /\ sbuf'[j] = fifo[AheadS(sw, j) + 1]
        <5>1. AheadS(sw, i) + 1 = AheadS(sw, j) + 1
          BY <2>1, <3>2, <4>2 DEF OnceInv, FifoOnce
        <5> QED BY <1>6, <5>1
      <4> QED BY <1>5, <4>1, <4>2
    <3> QED BY <1>5, <3>1, <3>2
  <2>2. ASSUME NEW i \in Between' PROVE sbuf'[i] \notin lost'
    <3>1. CASE i \in Between /\ sbuf'[i] = sbuf[i]
      BY <1>4, <3>1 DEF OnceInv, FifoOnce, RingOnce
    <3>2. CASE /\ AheadS(sw, i) + 1 \in 1 .. Moved /\ AheadS(sw, i) + 1 \in DOMAIN fifo
               /\ sbuf'[i] = fifo[AheadS(sw, i) + 1]
      <4>1. AheadS(sw, i) + 1 # Moved + 1
        BY <1>7, <3>2
      <4> QED BY <1>4, <3>2, <4>1 DEF OnceInv, FifoOnce
    <3> QED BY <1>5, <3>1, <3>2
  <2>3. hand \notin lost'
    BY <1>4 DEF OnceInv, FifoOnce, RingOnce
  <2>4. ASSUME pc' \in {"hand", "store"} PROVE \A i \in Between' : sbuf'[i] # hand
    BY <1>1, <1>5, <2>4 DEF OnceInv, FifoOnce, RingOnce
  <2>5. ASSUME pc' = "publish" PROVE \A i \in Between' : sbuf'[i] = hand => i = slot
    BY <1>1, <1>5, <2>5 DEF OnceInv, FifoOnce, RingOnce
  <2>6. ASSUME pc' = "publish", slot = sw' PROVE sbuf'[slot] = hand
    <3>1. pc = "publish"
      BY <1>1, <2>6
    <3>2. slot \in Slots(SERIAL_CAP) /\ AheadS(sr, slot) <= AheadS(sr, sw)
      BY <3>1 DEF SerialInv, RingInv
    <3>3. AheadS(sr, slot) = AheadS(sr, sw) + Moved
      BY <1>2, <2>6
    <3>4. AheadS(sr, sw) \in Nat /\ AheadS(sr, slot) \in Nat
      BY <3>2, SlotIs
    <3>5. Moved = 0 /\ AheadS(sr, slot) = AheadS(sr, sw)
      BY ONLY <1>2, <3>2, <3>3, <3>4
    <3>6. slot = sw
      BY <3>2, <3>5, SlotIs
    <3>7. sbuf'[slot] = IF AheadS(sw, slot) < Moved THEN fifo[AheadS(sw, slot) + 1] ELSE sbuf[slot]
      BY <3>2, SerialIrqMoves
    <3>8. AheadS(sw, slot) \in Nat
      BY <3>2, SlotIs
    <3>9. sbuf'[slot] = sbuf[slot]
      BY <3>5, <3>7, <3>8
    <3> QED BY <3>1, <3>6, <3>9 DEF OnceInv, RingOnce
  <2> QED BY <1>1, <2>1, <2>2, <2>3, <2>4, <2>5, <2>6 DEF RingOnce
<1> QED BY <1>9, <1>10, <1>11 DEF OnceInv

\* Steps that leave the port alone.
LEMMA OnceFrame ==
  ASSUME OnceInv, UNCHANGED <<fifo, sbuf, sw, sr, hand, slot, got, lost>>,
         pc' = pc \/ pc' \notin Moving
  PROVE  OnceInv'
<1>1. Between' = Between
  BY DEF Between, AheadS
<1> QED BY <1>1 DEF OnceInv, GotOnce, FifoOnce, RingOnce, Moving

LEMMA OnceStep ==
  ASSUME SerialInv, OnceInv, [Next]_vars
  PROVE  OnceInv'
<1>1. CASE Arrive
  BY <1>1, ArriveOnce
<1>2. CASE SerialIrq
  BY <1>2, SerialIrqOnce
<1>3. CASE PollSerial("poll", "drain") \/ PollSerial("again", "keys")
  BY <1>3, PollSerialOnce
<1>4. CASE DrainRead \/ DrainCheck
  BY <1>4, DrainReadOnce, DrainCheckOnce
<1>5. CASE DrainStore \/ DrainPublish
  BY <1>5, DrainStoreOnce, DrainPublishOnce
<1>6. CASE KeyboardIrq \/ Timer \/ Read \/ PollKeyboard
  <2>1. UNCHANGED <<fifo, sbuf, sw, sr, hand, slot, got, lost>>
    BY <1>6 DEF KeyboardIrq, Timer, Read, PollKeyboard, uartVars, serialRing, history
  <2>2. pc' = pc \/ pc' \notin Moving
    BY <1>6 DEF KeyboardIrq, Timer, Read, PollKeyboard, Goto, Awake, Moving
  <2> QED BY <2>1, <2>2, OnceFrame
<1>7. CASE Halt \/ Return \/ ReadLine \/ UNCHANGED vars
  <2>1. UNCHANGED <<fifo, sbuf, sw, sr, hand, slot, got, lost>>
    BY <1>7 DEF Halt, Return, ReadLine, vars, uartVars, serialRing, readerVars, history
  <2>2. pc' = pc \/ pc' \notin Moving
    BY <1>7 DEF Halt, Return, ReadLine, vars, readerVars, Goto, Moving
  <2> QED BY <2>1, <2>2, OnceFrame
<1> QED BY <1>1, <1>2, <1>3, <1>4, <1>5, <1>6, <1>7 DEF Next, Reader

-----------------------------------------------------------------------------
(* The order *)

\* All bytes on their way, oldest first.
Queue == got \o Serial \o InHand \o fifo

\* Unless the handler has interrupted a move, the slot of the move is the ring's
\* next one, and the queue is in order and complete.
OrderInv ==
  ~raced => /\ pc \in {"store", "publish"} => slot = sw
            /\ pc = "publish" => sbuf[slot] = hand
            /\ Increasing(Queue)
            /\ 1 .. sent \subseteq ToSet(Queue) \cup lost \cup Unprintable

\* What a ring of the serial port's size holds, and where.
LEMMA SerialIs ==
  ASSUME NEW buf, Buffer(buf, SERIAL_CAP, Nat),
         NEW w \in Slots(SERIAL_CAP), NEW r \in Slots(SERIAL_CAP)
  PROVE  /\ Held(buf, w, r, SERIAL_CAP) \in Seq(Nat)
         /\ Len(Held(buf, w, r, SERIAL_CAP)) = AheadS(r, w)
         /\ AheadS(r, w) \in Nat /\ AheadS(r, w) < SERIAL_CAP
         /\ \A k \in 1 .. AheadS(r, w) :
              /\ Place(r, k, SERIAL_CAP) \in Slots(SERIAL_CAP)
              /\ AheadS(r, Place(r, k, SERIAL_CAP)) = k - 1
              /\ Held(buf, w, r, SERIAL_CAP)[k] = buf[Place(r, k, SERIAL_CAP)]
<1>1. SERIAL_CAP \in Nat \ {0, 1}
  BY SerialCap
<1>2. /\ Held(buf, w, r, SERIAL_CAP) \in Seq(Nat)
      /\ Len(Held(buf, w, r, SERIAL_CAP)) = AheadS(r, w)
  BY ONLY <1>1, HeldIs, Buffer(buf, SERIAL_CAP, Nat), w \in Slots(SERIAL_CAP),
          r \in Slots(SERIAL_CAP) DEF AheadS
<1>3. AheadS(r, w) \in Nat /\ AheadS(r, w) < SERIAL_CAP
  <2>1. AheadS(r, w) \in Slots(SERIAL_CAP)
    BY <1>1, AheadIs DEF AheadS
  <2> QED BY <1>1, <2>1 DEF Slots
<1>4. ASSUME NEW k \in 1 .. AheadS(r, w)
      PROVE  /\ Place(r, k, SERIAL_CAP) \in Slots(SERIAL_CAP)
             /\ AheadS(r, Place(r, k, SERIAL_CAP)) = k - 1
             /\ Held(buf, w, r, SERIAL_CAP)[k] = buf[Place(r, k, SERIAL_CAP)]
  <2> DEFINE p == Place(r, k, SERIAL_CAP)
  <2>1. p \in Slots(SERIAL_CAP) /\ Held(buf, w, r, SERIAL_CAP)[k] = buf[p]
    <3>1. k \in 1 .. Ahead(r, w, SERIAL_CAP)
      BY DEF AheadS
    <3> QED BY ONLY <1>1, <3>1, HeldAt, w \in Slots(SERIAL_CAP), r \in Slots(SERIAL_CAP)
  <2>2. p = IF r + k - 1 < SERIAL_CAP THEN r + k - 1 ELSE r + k - 1 - SERIAL_CAP
    BY DEF Place
  <2> HIDE DEF p
  <2>3. AheadS(r, p) = IF p >= r THEN p - r ELSE p + SERIAL_CAP - r
    BY <1>1, <2>1, AheadIs DEF AheadS
  <2>4. r \in Nat /\ r < SERIAL_CAP /\ k \in Nat /\ k >= 1 /\ k <= AheadS(r, w)
    BY <1>1, <1>3 DEF Slots
  <2>5. AheadS(r, p) = k - 1
    BY ONLY <1>1, <1>3, <2>2, <2>3, <2>4
  <2> QED BY <2>1, <2>5 DEF p
<1> QED BY <1>2, <1>3, <1>4

\* A slot is known by its distance from another.
LEMMA SameDistance ==
  ASSUME NEW a \in Slots(SERIAL_CAP), NEW b \in Slots(SERIAL_CAP),
         NEW c \in Slots(SERIAL_CAP), AheadS(a, b) = AheadS(a, c)
  PROVE  b = c
<1>1. /\ a \in Nat /\ a < SERIAL_CAP /\ b \in Nat /\ b < SERIAL_CAP
      /\ c \in Nat /\ c < SERIAL_CAP /\ SERIAL_CAP \in Nat
  BY SerialCap DEF Slots
<1>2. /\ AheadS(a, b) = IF b >= a THEN b - a ELSE b + SERIAL_CAP - a
      /\ AheadS(a, c) = IF c >= a THEN c - a ELSE c + SERIAL_CAP - a
  BY SerialCap, AheadIs DEF AheadS
<1>3. CASE b >= a /\ c >= a
  <2>1. b - a = c - a
    BY <1>2, <1>3
  <2> QED BY ONLY <1>1, <2>1
<1>4. CASE b >= a /\ ~(c >= a)
  <2>1. b - a = c + SERIAL_CAP - a
    BY <1>2, <1>4
  <2> QED BY ONLY <1>1, <2>1
<1>5. CASE ~(b >= a) /\ c >= a
  <2>1. b + SERIAL_CAP - a = c - a
    BY <1>2, <1>5
  <2> QED BY ONLY <1>1, <2>1
<1>6. CASE ~(b >= a) /\ ~(c >= a)
  <2>1. b + SERIAL_CAP - a = c + SERIAL_CAP - a
    BY <1>2, <1>6
  <2> QED BY ONLY <1>1, <2>1
<1> QED BY <1>3, <1>4, <1>5, <1>6

\* In a state that is typed, what the ring holds are bytes that were sent.
LEMMA SerialHolds ==
  ASSUME SerialInv
  PROVE  /\ Buffer(sbuf, SERIAL_CAP, Nat)
         /\ sw \in Slots(SERIAL_CAP) /\ sr \in Slots(SERIAL_CAP)
         /\ Serial \in Seq(1 .. sent) /\ InHand \in Seq(1 .. sent)
         /\ got \in Seq(1 .. sent) /\ fifo \in Seq(1 .. sent) /\ sent \in Nat
<1>1. /\ sbuf \in [Slots(SERIAL_CAP) -> 0 .. sent] /\ sent \in Nat
      /\ sw \in Slots(SERIAL_CAP) /\ sr \in Slots(SERIAL_CAP)
      /\ got \in Seq(1 .. sent) /\ fifo \in Seq(1 .. sent)
  BY ConsoleConstants DEF SerialInv
<1>2. Buffer(sbuf, SERIAL_CAP, Nat)
  BY <1>1 DEF Buffer
<1>3. /\ Serial \in Seq(Nat) /\ Len(Serial) = AheadS(sr, sw) /\ AheadS(sr, sw) \in Nat
      /\ \A k \in 1 .. AheadS(sr, sw) :
           /\ Place(sr, k, SERIAL_CAP) \in Slots(SERIAL_CAP)
           /\ AheadS(sr, Place(sr, k, SERIAL_CAP)) = k - 1
           /\ Serial[k] = sbuf[Place(sr, k, SERIAL_CAP)]
  BY <1>1, <1>2, SerialIs DEF Serial
<1>4. ASSUME NEW k \in 1 .. Len(Serial) PROVE Serial[k] \in 1 .. sent
  <2>1. k - 1 < AheadS(sr, sw) /\ k \in 1 .. AheadS(sr, sw)
    BY <1>3
  <2> QED BY <1>3, <2>1 DEF SerialInv, RingInv
<1>5. Serial \in Seq(1 .. sent)
  <2>1. Len(Serial) \in Nat /\ Serial = [k \in 1 .. Len(Serial) |-> Serial[k]]
    BY <1>3, LenProperties
  <2>2. Serial \in [1 .. Len(Serial) -> 1 .. sent]
    BY <1>4, <2>1
  <2> QED BY <2>1, <2>2, SeqDef
<1>6. InHand \in Seq(1 .. sent)
  <2>1. CASE pc \in Moving
    <3>1. hand \in 1 .. sent
      BY <1>1, <2>1 DEF SerialInv
    <3>2. InHand = <<hand>>
      BY <2>1 DEF InHand, Moving
    <3> QED BY <3>1, <3>2
  <2>2. CASE pc \notin Moving
    <3>1. InHand = << >>
      BY <2>2 DEF InHand, Moving
    <3> QED BY <3>1
  <2> QED BY <2>1, <2>2
<1> QED BY <1>1, <1>2, <1>5, <1>6

\* The queue is a sequence of bytes.
LEMMA QueueIs ==
  ASSUME SerialInv
  PROVE  /\ Queue \in Seq(1 .. sent)
         /\ got \o Serial \in Seq(1 .. sent) /\ got \o Serial \o InHand \in Seq(1 .. sent)
         /\ got \o Serial \in Seq(Nat) /\ got \in Seq(Nat) /\ Serial \in Seq(Nat)
         /\ fifo \in Seq(Nat)
<1>1. got \o Serial \in Seq(1 .. sent)
  BY SerialHolds, ConcatProperties
<1>2. got \o Serial \o InHand \in Seq(1 .. sent)
  BY <1>1, SerialHolds, ConcatProperties
<1>3. Queue \in Seq(1 .. sent)
  BY <1>2, SerialHolds, ConcatProperties DEF Queue
<1>4. \A q \in Seq(1 .. sent) : q \in Seq(Nat)
  BY SerialHolds, SeqMonotonic
<1> QED BY <1>1, <1>2, <1>3, <1>4, SerialHolds

\* The head of what follows goes to the end of the middle part.
LEMMA EmptyMiddle ==
  ASSUME NEW a \in Seq(Nat), NEW b \in Seq(Nat)
  PROVE  a \o << >> \o b = a \o b
BY ConcatEmptySeq

LEMMA OrderInit == Init => OrderInv
<1> SUFFICES ASSUME Init PROVE OrderInv
  OBVIOUS
<1>1. /\ sent = 0 /\ got = << >> /\ fifo = << >> /\ pc = "user" /\ sw = 0 /\ sr = 0
      /\ sbuf = [i \in Slots(SERIAL_CAP) |-> 0]
  BY DEF Init
<1>2. 0 \in Slots(SERIAL_CAP) /\ SERIAL_CAP \in Nat \ {0, 1}
  BY SerialCap DEF Slots
<1>3. Serial = << >>
  <2>1. sbuf \in [Slots(SERIAL_CAP) -> Nat]
    BY <1>1
  <2>2. Held(sbuf, sw, sw, SERIAL_CAP) = << >>
    BY <1>1, <1>2, <2>1, HeldNothing
  <2> QED BY <1>1, <2>2 DEF Serial
<1>4. Queue = << >>
  BY <1>1, <1>3 DEF Queue, InHand
<1>5. Increasing(Queue) /\ 1 .. sent = {}
  BY <1>1, <1>4 DEF Increasing
<1> QED BY <1>1, <1>5 DEF OrderInv

\* A byte arrives at the end.
LEMMA ArriveOrder ==
  ASSUME SerialInv, OrderInv, Arrive
  PROVE  OrderInv'
<1>1. /\ UNCHANGED <<sbuf, sw, sr, pc, slot, hand, got, raced>>
      /\ sent' = sent + 1 /\ sent \in Nat
  BY SerialHolds DEF Arrive, serialRing, readerVars
<1> SUFFICES ASSUME ~raced PROVE OrderInv'
  BY <1>1 DEF OrderInv
<1>2. Serial' = Serial /\ InHand' = InHand
  BY <1>1 DEF Serial, InHand
<1>3. 1 .. sent' = (1 .. sent) \cup {sent + 1}
  BY <1>1
<1> DEFINE front == got \o Serial \o InHand
<1>4. front \in Seq(1 .. sent) /\ Queue = front \o fifo /\ Queue' = front \o fifo'
  BY <1>1, <1>2, QueueIs DEF Queue
<1>5. CASE Len(fifo) < UartFifo
  <2>1. fifo' = Append(fifo, sent + 1) /\ lost' = lost
    BY <1>5 DEF Arrive
  <2> HIDE DEF front
  <2>2. /\ Increasing(front \o Append(fifo, sent + 1))
        /\ ToSet(front \o Append(fifo, sent + 1)) = ToSet(front \o fifo) \cup {sent + 1}
    <3>1. Increasing(front \o fifo) /\ fifo \in Seq(1 .. sent)
      BY <1>4, SerialHolds DEF OrderInv
    <3> QED BY ONLY <1>1, <1>4, <3>1, PutNext
  <2> QED BY <1>1, <1>3, <1>4, <2>1, <2>2 DEF OrderInv
<1>6. CASE ~(Len(fifo) < UartFifo)
  <2>1. fifo' = fifo /\ lost' = lost \cup {sent + 1}
    BY <1>6 DEF Arrive
  <2> QED BY <1>1, <1>3, <1>4, <2>1 DEF OrderInv
<1> QED BY <1>5, <1>6

\* Concatenation can be bracketed either way.
LEMMA Regroup ==
  ASSUME NEW a \in Seq(Nat), NEW b \in Seq(Nat), NEW c \in Seq(Nat)
  PROVE  a \o b \o c = a \o (b \o c)
BY ConcatAssociative

\* The first byte of a queue in two parts goes away.
LEMMA LeaveFront ==
  ASSUME NEW a \in Seq(Nat), NEW b \in Seq(Nat), NEW c \in Seq(Nat), b # << >>,
         Increasing(a \o b \o c)
  PROVE  /\ Increasing(a \o Tail(b) \o c)
         /\ ToSet(a \o b \o c) \subseteq ToSet(a \o Tail(b) \o c) \cup {Head(b)}
<1> DEFINE d == b \o c
<1>1. /\ Tail(b) \in Seq(Nat) /\ Head(b) \in Nat /\ Len(b) \in Nat \ {0} /\ Len(c) \in Nat
      /\ Len(Tail(b)) = Len(b) - 1 /\ \A i \in 1 .. Len(Tail(b)) : Tail(b)[i] = b[i + 1]
  BY HeadTailProperties, LenProperties, EmptySeq
<1>2. d \in Seq(Nat) /\ Len(d) = Len(b) + Len(c) /\ d # << >>
  BY <1>1, ConcatProperties, EmptySeq
<1>3. Head(d) = Head(b)
  BY <1>1, <1>2
<1>4. Tail(d) = Tail(b) \o c
  <2> DEFINE t == Tail(d)
             u == Tail(b) \o c
  <2>1. /\ t \in Seq(Nat) /\ Len(t) = Len(d) - 1 /\ \A i \in 1 .. Len(t) : t[i] = d[i + 1]
    BY <1>2, HeadTailProperties
  <2>2. u \in Seq(Nat) /\ Len(u) = Len(b) - 1 + Len(c)
    BY <1>1, ConcatProperties
  <2>3. ASSUME NEW i \in 1 .. Len(b) - 1 + Len(c) PROVE d[i + 1] = u[i]
    BY <1>1
  <2> HIDE DEF t, u, d
  <2>4. Len(t) = Len(u) /\ Len(t) = Len(b) - 1 + Len(c)
    BY <1>1, <1>2, <2>1, <2>2
  <2>5. \A i \in 1 .. Len(t) : t[i] = u[i]
    BY <2>1, <2>3, <2>4
  <2>6. t = u
    BY ONLY <2>1, <2>2, <2>4, <2>5, SeqEqual
  <2> QED BY <2>6 DEF t, u
<1>5. a \o b \o c = a \o d /\ a \o Tail(b) \o c = a \o Tail(d)
  <2>1. a \o b \o c = a \o (b \o c)
    BY ONLY Regroup, a \in Seq(Nat), b \in Seq(Nat), c \in Seq(Nat)
  <2>2. a \o Tail(b) \o c = a \o (Tail(b) \o c)
    BY ONLY <1>1, Regroup, a \in Seq(Nat), c \in Seq(Nat)
  <2> QED BY <1>4, <2>1, <2>2
<1> HIDE DEF d
<1>6. /\ Increasing(a \o Tail(d))
      /\ ToSet(a \o d) \subseteq ToSet(a \o Tail(d)) \cup {Head(d)}
  <2>1. Increasing(a \o d)
    BY <1>5
  <2> QED BY ONLY <1>2, <2>1, LeaveOut, a \in Seq(Nat)
<1> QED BY <1>3, <1>5, <1>6

\* The oldest byte of the ring is returned, or is not text.
LEMMA PollSerialOrder ==
  ASSUME SerialInv, OrderInv, PollSerial("poll", "drain") \/ PollSerial("again", "keys")
  PROVE  OrderInv'
<1>1. /\ UNCHANGED <<sent, fifo, sbuf, sw, hand, slot, lost, raced>>
      /\ pc \notin Moving /\ pc' \notin Moving
  BY DEF PollSerial, uartVars, Moving
<1> SUFFICES ASSUME ~raced PROVE OrderInv'
  BY <1>1 DEF OrderInv
<1>2. InHand = << >> /\ InHand' = << >>
  BY <1>1 DEF InHand, Moving
<1>3. Queue = got \o Serial \o fifo
  BY <1>2, QueueIs, EmptyMiddle DEF Queue
<1>4. CASE sr = sw
  <2>1. sr' = sr /\ got' = got
    BY <1>4 DEF PollSerial
  <2>2. Queue' = Queue
    BY <1>1, <1>2, <2>1 DEF Queue, Serial
  <2> QED BY <1>1, <2>2 DEF OrderInv, Moving
<1>5. CASE sr # sw
  <2>1. /\ sr' = After(sr, SERIAL_CAP)
        /\ IF sbuf[sr] \in Unprintable THEN got' = got ELSE got' = Append(got, sbuf[sr])
    BY <1>5 DEF PollSerial
  <2>2. Serial # << >> /\ Head(Serial) = sbuf[sr] /\ Serial' = Tail(Serial)
    <3>1. /\ SERIAL_CAP \in Nat \ {0, 1} /\ sbuf \in [Slots(SERIAL_CAP) -> Nat]
          /\ sw \in Slots(SERIAL_CAP) /\ sr \in Slots(SERIAL_CAP)
      BY SerialCap, SerialHolds DEF Buffer
    <3>2. /\ Held(sbuf, sw, sr, SERIAL_CAP) # << >>
          /\ Head(Held(sbuf, sw, sr, SERIAL_CAP)) = sbuf[sr]
          /\ Held(sbuf, sw, After(sr, SERIAL_CAP), SERIAL_CAP)
               = Tail(Held(sbuf, sw, sr, SERIAL_CAP))
      BY <1>5, <3>1, PopRing
    <3> QED BY <1>1, <2>1, <3>2 DEF Serial
  <2>3. /\ got \in Seq(Nat) /\ Serial \in Seq(Nat) /\ fifo \in Seq(Nat)
        /\ Head(Serial) \in Nat /\ Tail(Serial) \in Seq(Nat)
    BY <2>2, QueueIs, HeadTailProperties
  <2>4. CASE sbuf[sr] \in Unprintable
    <3>1. Queue' = got \o Tail(Serial) \o fifo
      <4>1. got \o Tail(Serial) \in Seq(Nat)
        BY <2>3, ConcatProperties
      <4> QED BY <1>1, <1>2, <2>1, <2>2, <2>3, <2>4, <4>1, EmptyMiddle DEF Queue
    <3>2. Increasing(got \o Serial \o fifo)
      BY <1>3 DEF OrderInv
    <3>3. /\ Increasing(got \o Tail(Serial) \o fifo)
          /\ ToSet(got \o Serial \o fifo)
               \subseteq ToSet(got \o Tail(Serial) \o fifo) \cup {Head(Serial)}
      BY ONLY <2>2, <2>3, <3>2, LeaveFront
    <3> QED BY <1>1, <1>3, <2>2, <2>4, <3>1, <3>3 DEF OrderInv, Moving
  <2>5. CASE sbuf[sr] \notin Unprintable
    <3>1. got' \o Serial' = got \o Serial
      BY <2>1, <2>2, <2>3, <2>5, HandOver
    <3>2. Queue' = Queue
      BY <1>1, <1>2, <3>1 DEF Queue
    <3> QED BY <1>1, <3>2 DEF OrderInv, Moving
  <2> QED BY <2>4, <2>5
<1> QED BY <1>4, <1>5

\* A byte goes from the FIFO into the hand.
LEMMA DrainReadOrder ==
  ASSUME SerialInv, OrderInv, DrainRead
  PROVE  OrderInv'
<1>1. UNCHANGED <<sent, sbuf, sw, sr, slot, got, lost, raced>> /\ pc = "drain"
  BY DEF DrainRead, serialRing, history
<1> SUFFICES ASSUME ~raced PROVE OrderInv'
  BY <1>1 DEF OrderInv
<1>2. Serial' = Serial /\ InHand = << >>
  BY <1>1 DEF Serial, InHand
<1>3. CASE fifo = << >>
  <2>1. fifo' = fifo /\ hand' = hand /\ pc' = "again"
    BY <1>3 DEF DrainRead
  <2>2. InHand' = << >>
    BY <2>1 DEF InHand
  <2>3. Queue' = Queue
    BY <1>1, <1>2, <2>1, <2>2 DEF Queue
  <2> QED BY <1>1, <2>1, <2>3 DEF OrderInv
<1>4. CASE fifo # << >>
  <2>1. fifo' = Tail(fifo) /\ hand' = Head(fifo) /\ pc' = "hand"
    BY <1>4 DEF DrainRead
  <2> DEFINE front == got \o Serial
  <2>2. front \in Seq(Nat) /\ fifo \in Seq(Nat) /\ Head(fifo) \in Nat
    BY <1>4, QueueIs, HeadTailProperties
  <2>3. Queue = front \o fifo
    BY <1>2, QueueIs, EmptyMiddle DEF Queue
  <2>4. Queue' = front \o <<Head(fifo)>> \o Tail(fifo)
    <3>1. InHand' = <<Head(fifo)>>
      BY <2>1 DEF InHand
    <3> QED BY <1>1, <1>2, <2>1, <3>1 DEF Queue
  <2> HIDE DEF front
  <2>5. front \o <<Head(fifo)>> = Append(front, Head(fifo))
    BY ONLY <2>2, AppendIsConcat
  <2>6. Append(front, Head(fifo)) \o Tail(fifo) = front \o fifo
    BY ONLY <1>4, <2>2, HandOver
  <2>7. Queue' = Queue
    BY <2>3, <2>4, <2>5, <2>6
  <2> QED BY <1>1, <2>1, <2>7 DEF OrderInv
<1> QED BY <1>3, <1>4

\* A full ring loses it.
LEMMA DrainCheckOrder ==
  ASSUME SerialInv, OrderInv, DrainCheck
  PROVE  OrderInv'
<1>1. UNCHANGED <<sent, fifo, sbuf, sw, sr, got, raced>> /\ pc = "hand"
  BY DEF DrainCheck, uartVars, serialRing
<1> SUFFICES ASSUME ~raced PROVE OrderInv'
  BY <1>1 DEF OrderInv
<1>2. Serial' = Serial /\ InHand = <<hand>>
  BY <1>1 DEF Serial, InHand
<1>3. CASE pc' = "store"
  <2>1. slot' = sw /\ lost' = lost /\ hand' = hand
    BY <1>3 DEF DrainCheck
  <2>2. InHand' = InHand
    BY <1>2, <1>3, <2>1 DEF InHand
  <2>3. Queue' = Queue
    BY <1>1, <1>2, <2>2 DEF Queue
  <2> QED BY <1>1, <1>3, <2>1, <2>3 DEF OrderInv
<1>4. CASE pc' # "store"
  <2>1. lost' = lost \cup {hand} /\ hand' = 0 /\ pc' = "again"
    BY <1>4 DEF DrainCheck
  <2>2. InHand' = << >>
    BY <2>1 DEF InHand
  <2> DEFINE front == got \o Serial
             b == <<hand>>
  <2>3. front \in Seq(Nat) /\ fifo \in Seq(Nat) /\ hand \in Nat
    BY QueueIs, Places
  <2>4. b \in Seq(Nat) /\ b # << >> /\ Head(b) = hand /\ Tail(b) = << >>
    BY <2>3
  <2>5. Queue = front \o b \o fifo /\ Queue' = front \o Tail(b) \o fifo
    BY <1>1, <1>2, <2>2, <2>4 DEF Queue
  <2> HIDE DEF front, b
  <2>6. Increasing(front \o b \o fifo)
    BY <2>5 DEF OrderInv
  <2>7. /\ Increasing(front \o Tail(b) \o fifo)
        /\ ToSet(front \o b \o fifo) \subseteq ToSet(front \o Tail(b) \o fifo) \cup {Head(b)}
    BY ONLY <2>3, <2>4, <2>6, LeaveFront
  <2> QED BY <1>1, <2>1, <2>4, <2>5, <2>7 DEF OrderInv
<1> QED BY <1>3, <1>4

\* It is stored in the slot after the ring's last.
LEMMA DrainStoreOrder ==
  ASSUME SerialInv, SerialInv', OrderInv, DrainStore
  PROVE  OrderInv'
<1>1. /\ UNCHANGED <<sent, fifo, sw, sr, slot, hand, got, lost, raced>>
      /\ pc = "store" /\ pc' = "publish" /\ sbuf' = [sbuf EXCEPT ![slot] = hand]
  BY DEF DrainStore, Goto, uartVars, history
<1> SUFFICES ASSUME ~raced PROVE OrderInv'
  BY <1>1 DEF OrderInv
<1>2. slot = sw /\ sw \in Slots(SERIAL_CAP) /\ sr \in Slots(SERIAL_CAP)
  BY <1>1, SerialHolds DEF OrderInv
<1>3. sbuf'[slot] = hand /\ \A i \in Slots(SERIAL_CAP) : i # slot => sbuf'[i] = sbuf[i]
  BY <1>1, <1>2 DEF SerialInv
<1>4. Buffer(sbuf, SERIAL_CAP, Nat) /\ Buffer(sbuf', SERIAL_CAP, Nat)
  <2>1. sbuf' \in [Slots(SERIAL_CAP) -> Nat]
    BY <1>1 DEF SerialInv
  <2> QED BY <2>1, SerialHolds DEF Buffer
<1> DEFINE old == Held(sbuf, sw, sr, SERIAL_CAP)
           new == Held(sbuf', sw, sr, SERIAL_CAP)
<1>5. /\ old \in Seq(Nat) /\ Len(old) = AheadS(sr, sw)
      /\ \A k \in 1 .. AheadS(sr, sw) :
           /\ Place(sr, k, SERIAL_CAP) \in Slots(SERIAL_CAP)
           /\ AheadS(sr, Place(sr, k, SERIAL_CAP)) = k - 1
           /\ old[k] = sbuf[Place(sr, k, SERIAL_CAP)]
  BY <1>2, <1>4, SerialIs
<1>6. /\ new \in Seq(Nat) /\ Len(new) = AheadS(sr, sw) /\ AheadS(sr, sw) \in Nat
      /\ \A k \in 1 .. AheadS(sr, sw) : new[k] = sbuf'[Place(sr, k, SERIAL_CAP)]
  BY <1>2, <1>4, SerialIs
<1>7. Serial = old /\ Serial' = new
  BY <1>1 DEF Serial
<1> HIDE DEF old, new
<1>8. ASSUME NEW k \in 1 .. AheadS(sr, sw) PROVE new[k] = old[k]
  <2>1. AheadS(sr, Place(sr, k, SERIAL_CAP)) # AheadS(sr, sw)
    BY <1>5, <1>6
  <2>2. Place(sr, k, SERIAL_CAP) # slot
    BY <1>2, <2>1
  <2> QED BY <1>3, <1>5, <1>6, <2>2
<1>9. new = old
  BY <1>5, <1>6, <1>8, SeqEqual
<1>10. InHand' = InHand
  BY <1>1 DEF InHand
<1>11. Queue' = Queue
  BY <1>1, <1>7, <1>9, <1>10 DEF Queue
<1> QED BY <1>1, <1>2, <1>3, <1>11 DEF OrderInv

\* It becomes the ring's last.
LEMMA DrainPublishOrder ==
  ASSUME SerialInv, SerialInv', OrderInv, DrainPublish
  PROVE  OrderInv'
<1>1. /\ UNCHANGED <<sent, fifo, sbuf, sr, got, lost, raced>>
      /\ pc = "publish" /\ pc' = "drain" /\ sw' = After(slot, SERIAL_CAP)
  BY DEF DrainPublish, Goto, uartVars, history
<1> SUFFICES ASSUME ~raced PROVE OrderInv'
  BY <1>1 DEF OrderInv
<1>2. /\ slot = sw /\ sbuf[sw] = hand /\ sw' # sr
      /\ sw \in Slots(SERIAL_CAP) /\ sr \in Slots(SERIAL_CAP)
      /\ Buffer(sbuf, SERIAL_CAP, Nat)
  BY <1>1, SerialHolds DEF OrderInv, SerialInv, RingInv
<1>3. sw' \in Slots(SERIAL_CAP) /\ sw' = IF sw + 1 < SERIAL_CAP THEN sw + 1 ELSE 0
  BY <1>1, <1>2, SerialCap, AfterIs
<1> DEFINE old == Held(sbuf, sw, sr, SERIAL_CAP)
           new == Held(sbuf, sw', sr, SERIAL_CAP)
           n == AheadS(sr, sw)
<1>4. /\ old \in Seq(Nat) /\ Len(old) = n /\ n \in Nat
      /\ \A k \in 1 .. n : old[k] = sbuf[Place(sr, k, SERIAL_CAP)]
  BY <1>2, SerialIs
<1>5. /\ new \in Seq(Nat) /\ Len(new) = AheadS(sr, sw')
      /\ \A k \in 1 .. AheadS(sr, sw') : new[k] = sbuf[Place(sr, k, SERIAL_CAP)]
  BY <1>2, <1>3, SerialIs
<1>6. /\ sw \in Nat /\ sw < SERIAL_CAP /\ sr \in Nat /\ sr < SERIAL_CAP
      /\ SERIAL_CAP \in Nat
      /\ n = IF sw >= sr THEN sw - sr ELSE sw + SERIAL_CAP - sr
  BY <1>2, SlotIs
<1>7. AheadS(sr, sw') = IF sw' >= sr THEN sw' - sr ELSE sw' + SERIAL_CAP - sr
  BY <1>2, <1>3, SerialCap, AheadIs DEF AheadS
<1>8. Serial = old /\ Serial' = new
  BY <1>1 DEF Serial
<1> HIDE DEF old, new, n
<1>9. AheadS(sr, sw') = n + 1 /\ Place(sr, n + 1, SERIAL_CAP) = sw
  BY ONLY <1>2, <1>3, <1>6, <1>7 DEF Place
<1>10. hand \in Nat
  BY Places
<1>11. new = Append(old, hand)
  <2> DEFINE t == Append(old, hand)
  <2>1. /\ t \in Seq(Nat) /\ Len(t) = n + 1 /\ t[n + 1] = hand
        /\ \A k \in 1 .. n : t[k] = old[k]
    BY <1>4, <1>10, AppendProperties
  <2>2. ASSUME NEW k \in 1 .. n + 1 PROVE new[k] = t[k]
    <3>1. CASE k = n + 1
      BY <1>2, <1>5, <1>9, <2>1, <3>1
    <3>2. CASE k # n + 1
      <4>1. k \in 1 .. n
        BY ONLY <1>4, <3>2, k \in 1 .. n + 1
      <4> QED BY <1>4, <1>5, <1>9, <2>1, <4>1
    <3> QED BY <3>1, <3>2
  <2> HIDE DEF t
  <2>3. new = t
    BY ONLY <1>5, <1>9, <2>1, <2>2, SeqEqual
  <2> QED BY <2>3 DEF t
<1>12. Serial' = Serial \o InHand
  <2>1. InHand = <<hand>>
    BY <1>1 DEF InHand
  <2>2. Append(old, hand) = old \o <<hand>>
    BY ONLY <1>4, <1>10, AppendIsConcat
  <2> QED BY <1>8, <1>11, <2>1, <2>2
<1>13. InHand' = << >>
  BY <1>1 DEF InHand
<1>14. Queue' = Queue
  <2>1. got \in Seq(Nat) /\ Serial \in Seq(Nat) /\ InHand \in Seq(Nat)
    BY QueueIs, SerialHolds, SeqMonotonic
  <2>2. got \o (Serial \o InHand) = got \o Serial \o InHand
    BY ONLY <2>1, Regroup
  <2>3. got \o Serial \o InHand \in Seq(Nat)
    BY ONLY <2>1, ConcatProperties
  <2>4. (got \o Serial \o InHand) \o << >> = got \o Serial \o InHand
    BY ONLY <2>3, ConcatEmptySeq
  <2> QED BY <1>1, <1>12, <1>13, <2>2, <2>4 DEF Queue
<1> QED BY <1>1, <1>14 DEF OrderInv

\* What the handler moves is appended to what the ring holds.
LEMMA HandlerAppends ==
  ASSUME SerialInv, SerialInv', SerialIrq
  PROVE  Serial' = Serial \o SubSeq(fifo, 1, Moved)
<1> DEFINE d == AheadS(sr, sw)
           l == Len(fifo)
           n == Moved
           front == SubSeq(fifo, 1, n)
           old == Serial
           new == Serial'
<1>1. sr' = sr
  BY DEF SerialIrq
<1>2. /\ n \in Nat /\ n <= l /\ l \in Nat
      /\ AheadS(sr, sw') = d + n /\ sw' \in Slots(SERIAL_CAP)
  BY SerialIrqMoves, Places
<1>3. /\ old \in Seq(Nat) /\ Len(old) = d /\ d \in Nat
      /\ \A k \in 1 .. d : old[k] = sbuf[Place(sr, k, SERIAL_CAP)]
  BY SerialHolds, SerialIs DEF Serial
<1>4. /\ new \in Seq(Nat) /\ Len(new) = AheadS(sr, sw')
      /\ \A k \in 1 .. AheadS(sr, sw') :
           /\ Place(sr, k, SERIAL_CAP) \in Slots(SERIAL_CAP)
           /\ AheadS(sr, Place(sr, k, SERIAL_CAP)) = k - 1
           /\ new[k] = sbuf'[Place(sr, k, SERIAL_CAP)]
  <2>1. Buffer(sbuf', SERIAL_CAP, Nat)
    <3>1. sbuf' \in [Slots(SERIAL_CAP) -> 0 .. sent'] /\ sent' \in Nat
      BY ConsoleConstants DEF SerialInv
    <3> QED BY <3>1 DEF Buffer
  <2>2. sr \in Slots(SERIAL_CAP)
    BY SerialHolds
  <2>3. new = Held(sbuf', sw', sr, SERIAL_CAP)
    BY <1>1 DEF Serial
  <2> QED BY <1>2, <2>1, <2>2, <2>3, SerialIs
<1>5. /\ front \in Seq(Nat) /\ Len(front) = n /\ \A k \in 1 .. n : front[k] = fifo[k]
  <2>1. ASSUME NEW k \in 1 .. n PROVE fifo[k] \in Nat
    <3>1. k \in DOMAIN fifo
      BY <1>2, Places
    <3> QED BY <3>1, Places
  <2>2. /\ front \in Seq(Nat)
        /\ Len(front) = IF 1 <= n THEN n - 1 + 1 ELSE 0
        /\ \A k \in 1 .. n - 1 + 1 : front[k] = fifo[1 + k - 1]
    BY <1>2, <2>1, SubSeqProperties
  <2> HIDE DEF front, n
  <2>3. Len(front) = n
    BY ONLY <1>2, <2>2
  <2>4. ASSUME NEW k \in 1 .. n PROVE front[k] = fifo[k]
    <3>1. k \in 1 .. n - 1 + 1 /\ 1 + k - 1 = k
      BY <1>2
    <3> QED BY <2>2, <3>1
  <2> QED BY <2>2, <2>3, <2>4
<1>6. /\ old \o front \in Seq(Nat) /\ Len(old \o front) = d + n
      /\ \A k \in 1 .. d + n : (old \o front)[k] = IF k <= d THEN old[k] ELSE front[k - d]
  <2> HIDE DEF d, n, l, old, new, front
  <2>1. old \in Seq(Nat) /\ front \in Seq(Nat)
    BY <1>3, <1>5
  <2>2. /\ old \o front \in Seq(Nat) /\ Len(old \o front) = Len(old) + Len(front)
        /\ \A k \in 1 .. Len(old) + Len(front) :
             (old \o front)[k] = IF k <= Len(old) THEN old[k] ELSE front[k - Len(old)]
    BY ONLY <2>1, ConcatProperties
  <2> QED BY <1>3, <1>5, <2>2
<1>7. ASSUME NEW k \in 1 .. d + n PROVE new[k] = (old \o front)[k]
  <2> DEFINE i == Place(sr, k, SERIAL_CAP)
  <2>1. /\ i \in Slots(SERIAL_CAP) /\ AheadS(sr, i) = k - 1 /\ new[k] = sbuf'[i]
        /\ AheadS(sr, i) < AheadS(sr, sw')
    BY <1>2, <1>3, <1>4
  <2>2. k <= d => old[k] = sbuf[i]
    BY <1>3
  <2> HIDE DEF i, d, n, l, old, new, front
  <2>3. \/ /\ AheadS(sr, i) < d
           /\ sbuf'[i] = sbuf[i]
        \/ /\ AheadS(sw, i) = AheadS(sr, i) - d
           /\ AheadS(sw, i) + 1 \in 1 .. n
           /\ sbuf'[i] = fifo[AheadS(sw, i) + 1]
    BY <2>1, HandlerSlot DEF d, n
  <2>4. CASE AheadS(sr, i) < d /\ sbuf'[i] = sbuf[i]
    <3>1. k <= d
      BY <1>2, <1>3, <2>1, <2>4
    <3> QED BY <1>6, <2>1, <2>2, <2>4, <3>1
  <2>5. CASE /\ AheadS(sw, i) = AheadS(sr, i) - d /\ AheadS(sw, i) + 1 \in 1 .. n
             /\ sbuf'[i] = fifo[AheadS(sw, i) + 1]
    <3>1. AheadS(sw, i) + 1 = k - d /\ k - d \in 1 .. n /\ ~(k <= d)
      BY <1>2, <1>3, <2>1, <2>5
    <3> QED BY <1>5, <1>6, <2>1, <2>5, <3>1
  <2> QED BY <2>3, <2>4, <2>5
<1> HIDE DEF d, n, l, old, new, front
<1>8. Len(new) = Len(old \o front) /\ \A k \in 1 .. Len(new) : new[k] = (old \o front)[k]
  BY <1>2, <1>4, <1>6, <1>7
<1>9. new = old \o front
  BY ONLY <1>4, <1>6, <1>8, SeqEqual
<1> QED BY <1>9 DEF old, new, front, n

\* The handler keeps the order, unless it races.
LEMMA SerialIrqOrder ==
  ASSUME SerialInv, SerialInv', OrderInv, SerialIrq
  PROVE  OrderInv'
<1>1. /\ UNCHANGED <<sent, sr, slot, hand, got>>
      /\ (pc' = pc \/ (pc' = "poll" /\ pc = "halted"))
      /\ raced' = (raced \/ (pc \in Moving /\ fifo # << >>))
  BY DEF SerialIrq, Awake, Moving
<1> SUFFICES ASSUME ~raced' PROVE OrderInv'
  BY DEF OrderInv
<1>2. ~raced /\ (pc \notin Moving \/ fifo = << >>)
  BY <1>1
<1>3. /\ Moved \in Nat /\ Moved <= Len(fifo) /\ Len(fifo) \in Nat /\ fifo \in Seq(Nat)
      /\ AheadS(sr, sw') = AheadS(sr, sw) + Moved
  BY SerialIrqMoves, Places, QueueIs
<1>4. InHand' = InHand
  BY <1>1 DEF InHand
<1>5. CASE Moved = Len(fifo)
  <2>1. lost' = lost /\ fifo' = << >>
    BY <1>5, SerialIrqMoves
  <2>2. Serial' = Serial \o fifo
    <3>1. SubSeq(fifo, 1, Moved) = fifo
      BY <1>3, <1>5, SubSeqFull
    <3> QED BY <3>1, HandlerAppends
  <2>3. got \in Seq(Nat) /\ Serial \in Seq(Nat) /\ InHand \in Seq(Nat) /\ fifo \in Seq(Nat)
    BY QueueIs, SerialHolds, SeqMonotonic
  <2>4. Queue' = Queue
    <3>1. CASE fifo = << >>
      <4>1. Serial' = Serial
        BY <2>2, <2>3, <3>1, ConcatEmptySeq
      <4> QED BY <1>1, <1>4, <2>1, <3>1, <4>1 DEF Queue
    <3>2. CASE fifo # << >>
      <4>1. InHand = << >>
        BY <1>2, <3>2 DEF InHand, Moving
      <4>2. got \o Serial \o fifo \in Seq(Nat) /\ got \o Serial \in Seq(Nat)
        BY <2>3, ConcatProperties
      <4>3. got \o (Serial \o fifo) = got \o Serial \o fifo
        <5>1. got \in Seq(Nat) /\ Serial \in Seq(Nat) /\ fifo \in Seq(Nat)
          BY <2>3
        <5> QED BY ONLY <5>1, Regroup
      <4>4. Queue = got \o Serial \o fifo
        BY ONLY <2>3, <4>1, <4>2, EmptyMiddle DEF Queue
      <4>5. Queue' = (got \o Serial \o fifo) \o << >> \o << >>
        BY <1>1, <1>4, <2>1, <2>2, <4>1, <4>3 DEF Queue
      <4>6. Queue' = got \o Serial \o fifo
        BY ONLY <4>2, <4>5, ConcatEmptySeq
      <4> QED BY <4>4, <4>6
    <3> QED BY <3>1, <3>2
  <2>5. pc' = "publish" \/ pc' = "store" => sw' = sw /\ sbuf'[slot] = sbuf[slot]
    <3> SUFFICES ASSUME pc' = "publish" \/ pc' = "store"
                 PROVE  sw' = sw /\ sbuf'[slot] = sbuf[slot]
      OBVIOUS
    <3>1. fifo = << >> /\ pc' = pc /\ pc \in Moving
      BY <1>1, <1>2 DEF Moving
    <3>2. Moved = 0
      BY <1>3, <3>1
    <3>3. sw' \in Slots(SERIAL_CAP) /\ slot \in Slots(SERIAL_CAP) /\ sw \in Slots(SERIAL_CAP)
      BY SerialIrqMoves DEF SerialInv
    <3>4. AheadS(sr, sw') = AheadS(sr, sw)
      <4>1. AheadS(sr, sw) \in Nat
        BY <3>3, SlotIs
      <4> QED BY <1>3, <3>2, <4>1
    <3>5. sw' = sw
      <4>1. sr \in Slots(SERIAL_CAP)
        BY SerialHolds
      <4> QED BY ONLY <3>3, <3>4, <4>1, SameDistance
    <3>6. sbuf'[slot] = sbuf[slot]
      <4>1. AheadS(sw, slot) \in Nat
        BY <3>3, SlotIs
      <4>2. ~(AheadS(sw, slot) < Moved)
        BY <3>2, <4>1
      <4> QED BY <3>3, <4>2, SerialIrqMoves
    <3> QED BY <3>5, <3>6
  <2>6. pc' \in {"store", "publish"} => slot' = sw'
    BY <1>1, <1>2, <2>5 DEF OrderInv
  <2>7. pc' = "publish" => sbuf'[slot'] = hand'
    BY <1>1, <1>2, <2>5 DEF OrderInv
  <2> QED BY <1>1, <1>2, <2>1, <2>4, <2>6, <2>7 DEF OrderInv
<1>6. CASE Moved # Len(fifo)
  <2> DEFINE l == Len(fifo)
             n == Moved
             x == got \o Serial
             b == SubSeq(fifo, n + 1, l)
             f == SubSeq(fifo, 1, n)
  <2>1. l \in Nat /\ n \in Nat /\ n < l /\ n + 1 \in 1 .. l /\ l \in n + 1 .. l
    BY <1>3, <1>6
  <2>2. lost' = lost \cup {fifo[n + 1]} /\ fifo' = SubSeq(fifo, n + 1 + 1, l)
    <3>1. n + 1 + 1 = n + 2
      BY <2>1
    <3> QED BY <2>1, <3>1, SerialIrqMoves
  <2>3. pc \notin Moving /\ pc' \notin Moving
    <3>1. fifo # << >>
      BY <1>3, <2>1, EmptySeq
    <3> QED BY <1>1, <1>2, <3>1 DEF Moving
  <2>4. InHand = << >> /\ InHand' = << >>
    BY <1>4, <2>3 DEF InHand, Moving
  <2>5. x \in Seq(Nat) /\ got \in Seq(Nat) /\ Serial \in Seq(Nat) /\ fifo \in Seq(Nat)
    BY QueueIs
  <2> HIDE DEF x, b, f, l, n
  <2>6. Head(b) = fifo[n + 1] /\ Tail(b) = SubSeq(fifo, n + 1 + 1, l)
    BY <2>1, <2>5, HeadTailOfSubSeq DEF b, l
  <2>7. \A j \in 1 .. l : fifo[j] \in Nat
    BY <2>5, ElementOfSeq DEF l
  <2>8. b \in Seq(Nat) /\ Len(b) = l - n /\ b # << >>
    <3>1. \A j \in n + 1 .. l : fifo[j] \in Nat
      BY <2>1, <2>7
    <3>2. n + 1 \in Int /\ l \in Int
      BY <2>1
    <3>3. b \in Seq(Nat) /\ Len(b) = IF n + 1 <= l THEN l - (n + 1) + 1 ELSE 0
      BY ONLY <3>1, <3>2, SubSeqProperties DEF b
    <3>4. Len(b) = l - n /\ l - n # 0
      BY ONLY <2>1, <3>3
    <3> QED BY <3>3, <3>4, EmptySeq
  <2>9. f \in Seq(Nat)
    <3>1. \A j \in 1 .. n : fifo[j] \in Nat
      BY <2>1, <2>7
    <3>2. 1 \in Int /\ n \in Int
      BY <2>1
    <3> QED BY ONLY <3>1, <3>2, SubSeqProperties DEF f
  <2>10. f \o b = fifo
    <3>1. 1 \in 1 .. l + 1 /\ n \in 1 - 1 .. l /\ l \in n .. l
      BY <2>1
    <3>2. SubSeq(fifo, 1, n) \o SubSeq(fifo, n + 1, l) = SubSeq(fifo, 1, l)
      BY ONLY <2>5, <3>1, ConcatAdjacentSubSeq DEF l
    <3>3. SubSeq(fifo, 1, l) = fifo
      BY ONLY <2>5, SubSeqFull DEF l
    <3> QED BY <3>2, <3>3 DEF f, b
  <2> DEFINE a == x \o f
  <2>11. a \in Seq(Nat)
    BY <2>5, <2>9, ConcatProperties
  <2>12. Queue = a \o b
    <3>1. Queue = x \o fifo
      BY <2>4, <2>5, EmptyMiddle DEF Queue, x
    <3>2. a \o b = x \o (f \o b)
      <4>1. x \in Seq(Nat) /\ f \in Seq(Nat) /\ b \in Seq(Nat)
        BY <2>5, <2>8, <2>9
      <4> QED BY ONLY <4>1, Regroup
    <3> QED BY <2>10, <3>1, <3>2
  <2>13. Queue' = a \o Tail(b)
    <3>1. Serial' = Serial \o f
      BY HandlerAppends DEF f, n
    <3>2. got \o (Serial \o f) = a
      <4>1. got \in Seq(Nat) /\ Serial \in Seq(Nat) /\ f \in Seq(Nat)
        BY <2>5, <2>9
      <4>2. got \o (Serial \o f) = (got \o Serial) \o f
        BY ONLY <4>1, Regroup
      <4> QED BY <4>2 DEF x
    <3>3. Queue' = a \o << >> \o Tail(b)
      BY <1>1, <2>2, <2>4, <2>6, <3>1, <3>2 DEF Queue
    <3>4. Tail(b) \in Seq(Nat)
      BY ONLY <2>8, HeadTailProperties
    <3> QED BY ONLY <2>11, <3>3, <3>4, EmptyMiddle
  <2> HIDE DEF a
  <2>14. Increasing(a \o b)
    BY <1>2, <2>12 DEF OrderInv
  <2>15. Increasing(a \o Tail(b)) /\ ToSet(a \o b) \subseteq ToSet(a \o Tail(b)) \cup {Head(b)}
    BY ONLY <2>8, <2>11, <2>14, LeaveOut
  <2> QED BY <1>1, <1>2, <2>2, <2>3, <2>6, <2>12, <2>13, <2>15 DEF OrderInv, Moving
<1> QED BY <1>5, <1>6

LEMMA OrderFrame ==
  ASSUME OrderInv, UNCHANGED <<sent, fifo, sbuf, sw, sr, hand, slot, got, lost, raced>>,
         pc' = pc \/ (pc \notin Moving /\ pc' \notin Moving)
  PROVE  OrderInv'
<1>1. Serial' = Serial /\ InHand' = InHand
  BY DEF Serial, InHand, Moving
<1>2. Queue' = Queue
  BY <1>1 DEF Queue
<1> QED BY <1>2 DEF OrderInv, Moving

LEMMA OrderStep ==
  ASSUME SerialInv, SerialInv', OrderInv, [Next]_vars
  PROVE  OrderInv'
<1>1. CASE Arrive
  BY <1>1, ArriveOrder
<1>2. CASE SerialIrq
  BY <1>2, SerialIrqOrder
<1>3. CASE PollSerial("poll", "drain") \/ PollSerial("again", "keys")
  BY <1>3, PollSerialOrder
<1>4. CASE DrainRead \/ DrainCheck
  BY <1>4, DrainReadOrder, DrainCheckOrder
<1>5. CASE DrainStore \/ DrainPublish
  BY <1>5, DrainStoreOrder, DrainPublishOrder
<1>6. CASE KeyboardIrq \/ Timer \/ Read \/ PollKeyboard
  <2>1. UNCHANGED <<sent, fifo, sbuf, sw, sr, hand, slot, got, lost, raced>>
    BY <1>6 DEF KeyboardIrq, Timer, Read, PollKeyboard, uartVars, serialRing, history
  <2>2. pc' = pc \/ (pc \notin Moving /\ pc' \notin Moving)
    BY <1>6 DEF KeyboardIrq, Timer, Read, PollKeyboard, Goto, Awake, Moving
  <2> QED BY <2>1, <2>2, OrderFrame
<1>7. CASE Halt \/ Return \/ ReadLine \/ UNCHANGED vars
  <2>1. UNCHANGED <<sent, fifo, sbuf, sw, sr, hand, slot, got, lost, raced>>
    BY <1>7 DEF Halt, Return, ReadLine, vars, uartVars, serialRing, readerVars, history
  <2>2. pc' = pc \/ (pc \notin Moving /\ pc' \notin Moving)
    BY <1>7 DEF Halt, Return, ReadLine, vars, readerVars, Goto, Moving
  <2> QED BY <2>1, <2>2, OrderFrame
<1> QED BY <1>1, <1>2, <1>3, <1>4, <1>5, <1>6, <1>7 DEF Next, Reader

\* The invariant of the serial port: types, one place for each byte, and order.
PortInv == SerialInv /\ OnceInv /\ OrderInv

\* It holds in every reachable state, whatever the sizes.
THEOREM PortInvariant == Spec => []PortInv
<1>1. Init => PortInv
  BY SerialInit, OnceInit, OrderInit DEF PortInv
<1>2. PortInv /\ [Next]_vars => PortInv'
  BY SerialStep, OnceStep, OrderStep DEF PortInv
<1> QED BY <1>1, <1>2, PTL DEF Spec

\* For rings and FIFOs of every size serial bytes reach the reader in the order
\* they were sent and only a full ring or FIFO loses one, unless the handler has
\* run between the steps in which drain_receiver moves a byte; and even then no
\* byte is delivered twice, and none that was counted as lost.
THEOREM SerialIsFaithful == Spec => []SerialFaithful
<1>1. PortInv => SerialFaithful
  <2> SUFFICES ASSUME PortInv PROVE SerialFaithful
    OBVIOUS
  <2>1. ToSet(got) \cap lost = {}
    BY DEF PortInv, OnceInv, GotOnce, ToSet
  <2> QED BY <2>1 DEF PortInv, OnceInv, GotOnce, OrderInv, Queue, SerialFaithful
<1> QED BY <1>1, PortInvariant, PTL
=============================================================================
