------------------------ MODULE ProgramLoaderProofs -------------------------
(***************************************************************************)
(* Proofs about the loading of a file (ProgramLoader), for memories of any *)
(* size, files of any bytes and any order of the writes.                   *)
(*                                                                         *)
(* LoadInv is inductive: chunks are disjoint and not empty, they agree with *)
(* the flat buffer, and until something is written over another chunk every *)
(* byte of the buffer that is not zero is in one of them.  The work is in  *)
(* one write: Cut says what insertion leaves of a chunk.                   *)
(***************************************************************************)
EXTENDS ProgramLoader, WellFoundedInduction, TLAPS

\* A non-empty set of numbers has a least one
LEMMA Least ==
  ASSUME NEW T \in SUBSET Nat, T # {}
  PROVE  \E x \in T : \A y \in T : x <= y
<1> DEFINE Less == {ss \in Nat \X Nat : ss[1] < ss[2]}
<1>1. IsWellFoundedOn(Less, Nat)
  BY NatLessThanWellFounded DEF OpToRel
<1>2. \A y, x \in Nat : <<y, x>> \in Less <=> y < x
  OBVIOUS
<1> HIDE DEF Less
<1>3. PICK x \in T : \A y \in T : ~(<<y, x>> \in Less)
  BY <1>1, WFMin
<1>4. T \subseteq Nat
  OBVIOUS
<1>5. \A y \in T : ~(y < x)
  BY <1>2, <1>3, <1>4
<1>6. \A y \in T : x <= y
  BY <1>4, <1>5
<1> QED
  BY <1>6

LEMMA LowestIs ==
  ASSUME NEW T \in SUBSET Nat, T # {}
  PROVE  Lowest(T) \in T /\ \A b \in T : Lowest(T) <= b
BY Least DEF Lowest

LEMMA HighestIs ==
  ASSUME NEW n \in Nat, NEW T \in SUBSET (0..n), T # {}
  PROVE  Highest(T) \in T /\ \A b \in T : b <= Highest(T)
<1> DEFINE U == {n - a : a \in T}
<1>0. \A b \in T : b \in 0..n /\ n - b \in Nat
  OBVIOUS
<1>1. U \in SUBSET Nat /\ U # {}
  BY <1>0
<1>2. PICK x \in U : \A y \in U : x <= y
  BY <1>1, Least
<1>3. PICK a \in T : x = n - a
  BY <1>2
<1>4. \A b \in T : n - b \in U
  OBVIOUS
<1>5. \A b \in T : n - a <= n - b
  BY <1>2, <1>3, <1>4
<1>6. \A b \in T : b <= a
  BY <1>5, <1>0
<1> QED
  BY <1>6 DEF Highest

Ends(segs, s) == s + Len(segs[s])

\* Chunks: not empty, within the address space, one behind the other
Chunked(segs) ==
  /\ DOMAIN segs \subseteq Locations
  /\ segs = [s \in DOMAIN segs |-> segs[s]]
  /\ \A s \in DOMAIN segs : segs[s] \in Seq(BYTES) /\ Len(segs[s]) > 0 /\ Ends(segs, s) <= SIZE
  /\ \A s, t \in DOMAIN segs : s < t => Ends(segs, s) <= t

Agree(segs, buf) ==
  \A s \in DOMAIN segs : \A i \in 1..Len(segs[s]) : segs[s][i] = buf[s + i - 1]

\* No chunk is in front of paddr and reaches beyond it
LEMMA Shrunk ==
  ASSUME NEW segs, Chunked(segs), NEW paddr \in Locations
  PROVE  LET n == ShrinkPrevious(segs, paddr)
         IN /\ DOMAIN n = DOMAIN segs
            /\ \A s \in DOMAIN segs : s >= paddr => n[s] = segs[s]
            /\ \A s \in DOMAIN segs : s < paddr =>
                 /\ n[s] \in Seq(BYTES) /\ Len(n[s]) > 0
                 /\ Ends(n, s) <= paddr /\ Ends(n, s) <= Ends(segs, s)
                 /\ \A i \in 1..Len(n[s]) : n[s][i] = segs[s][i]
<1> DEFINE before == {a \in DOMAIN segs : a < paddr}
           prev == Highest(before)
           n == ShrinkPrevious(segs, paddr)
<1>0. DOMAIN segs \subseteq Locations /\ SIZE \in Nat \ {0}
  BY LoaderAssumption DEF Chunked
<1>1. CASE before = {}
  <2>1. n = segs
    BY <1>1 DEF ShrinkPrevious
  <2>2. \A s \in DOMAIN segs : ~(s < paddr)
    BY <1>1
  <2> QED
    BY <2>1, <2>2
<1>2. CASE before # {}
  <2>1. prev \in before /\ \A b \in before : b <= prev
    <3>1. before \in SUBSET (0..(SIZE - 1)) /\ SIZE - 1 \in Nat
      BY <1>0 DEF Locations
    <3> HIDE DEF before
    <3> QED
      BY <3>1, <1>2, HighestIs
  <2> HIDE DEF prev
  <2>2. \A s \in DOMAIN segs : s < paddr /\ s # prev => Ends(segs, s) <= prev
    <3> TAKE s \in DOMAIN segs
    <3> HAVE s < paddr /\ s # prev
    <3>1. s <= prev /\ s \in Int /\ prev \in Int /\ prev \in DOMAIN segs
      BY <2>1, <1>0 DEF Locations
    <3> QED
      BY <3>1 DEF Chunked
  <2>3. \A s \in DOMAIN segs : s \in Nat /\ segs[s] \in Seq(BYTES) /\ Len(segs[s]) \in Nat /\ Len(segs[s]) > 0
    BY <1>0 DEF Chunked, Locations
  <2>4. paddr \in Nat /\ prev \in Nat /\ prev < paddr /\ prev \in DOMAIN segs
    BY <2>1, <1>0 DEF Locations
  <2>5. CASE paddr < prev + Len(segs[prev])
    <3>1. n = [segs EXCEPT ![prev] = SubSeq(segs[prev], 1, paddr - prev)]
      BY <1>2, <2>5 DEF ShrinkPrevious, prev
    <3> DEFINE c == SubSeq(segs[prev], 1, paddr - prev)
    <3>2. /\ c \in Seq(BYTES) /\ Len(c) = paddr - prev
          /\ \A i \in 1..Len(c) : c[i] = segs[prev][i]
      BY <2>3, <2>4, <2>5
    <3> HIDE DEF c
    <3>3. DOMAIN n = DOMAIN segs /\ n[prev] = c /\ \A s \in DOMAIN segs : s # prev => n[s] = segs[s]
      BY <3>1, <2>4 DEF c
    <3> HIDE DEF n
    <3>4. ASSUME NEW s \in DOMAIN segs, s < paddr
          PROVE  /\ n[s] \in Seq(BYTES) /\ Len(n[s]) > 0
                 /\ Ends(n, s) <= paddr /\ Ends(n, s) <= Ends(segs, s)
                 /\ \A i \in 1..Len(n[s]) : n[s][i] = segs[s][i]
      <4>1. CASE s = prev
        BY <4>1, <3>2, <3>3, <2>3, <2>4, <2>5 DEF Ends
      <4>2. CASE s # prev
        BY <4>2, <3>3, <3>4, <2>2, <2>3, <2>4 DEF Ends
      <4> QED
        BY <4>1, <4>2
    <3> QED
      BY <3>3, <3>4, <2>4 DEF n
  <2>6. CASE ~(paddr < prev + Len(segs[prev]))
    <3>1. n = segs
      BY <1>2, <2>6 DEF ShrinkPrevious, prev
    <3>2. \A s \in DOMAIN segs : s < paddr => Ends(segs, s) <= paddr
      BY <2>2, <2>3, <2>4, <2>6 DEF Ends
    <3> QED
      BY <3>1, <3>2, <2>3 DEF Ends
  <2> QED
    BY <2>5, <2>6
<1> QED
  BY <1>1, <1>2

\* The pieces that bytes are cut into
Starts(segs, paddr, bytes) ==
  {paddr} \cup {a \in DOMAIN segs : paddr <= a /\ a < paddr + Len(bytes)}
End(starts, after, s) == Lowest({t \in starts : t > s} \cup {after})

LEMMA Pieces ==
  ASSUME NEW segs, Chunked(segs), NEW paddr \in Locations, NEW bytes \in Seq(BYTES),
         bytes # <<>>, paddr + Len(bytes) <= SIZE
  PROVE  LET starts == Starts(segs, paddr, bytes)
             after == paddr + Len(bytes)
             last == Highest(starts)
         IN /\ last \in starts /\ \A s \in starts : s <= last
            /\ \A s \in starts :
                 /\ s \in Nat /\ paddr <= s /\ s < after
                 /\ End(starts, after, s) \in Nat
                 /\ s < End(starts, after, s) /\ End(starts, after, s) <= after
                 /\ \A t \in starts : s < t => End(starts, after, s) <= t
                 /\ s = last => End(starts, after, s) = after
<1> DEFINE starts == Starts(segs, paddr, bytes)
           after == paddr + Len(bytes)
           last == Highest(starts)
<1>1. /\ paddr \in Nat /\ Len(bytes) \in Nat /\ Len(bytes) > 0 /\ SIZE \in Nat \ {0}
      /\ after \in Nat /\ paddr < after /\ after <= SIZE /\ DOMAIN segs \subseteq Nat
  BY LoaderAssumption DEF Chunked, Locations
<1> HIDE DEF after
<1>2. \A s \in starts : s \in Nat /\ paddr <= s /\ s < after
  BY <1>1 DEF Starts, after
<1>3. starts \in SUBSET (0..SIZE) /\ starts # {}
  <2>1. paddr \in starts
    BY DEF Starts
  <2> QED
    BY <2>1, <1>1, <1>2
<1> HIDE DEF starts
<1>4. last \in starts /\ \A s \in starts : s <= last
  BY <1>1, <1>3, HighestIs
<1> HIDE DEF last
<1>5. ASSUME NEW s \in starts
      PROVE  /\ End(starts, after, s) \in Nat
             /\ s < End(starts, after, s) /\ End(starts, after, s) <= after
             /\ \A t \in starts : s < t => End(starts, after, s) <= t
             /\ s = last => End(starts, after, s) = after
  <2> DEFINE T == {t \in starts : t > s} \cup {after}
  <2>1. T \in SUBSET Nat /\ after \in T /\ T # {}
    BY <1>1, <1>2
  <2>2. \A t \in T : s < t
    BY <1>2
  <2>3. \A t \in starts : s < t => t \in T
    BY <1>2
  <2>4. s = last => T = {after}
    BY <1>2, <1>4
  <2>5. Lowest(T) \in T /\ \A b \in T : Lowest(T) <= b
    <3> HIDE DEF T
    <3> QED
      BY <2>1, LowestIs
  <2>6. End(starts, after, s) = Lowest(T)
    BY DEF End
  <2> HIDE DEF T
  <2> QED
    BY <2>1, <2>2, <2>3, <2>4, <2>5, <2>6
<1>6. /\ last \in starts /\ \A s \in starts : s <= last
      /\ \A s \in starts :
           /\ s \in Nat /\ paddr <= s /\ s < after
           /\ End(starts, after, s) \in Nat
           /\ s < End(starts, after, s) /\ End(starts, after, s) <= after
           /\ \A t \in starts : s < t => End(starts, after, s) <= t
           /\ s = last => End(starts, after, s) = after
  BY <1>2, <1>4, <1>5
<1> QED
  BY <1>6 DEF starts, after, last

\* Bytes of b from its n-th one on
Part(c, b, n, l) == c \in Seq(BYTES) /\ Len(c) = l /\ \A i \in 1..l : c[i] = b[n + i]

\* What becomes of each chunk when it is n that the chunks are afterwards
Cut(segs, paddr, bytes, n, starts, after, last) ==
  /\ DOMAIN n = DOMAIN segs \cup starts
  /\ n = [s \in DOMAIN n |-> n[s]]
  /\ \A s \in DOMAIN segs \ starts : n[s] = ShrinkPrevious(segs, paddr)[s]
  /\ \A s \in starts : s # last \/ s \notin DOMAIN segs =>
       Part(n[s], bytes, s - paddr, End(starts, after, s) - s)
  /\ last \in DOMAIN segs =>
       /\ n[last] \in Seq(BYTES)
       /\ Len(n[last]) >= Len(segs[last]) /\ Len(n[last]) >= after - last
       /\ Len(n[last]) = Len(segs[last]) \/ Len(n[last]) = after - last
       /\ \A i \in 1..(after - last) : n[last][i] = bytes[last - paddr + i]
       /\ \A i \in 1..Len(n[last]) : i > after - last => n[last][i] = segs[last][i]

\* A chunk with a shorter one written over its beginning
LEMMA OverwriteIs ==
  ASSUME NEW p \in Seq(BYTES), NEW c \in Seq(BYTES), Len(c) >= Len(p)
  PROVE  /\ Overwrite(c, p) \in Seq(BYTES) /\ Len(Overwrite(c, p)) = Len(c)
         /\ \A i \in 1..Len(p) : Overwrite(c, p)[i] = p[i]
         /\ \A i \in 1..Len(c) : i > Len(p) => Overwrite(c, p)[i] = c[i]
<1> DEFINE m == Len(p) + 1
           r == SubSeq(c, m, Len(c))
           q == p \o r
<1>1. m \in 1..(Len(c) + 1) /\ Len(p) \in Nat /\ Len(c) \in Nat /\ m = Len(p) + 1
  OBVIOUS
<1>2. Overwrite(c, p) = q
  BY DEF Overwrite
<1> HIDE DEF m
<1>3. r \in Seq(BYTES)
  BY <1>1
<1>4. Len(r) = Len(c) - Len(p)
  BY <1>1
<1>5. \A i \in 1..(Len(c) - Len(p)) : r[i] = c[Len(p) + i]
  BY <1>1
<1> HIDE DEF r
<1>6. q \in Seq(BYTES) /\ Len(q) = Len(c) /\ \A i \in 1..Len(p) : q[i] = p[i]
  BY <1>1, <1>3, <1>4
<1>7. ASSUME NEW i \in 1..Len(c), i > Len(p) PROVE q[i] = c[i]
  <2>1. i - Len(p) \in 1..(Len(c) - Len(p)) /\ Len(p) + (i - Len(p)) = i
    BY <1>1, <1>7
  <2>2. q[i] = r[i - Len(p)]
    BY <1>1, <1>3, <1>4, <1>7
  <2> QED
    BY <2>1, <2>2, <1>5
<1> HIDE DEF q
<1> QED
  BY <1>2, <1>6, <1>7

LEMMA InsertedIs ==
  ASSUME NEW segs, Chunked(segs), NEW paddr \in Locations, NEW bytes \in Seq(BYTES),
         bytes # <<>>, paddr + Len(bytes) <= SIZE
  PROVE  Cut(segs, paddr, bytes, Inserted(segs, paddr, bytes), Starts(segs, paddr, bytes),
             paddr + Len(bytes), Highest(Starts(segs, paddr, bytes)))
<1> DEFINE starts == Starts(segs, paddr, bytes)
           after == paddr + Len(bytes)
           last == Highest(starts)
           n == Inserted(segs, paddr, bytes)
           shrunk == ShrinkPrevious(segs, paddr)
           Piece(s) == SubSeq(bytes, s - paddr + 1, End(starts, after, s) - paddr)
<1>1. n = [s \in DOMAIN segs \cup starts |->
             IF s \notin starts THEN shrunk[s]
             ELSE IF s = last /\ s \in DOMAIN segs THEN Overwrite(shrunk[s], Piece(s))
             ELSE Piece(s)]
  BY DEF Inserted, Starts, End
<1>2. /\ last \in starts
      /\ \A s \in starts : /\ s \in Nat /\ paddr <= s /\ s < after
                           /\ End(starts, after, s) \in Nat
                           /\ s < End(starts, after, s) /\ End(starts, after, s) <= after
                           /\ s = last => End(starts, after, s) = after
  BY Pieces
<1>3. last \in DOMAIN segs => shrunk[last] = segs[last] /\ segs[last] \in Seq(BYTES)
  BY <1>2, Shrunk DEF Chunked
<1>4. paddr \in Nat /\ Len(bytes) \in Nat /\ after \in Nat /\ after = paddr + Len(bytes)
  BY DEF Locations
<1> HIDE DEF starts, last, n, shrunk, after
<1>5. ASSUME NEW s \in starts
      PROVE  Part(Piece(s), bytes, s - paddr, End(starts, after, s) - s)
  <2> DEFINE e == End(starts, after, s)
  <2>1. e \in Nat /\ s \in Nat /\ paddr <= s /\ s < e /\ e <= after
    BY <1>2
  <2> HIDE DEF e
  <2>2. SubSeq(bytes, s - paddr + 1, e - paddr) \in Seq(BYTES)
    BY <2>1, <1>4
  <2>3. Len(SubSeq(bytes, s - paddr + 1, e - paddr)) = e - s
    BY <2>1, <1>4
  <2>4. \A i \in 1..(e - s) : SubSeq(bytes, s - paddr + 1, e - paddr)[i] = bytes[s - paddr + i]
    BY <2>1, <1>4
  <2> QED
    BY <2>2, <2>3, <2>4 DEF Part, e
<1> HIDE DEF Piece
<1>6. \A s \in starts : s # last \/ s \notin DOMAIN segs =>
                 Part(n[s], bytes, s - paddr, End(starts, after, s) - s)
  BY <1>1, <1>5
<1>7. ASSUME last \in DOMAIN segs
      PROVE  /\ n[last] \in Seq(BYTES)
             /\ Len(n[last]) >= Len(segs[last]) /\ Len(n[last]) >= after - last
             /\ Len(n[last]) = Len(segs[last]) \/ Len(n[last]) = after - last
             /\ \A i \in 1..(after - last) : n[last][i] = bytes[last - paddr + i]
             /\ \A i \in 1..Len(n[last]) : i > after - last => n[last][i] = segs[last][i]
  <2> DEFINE p == Piece(last)
             c == segs[last]
  <2>1. n[last] = Overwrite(c, p)
    BY <1>1, <1>2, <1>3, <1>7
  <2>2. /\ p \in Seq(BYTES) /\ Len(p) = after - last /\ after - last \in Nat
        /\ \A i \in 1..(after - last) : p[i] = bytes[last - paddr + i]
    BY <1>2, <1>4, <1>5 DEF Part
  <2>3. c \in Seq(BYTES)
    BY <1>3, <1>7
  <2> HIDE DEF p, c
  <2>4. CASE Len(c) >= Len(p)
    <3> DEFINE q == Overwrite(c, p)
    <3>1. n[last] = q
      BY <2>1
    <3>2. /\ q \in Seq(BYTES) /\ Len(q) = Len(c)
          /\ \A i \in 1..Len(p) : q[i] = p[i]
          /\ \A i \in 1..Len(c) : i > Len(p) => q[i] = c[i]
      BY <2>2, <2>3, <2>4, OverwriteIs
    <3> HIDE DEF q
    <3>3. Len(q) >= Len(c) /\ Len(q) >= after - last
      BY <3>2, <2>2, <2>3, <2>4
    <3>4. \A i \in 1..(after - last) : q[i] = bytes[last - paddr + i]
      BY <3>2, <2>2
    <3>5. \A i \in 1..Len(q) : i > after - last => q[i] = c[i]
      BY <3>2, <2>2
    <3> QED
      BY <3>1, <3>2, <3>3, <3>4, <3>5 DEF c
  <2>5. CASE ~(Len(c) >= Len(p))
    BY <2>1, <2>2, <2>3, <2>5 DEF Overwrite, c
  <2> QED
    BY <2>4, <2>5
<1>8. Cut(segs, paddr, bytes, n, starts, after, last)
  BY <1>1, <1>6, <1>7 DEF Cut, shrunk
<1> QED
  BY <1>8 DEF starts, last, n, after

\* The chunk at s ends before the next one and holds what flat holds
WellPlaced(segs, flat, s) ==
  /\ s \in Locations /\ segs[s] \in Seq(BYTES) /\ Len(segs[s]) > 0 /\ Ends(segs, s) <= SIZE
  /\ \A t \in DOMAIN segs : s < t => Ends(segs, s) <= t
  /\ \A i \in 1..Len(segs[s]) : segs[s][i] = flat[s + i - 1]

\* Each chunk of segs after bytes have been written: where it ends, and what
\* it holds
LEMMA InsertedEnds ==
  ASSUME NEW segs, Chunked(segs), NEW paddr \in Locations, NEW bytes \in Seq(BYTES),
         bytes # <<>>, paddr + Len(bytes) <= SIZE, NEW buf, Agree(segs, buf),
         NEW s \in DOMAIN Inserted(segs, paddr, bytes)
  PROVE  WellPlaced(Inserted(segs, paddr, bytes), write_flat(buf, paddr, bytes), s)
<1> DEFINE starts == Starts(segs, paddr, bytes)
           after == paddr + Len(bytes)
           last == Highest(starts)
           n == Inserted(segs, paddr, bytes)
           flat == write_flat(buf, paddr, bytes)
           Goal == /\ s \in Locations /\ n[s] \in Seq(BYTES) /\ Len(n[s]) > 0 /\ Ends(n, s) <= SIZE
                   /\ \A t \in DOMAIN n : s < t => Ends(n, s) <= t
                   /\ \A i \in 1..Len(n[s]) : n[s][i] = flat[s + i - 1]
<1> SUFFICES Goal
  BY DEF WellPlaced
<1>0. s \in DOMAIN n
  OBVIOUS
<1>1. /\ paddr \in Nat /\ Len(bytes) \in Nat /\ Len(bytes) > 0 /\ SIZE \in Nat \ {0}
      /\ after \in Nat /\ paddr < after /\ after <= SIZE /\ after = paddr + Len(bytes)
      /\ DOMAIN segs \subseteq Locations /\ DOMAIN segs \subseteq Nat
  BY LoaderAssumption DEF Chunked, Locations
<1>2. /\ last \in starts /\ \A t \in starts : t <= last
      /\ \A u \in starts :
           /\ u \in Nat /\ paddr <= u /\ u < after
           /\ End(starts, after, u) \in Nat
           /\ u < End(starts, after, u) /\ End(starts, after, u) <= after
           /\ \A t \in starts : u < t => End(starts, after, u) <= t
           /\ u = last => End(starts, after, u) = after
  BY Pieces
<1>3. /\ DOMAIN n = DOMAIN segs \cup starts
      /\ \A u \in DOMAIN segs \ starts : n[u] = ShrinkPrevious(segs, paddr)[u]
      /\ \A u \in starts : u # last \/ u \notin DOMAIN segs =>
           Part(n[u], bytes, u - paddr, End(starts, after, u) - u)
      /\ last \in DOMAIN segs =>
           /\ n[last] \in Seq(BYTES)
           /\ Len(n[last]) >= Len(segs[last]) /\ Len(n[last]) >= after - last
           /\ Len(n[last]) = Len(segs[last]) \/ Len(n[last]) = after - last
           /\ \A i \in 1..(after - last) : n[last][i] = bytes[last - paddr + i]
           /\ \A i \in 1..Len(n[last]) : i > after - last => n[last][i] = segs[last][i]
  <2>1. Cut(segs, paddr, bytes, n, starts, after, last)
    BY InsertedIs
  <2> HIDE DEF starts, after, last, n
  <2> QED
    BY <2>1 DEF Cut
<1>4. \A t \in DOMAIN segs : t \notin starts => t < paddr \/ after <= t
  BY <1>1 DEF Starts
<1>5. /\ \A u \in DOMAIN segs : u >= paddr => ShrinkPrevious(segs, paddr)[u] = segs[u]
      /\ \A u \in DOMAIN segs : u < paddr =>
           LET c == ShrinkPrevious(segs, paddr)[u]
           IN /\ c \in Seq(BYTES) /\ Len(c) > 0
              /\ u + Len(c) <= paddr /\ u + Len(c) <= Ends(segs, u)
              /\ \A i \in 1..Len(c) : c[i] = segs[u][i]
  BY Shrunk DEF Ends
<1>6. /\ \A a \in Locations : a < paddr \/ after <= a => flat[a] = buf[a]
      /\ \A a \in Locations : paddr <= a /\ a < after => flat[a] = bytes[a - paddr + 1]
  BY <1>1 DEF write_flat, Covers, Locations
<1>7. /\ \A u \in DOMAIN segs : segs[u] \in Seq(BYTES) /\ Len(segs[u]) \in Nat /\ Len(segs[u]) > 0
                                /\ u + Len(segs[u]) <= SIZE
      /\ \A u, t \in DOMAIN segs : u < t => u + Len(segs[u]) <= t
      /\ \A u \in DOMAIN segs : \A i \in 1..Len(segs[u]) : segs[u][i] = buf[u + i - 1]
  BY DEF Chunked, Ends, Agree
<1>8. \A a \in Nat : a < SIZE => a \in Locations
  BY <1>1 DEF Locations
<1>9. Ends(n, s) = s + Len(n[s])
  BY DEF Ends
<1>10. \A t \in DOMAIN n : t \in Nat
  BY <1>1, <1>2, <1>3
<1> HIDE DEF starts, last, n, after, flat, Ends
<1>11. CASE s \notin starts /\ s < paddr
  <2> DEFINE c == ShrinkPrevious(segs, paddr)[s]
  <2>1. s \in DOMAIN segs /\ n[s] = c /\ s \in Nat
    BY <1>0, <1>1, <1>3, <1>11
  <2>2. /\ c \in Seq(BYTES) /\ Len(c) \in Nat /\ Len(c) > 0
        /\ s + Len(c) <= paddr /\ s + Len(c) <= s + Len(segs[s])
        /\ \A i \in 1..Len(c) : c[i] = segs[s][i]
    BY <1>5, <1>11, <2>1 DEF Ends
  <2> HIDE DEF c
  <2>3. ASSUME NEW t \in DOMAIN n, s < t PROVE s + Len(c) <= t
    <3>1. CASE t \in starts
      BY <3>1, <1>1, <1>2, <2>1, <2>2
    <3>2. CASE t \in DOMAIN segs
      <4>1. s + Len(segs[s]) <= t
        BY <3>2, <2>1, <2>3, <1>7
      <4>2. t \in Nat /\ Len(segs[s]) \in Nat
        BY <2>1, <1>7, <1>10
      <4> QED
        BY <4>1, <4>2, <2>1, <2>2
    <3> QED
      BY <3>1, <3>2, <1>3
  <2>4. ASSUME NEW i \in 1..Len(c) PROVE c[i] = flat[s + i - 1]
    <3>1. Len(segs[s]) \in Nat
      BY <2>1, <1>7
    <3>2. s + i - 1 \in Nat /\ s + i - 1 < paddr /\ s + i - 1 < SIZE /\ i \in 1..Len(segs[s])
      BY <3>1, <2>1, <2>2, <1>1
    <3>3. flat[s + i - 1] = buf[s + i - 1]
      BY <3>2, <1>6, <1>8
    <3>4. segs[s][i] = buf[s + i - 1]
      BY <3>2, <2>1, <1>7
    <3> QED
      BY <3>3, <3>4, <2>2
  <2>5. s \in Locations /\ s + Len(c) <= SIZE
    BY <2>1, <2>2, <1>1
  <2> QED
    BY <2>1, <2>2, <2>3, <2>4, <2>5, <1>9
<1>12. CASE s \notin starts /\ ~(s < paddr)
  <2>1. s \in DOMAIN segs /\ n[s] = segs[s] /\ s \in Nat /\ after <= s
    <3>1. s \in DOMAIN segs /\ s \in Nat
      BY <1>0, <1>1, <1>3, <1>12
    <3>2. s >= paddr
      BY <3>1, <1>1, <1>12
    <3>3. n[s] = segs[s]
      BY <3>1, <3>2, <1>3, <1>5, <1>12
    <3>4. after <= s
      BY <3>1, <1>4, <1>12
    <3> QED
      BY <3>1, <3>3, <3>4
  <2>2. ASSUME NEW t \in DOMAIN n, s < t PROVE s + Len(segs[s]) <= t
    <3>1. t \in DOMAIN segs
      BY <2>1, <2>2, <1>1, <1>2, <1>3, <1>10
    <3> QED
      BY <3>1, <2>1, <2>2, <1>7
  <2>3. ASSUME NEW i \in 1..Len(segs[s]) PROVE segs[s][i] = flat[s + i - 1]
    <3>1. Len(segs[s]) \in Nat /\ s + Len(segs[s]) <= SIZE
      BY <2>1, <1>7
    <3>2. s + i - 1 \in Nat /\ after <= s + i - 1 /\ s + i - 1 < SIZE
      BY <3>1, <2>1, <1>1
    <3>3. flat[s + i - 1] = buf[s + i - 1]
      BY <3>2, <1>6, <1>8
    <3> QED
      BY <3>3, <2>1, <1>7
  <2>4. s \in Locations /\ segs[s] \in Seq(BYTES) /\ Len(segs[s]) > 0 /\ s + Len(segs[s]) <= SIZE
    BY <2>1, <1>1, <1>7
  <2> QED
    BY <2>1, <2>2, <2>3, <2>4, <1>9
<1>13. CASE s \in starts /\ (s # last \/ s \notin DOMAIN segs)
  <2> DEFINE e == End(starts, after, s)
  <2>1. /\ s \in Nat /\ paddr <= s /\ e \in Nat /\ s < e /\ e <= after
        /\ \A t \in starts : s < t => e <= t
    BY <1>2, <1>13
  <2>2. Part(n[s], bytes, s - paddr, e - s)
    BY <1>3, <1>13
  <2> HIDE DEF e
  <2>3. n[s] \in Seq(BYTES) /\ Len(n[s]) = e - s /\ \A i \in 1..(e - s) : n[s][i] = bytes[s - paddr + i]
    BY <2>2 DEF Part
  <2>4. ASSUME NEW t \in DOMAIN n, s < t PROVE e <= t
    <3>1. CASE t \in starts
      BY <3>1, <2>1, <2>4
    <3>2. CASE t \notin starts
      <4>1. after <= t
        BY <3>2, <2>1, <2>4, <1>1, <1>3, <1>4, <1>10
      <4> QED
        BY <4>1, <2>1, <1>1, <1>10
    <3> QED
      BY <3>1, <3>2
  <2>5. ASSUME NEW i \in 1..(e - s) PROVE n[s][i] = flat[s + i - 1]
    <3>1. s + i - 1 \in Nat /\ paddr <= s + i - 1 /\ s + i - 1 < after /\ s + i - 1 < SIZE
      BY <2>1, <1>1
    <3>2. flat[s + i - 1] = bytes[(s + i - 1) - paddr + 1]
      BY <3>1, <1>6, <1>8
    <3>3. (s + i - 1) - paddr + 1 = s - paddr + i
      BY <2>1, <1>1
    <3> QED
      BY <3>2, <3>3, <2>3
  <2>6. s \in Locations /\ e - s > 0 /\ s + (e - s) = e /\ e <= SIZE
    BY <2>1, <1>1, <1>8
  <2> QED
    BY <2>3, <2>4, <2>5, <2>6, <1>9
<1>14. CASE s = last /\ s \in DOMAIN segs
  <2> DEFINE l == Len(n[s])
             c == segs[s]
  <2>1. /\ s \in Nat /\ paddr <= s /\ s < after
        /\ n[s] \in Seq(BYTES) /\ l \in Nat
        /\ l >= Len(c) /\ l >= after - s
        /\ l = Len(c) \/ l = after - s
        /\ \A i \in 1..(after - s) : n[s][i] = bytes[s - paddr + i]
        /\ \A i \in 1..l : i > after - s => n[s][i] = c[i]
    <3>1. s \in Nat /\ paddr <= s /\ s < after
      BY <1>2, <1>14
    <3>2. n[s] \in Seq(BYTES) /\ l >= Len(c) /\ l >= after - s /\ (l = Len(c) \/ l = after - s)
      BY <1>3, <1>14
    <3>3. l \in Nat
      BY <3>2
    <3>4. /\ \A i \in 1..(after - s) : n[s][i] = bytes[s - paddr + i]
          /\ \A i \in 1..l : i > after - s => n[s][i] = c[i]
      BY <1>3, <1>14
    <3> QED
      BY <3>1, <3>2, <3>3, <3>4
  <2>2. Len(c) \in Nat /\ s + Len(c) <= SIZE /\ \A i \in 1..Len(c) : c[i] = buf[s + i - 1]
    BY <1>7, <1>14
  <2>3. ASSUME NEW t \in DOMAIN n, s < t PROVE s + Len(c) <= t /\ after <= t
    <3>1. t \notin starts /\ t \in Nat
      BY <2>1, <2>3, <1>2, <1>10, <1>14
    <3>2. t \in DOMAIN segs
      BY <3>1, <1>3
    <3>3. s + Len(c) <= t
      BY <3>2, <2>3, <1>7, <1>14
    <3>4. ~(t < paddr)
      BY <3>1, <2>1, <2>3, <1>1
    <3> QED
      BY <3>1, <3>2, <3>3, <3>4, <1>4
  <2>4. /\ s \in Nat /\ paddr <= s /\ s < after /\ l \in Nat /\ Len(c) \in Nat /\ l > 0
        /\ s + l <= SIZE /\ (l = Len(c) \/ l = after - s)
    <3> HIDE DEF l, c
    <3>1. /\ s \in Nat /\ paddr <= s /\ s < after /\ l \in Nat /\ Len(c) \in Nat
          /\ l >= after - s /\ s + Len(c) <= SIZE /\ (l = Len(c) \/ l = after - s)
      BY <2>1, <2>2
    <3> QED
      BY <3>1, <1>1
  <2>5. ASSUME NEW i \in 1..l PROVE n[s][i] = flat[s + i - 1]
    <3> HIDE DEF l, c
    <3>1. s + i - 1 \in Nat /\ paddr <= s + i - 1 /\ s + i - 1 < SIZE
      BY <2>4, <1>1
    <3>2. CASE i > after - s
      <4>1. i \in 1..Len(c) /\ after <= s + i - 1
        BY <2>4, <3>2, <1>1
      <4>2. flat[s + i - 1] = buf[s + i - 1]
        BY <3>1, <4>1, <1>6, <1>8
      <4> QED
        BY <3>2, <4>1, <4>2, <2>1, <2>2
    <3>3. CASE ~(i > after - s)
      <4>1. i \in 1..(after - s) /\ s + i - 1 < after
        BY <2>4, <3>3, <1>1
      <4>2. flat[s + i - 1] = bytes[(s + i - 1) - paddr + 1]
        BY <3>1, <4>1, <1>6, <1>8
      <4>3. (s + i - 1) - paddr + 1 = s - paddr + i
        BY <2>1, <1>1
      <4> QED
        BY <4>1, <4>2, <4>3, <2>1
    <3> QED
      BY <3>2, <3>3
  <2>6. s \in Locations
    BY <1>1, <1>14
  <2>7. ASSUME NEW t \in DOMAIN n, s < t PROVE s + l <= t
    <3> HIDE DEF l, c
    <3>1. t \in Nat /\ s + Len(c) <= t /\ after <= t
      BY <2>3, <2>7, <1>10
    <3> QED
      BY <3>1, <2>4, <1>1
  <2> QED
    BY <2>1, <2>4, <2>5, <2>6, <2>7, <1>9
<1> QED
  BY <1>0, <1>3, <1>11, <1>12, <1>13, <1>14

\* What write_bytes does to the chunks, write_flat does to the buffer
LEMMA WriteKeeps ==
  ASSUME NEW segs, Chunked(segs), NEW buf, Agree(segs, buf),
         NEW paddr \in Nat, NEW bytes \in Seq(BYTES), paddr + Len(bytes) <= SIZE
  PROVE  /\ Chunked(write_bytes(segs, paddr, bytes))
         /\ Agree(write_bytes(segs, paddr, bytes), write_flat(buf, paddr, bytes))
<1>0. SIZE \in Nat \ {0}
  BY LoaderAssumption
<1>1. CASE bytes = <<>>
  <2>1. write_bytes(segs, paddr, bytes) = segs
    BY <1>1 DEF write_bytes
  <2>2. \A a \in Locations : write_flat(buf, paddr, bytes)[a] = buf[a]
    BY <1>1 DEF write_flat, Covers, Locations
  <2>3. ASSUME NEW s \in DOMAIN segs, NEW i \in 1..Len(segs[s]) PROVE s + i - 1 \in Locations
    BY <1>0 DEF Chunked, Ends, Locations
  <2> QED
    BY <2>1, <2>2, <2>3 DEF Agree
<1>2. CASE bytes # <<>>
  <2> DEFINE n == Inserted(segs, paddr, bytes)
  <2>1. paddr \in Locations
    BY <1>0, <1>2 DEF Locations
  <2>2. write_bytes(segs, paddr, bytes) = n
    BY <1>2 DEF write_bytes
  <2>3. n = [s \in DOMAIN n |-> n[s]]
    <3>1. Cut(segs, paddr, bytes, n, Starts(segs, paddr, bytes), paddr + Len(bytes),
              Highest(Starts(segs, paddr, bytes)))
      BY <2>1, <1>2, InsertedIs
    <3> HIDE DEF n
    <3> QED
      BY <3>1 DEF Cut
  <2>4. \A s \in DOMAIN n : WellPlaced(n, write_flat(buf, paddr, bytes), s)
    BY <2>1, <1>2, InsertedEnds
  <2> HIDE DEF n
  <2> QED
    BY <2>2, <2>3, <2>4 DEF Chunked, Agree, WellPlaced
<1> QED
  BY <1>1, <1>2

\* Where there is no chunk nothing has been written
Complete(segs, buf) ==
  \A a \in Locations : (\A s \in DOMAIN segs : a \notin Covers(s, segs[s])) => buf[a] = 0

AllBelow(segs, paddr) == \A s \in DOMAIN segs : Ends(segs, s) <= paddr

\* Behind all chunks nothing is cut off
LEMMA AppendKeeps ==
  ASSUME NEW segs, Chunked(segs), NEW buf, Complete(segs, buf),
         NEW paddr \in Nat, NEW bytes \in Seq(BYTES), paddr + Len(bytes) <= SIZE,
         AllBelow(segs, paddr)
  PROVE  /\ Complete(write_bytes(segs, paddr, bytes), write_flat(buf, paddr, bytes))
         /\ AllBelow(write_bytes(segs, paddr, bytes), paddr + Len(bytes))
<1>0. SIZE \in Nat \ {0} /\ Len(bytes) \in Nat
  BY LoaderAssumption
<1>1. CASE bytes = <<>>
  <2>1. write_bytes(segs, paddr, bytes) = segs /\ paddr + Len(bytes) = paddr
    BY <1>1 DEF write_bytes
  <2>2. \A a \in Locations : write_flat(buf, paddr, bytes)[a] = buf[a]
    BY <1>1 DEF write_flat, Covers, Locations
  <2> QED
    BY <2>1, <2>2 DEF Complete
<1>2. CASE bytes # <<>>
  <2> DEFINE n == Inserted(segs, paddr, bytes)
             after == paddr + Len(bytes)
             starts == Starts(segs, paddr, bytes)
             last == Highest(starts)
  <2>1. paddr \in Locations /\ after \in Nat /\ Len(bytes) > 0
    BY <1>0, <1>2 DEF Locations
  <2>2. write_bytes(segs, paddr, bytes) = n
    BY <1>2 DEF write_bytes
  <2>3. \A s \in DOMAIN segs : s \in Nat /\ Len(segs[s]) \in Nat /\ s < paddr /\ s + Len(segs[s]) <= paddr
    BY <1>0 DEF Chunked, AllBelow, Ends, Locations
  <2>4. starts = {paddr} /\ paddr \notin DOMAIN segs
    BY <2>3 DEF Starts
  <2>5. Cut(segs, paddr, bytes, n, starts, after, last)
    BY <2>1, <1>2, InsertedIs
  <2>6. last \in starts /\ End(starts, after, last) = after
    BY <2>1, <1>2, Pieces
  <2>7. ShrinkPrevious(segs, paddr) = segs
    <3> DEFINE before == {a \in DOMAIN segs : a < paddr}
               prev == Highest(before)
    <3>1. CASE before = {}
      BY <3>1 DEF ShrinkPrevious
    <3>2. CASE before # {}
      <4>1. before \in SUBSET (0..SIZE)
        BY <1>0, <2>1, <2>3 DEF Locations
      <4>2. prev \in before
        <5> HIDE DEF before
        <5> QED
          BY <4>1, <3>2, <1>0, HighestIs
      <4>3. ~(paddr < prev + Len(segs[prev]))
        <5> HIDE DEF prev
        <5> QED
          BY <4>2, <2>3
      <4> QED
        BY <4>3 DEF ShrinkPrevious
    <3> QED
      BY <3>1, <3>2
  <2> HIDE DEF n, after, starts, last
  <2>8. last = paddr
    BY <2>4, <2>6
  <2>9. /\ DOMAIN n = DOMAIN segs \cup {paddr} /\ \A s \in DOMAIN segs : n[s] = segs[s]
        /\ Len(n[paddr]) = after - paddr
    BY <2>4, <2>5, <2>6, <2>7, <2>8 DEF Cut, Part
  <2>10. AllBelow(n, after)
    BY <2>1, <2>3, <2>9 DEF AllBelow, Ends, after
  <2>11. ASSUME NEW a \in Locations, \A s \in DOMAIN n : a \notin Covers(s, n[s])
         PROVE  write_flat(buf, paddr, bytes)[a] = 0
    <3>1. a \notin Covers(paddr, bytes)
      BY <2>9, <2>11, <1>0 DEF Covers, after
    <3>2. \A s \in DOMAIN segs : a \notin Covers(s, segs[s])
      BY <2>9, <2>11
    <3> QED
      BY <3>1, <3>2 DEF write_flat, Complete
  <2> QED
    BY <2>2, <2>10, <2>11 DEF Complete, after
<1> QED
  BY <1>1, <1>2

\* The inductive invariant: the chunks lie one behind the other and hold what
\* the buffer holds; of a file that is not relocatable they hold all of it
LoadInv ==
  /\ file \in Files
  /\ stage = "relas" => file.relocatable
  /\ buffer = [a \in Locations |-> buffer[a]]
  /\ Chunked(segments) /\ Agree(segments, buffer)
  /\ file.ascending /\ ~file.relocatable => Complete(segments, buffer)

LEMMA InitLoadInv == LoadInit => LoadInv
<1> SUFFICES ASSUME LoadInit PROVE LoadInv
  OBVIOUS
<1>1. DOMAIN segments = {} /\ segments = <<>>
  BY DEF LoadInit
<1>2. segments = [s \in DOMAIN segments |-> segments[s]]
  BY <1>1
<1>3. Chunked(segments) /\ Agree(segments, buffer)
  BY <1>1, <1>2 DEF Chunked, Agree
<1>4. Complete(segments, buffer)
  BY DEF LoadInit, Complete
<1> QED
  BY <1>3, <1>4 DEF LoadInit, LoadInv

LEMMA ZeroesType ==
  ASSUME NEW n \in Nat
  PROVE  Zeroes(n) \in Seq(BYTES) /\ Len(Zeroes(n)) = n
BY LoaderAssumption DEF Zeroes

LEMMA LoadSegmentInv ==
  ASSUME LoadInv, NEW paddr \in Locations, NEW filesz \in 0..(SIZE - paddr),
         NEW memsz \in filesz..(SIZE - paddr), NEW contents \in [1..filesz -> BYTES],
         LoadSegment(paddr, contents, memsz)
  PROVE  LoadInv'
<1> DEFINE first_zero == paddr + Len(contents)
           zeroes == Zeroes(memsz - Len(contents))
           segs == write_bytes(segments, paddr, contents)
           buf == write_flat(buffer, paddr, contents)
<1>1. /\ SIZE \in Nat \ {0} /\ paddr \in Nat /\ filesz \in Nat /\ memsz \in Nat
      /\ filesz <= memsz /\ paddr + memsz <= SIZE
  BY LoaderAssumption DEF Locations
<1>2. contents \in Seq(BYTES) /\ Len(contents) = filesz
  BY <1>1
<1>3. zeroes \in Seq(BYTES) /\ Len(zeroes) = memsz - filesz /\ first_zero \in Nat
  BY <1>1, <1>2, ZeroesType
<1>4. paddr + Len(contents) <= SIZE /\ first_zero + Len(zeroes) <= SIZE
  BY <1>1, <1>2, <1>3
<1>5. /\ segments' = write_bytes(segs, first_zero, zeroes)
      /\ buffer' = write_flat(buf, first_zero, zeroes)
      /\ file' = file /\ stage' = stage
      /\ file.ascending => AllBelow(segments, paddr)
  BY DEF LoadSegment, AllBelow, Ends
<1>6. Chunked(segs) /\ Agree(segs, buf)
  BY <1>1, <1>2, <1>4, WriteKeeps DEF LoadInv
<1>7. ASSUME file.ascending, ~file.relocatable
      PROVE  Complete(segs, buf) /\ AllBelow(segs, first_zero)
  BY <1>1, <1>2, <1>4, <1>5, <1>7, AppendKeeps DEF LoadInv
<1> HIDE DEF segs, buf, first_zero, zeroes
<1>8. Chunked(segments') /\ Agree(segments', buffer')
  BY <1>3, <1>4, <1>5, <1>6, WriteKeeps
<1>9. ASSUME file.ascending, ~file.relocatable
      PROVE  Complete(segments', buffer')
  BY <1>3, <1>4, <1>5, <1>6, <1>7, <1>9, AppendKeeps
<1>10. buffer' = [a \in Locations |-> buffer'[a]]
  BY <1>5 DEF write_flat
<1> QED
  BY <1>5, <1>8, <1>9, <1>10 DEF LoadInv

LEMMA RelocateInv ==
  ASSUME LoadInv, NEW offset \in 0..(SIZE - RELA_BYTES),
         NEW relocated \in [1..RELA_BYTES -> BYTES], Relocate(offset, relocated)
  PROVE  LoadInv'
<1>1. SIZE \in Nat /\ RELA_BYTES \in Nat /\ offset \in Nat
  BY LoaderAssumption
<1>2. relocated \in Seq(BYTES) /\ Len(relocated) = RELA_BYTES /\ offset + Len(relocated) <= SIZE
  BY <1>1
<1>3. /\ segments' = write_bytes(segments, offset, relocated)
      /\ buffer' = write_flat(buffer, offset, relocated)
      /\ file' = file /\ stage' = stage /\ stage = "relas"
  BY DEF Relocate
<1>4. Chunked(segments') /\ Agree(segments', buffer')
  BY <1>1, <1>2, <1>3, WriteKeeps DEF LoadInv
<1>5. buffer' = [a \in Locations |-> buffer'[a]]
  BY <1>3 DEF write_flat
<1> QED
  BY <1>3, <1>4, <1>5 DEF LoadInv

LEMMA NextLoadInv == LoadInv /\ [LoadNext]_load_vars => LoadInv'
<1> SUFFICES ASSUME LoadInv, [LoadNext]_load_vars PROVE LoadInv'
  OBVIOUS
<1>1. CASE StartRelas \/ Finish
  BY <1>1 DEF StartRelas, Finish, LoadInv
<1>2. CASE UNCHANGED load_vars
  BY <1>2 DEF load_vars, LoadInv
<1> QED
  BY <1>1, <1>2, LoadSegmentInv, RelocateInv DEF LoadNext

\* Chunks one behind the other have no address in common
LEMMA InvSegmentsAgree == LoadInv => SegmentsAgree
<1> SUFFICES ASSUME LoadInv PROVE SegmentsAgree
  OBVIOUS
<1>1. \A s \in DOMAIN segments : s \in Nat /\ Len(segments[s]) \in Nat
  BY LoaderAssumption DEF LoadInv, Chunked, Locations
<1>2. ASSUME NEW s \in DOMAIN segments, NEW a \in Covers(s, segments[s])
      PROVE  segments[s][a - s + 1] = buffer[a]
  <2>1. a \in Int /\ a - s + 1 \in 1..Len(segments[s]) /\ s + (a - s + 1) - 1 = a
    BY <1>1 DEF Covers
  <2> QED
    BY <2>1 DEF LoadInv, Agree
<1>3. ASSUME NEW s \in DOMAIN segments, NEW t \in DOMAIN segments, s # t
      PROVE  Covers(s, segments[s]) \cap Covers(t, segments[t]) = {}
  <2>1. s + Len(segments[s]) <= t \/ t + Len(segments[t]) <= s
    BY <1>1, <1>3 DEF LoadInv, Chunked, Ends
  <2> QED
    BY <2>1, <1>1 DEF Covers
<1> QED
  BY <1>2, <1>3 DEF SegmentsAgree

LEMMA InvExecutableComplete == LoadInv => ExecutableComplete
<1> SUFFICES ASSUME LoadInv, ~file.relocatable, file.ascending PROVE Image = buffer
  BY DEF ExecutableComplete, ImageComplete
<1>1. SegmentsAgree /\ Complete(segments, buffer)
  BY InvSegmentsAgree DEF LoadInv
<1>2. ASSUME NEW a \in Locations PROVE Image[a] = buffer[a]
  <2> DEFINE at == {s \in DOMAIN segments : a \in Covers(s, segments[s])}
  <2>1. CASE at = {}
    BY <2>1, <1>1 DEF Image, Complete
  <2>2. CASE at # {}
    <3>1. PICK s : s \in at
      BY <2>2
    <3>2. \A t \in at : t = s
      BY <3>1, <1>1 DEF SegmentsAgree
    <3>3. at = {s} /\ s \in Nat
      BY <3>1, <3>2, LoaderAssumption DEF LoadInv, Chunked, Locations
    <3>4. Highest(at) = s
      BY <3>3 DEF Highest
    <3>5. Image[a] = segments[s][a - s + 1]
      BY <2>2, <3>4 DEF Image
    <3> QED
      BY <3>1, <3>5, <1>1 DEF SegmentsAgree
  <2> QED
    BY <2>1, <2>2
<1> QED
  BY <1>2 DEF Image, LoadInv

\* Whatever segments and relocations a file has, the chunks of a Program are
\* disjoint and hold what was written last, and a file that is not relocatable
\* reaches memory completely (Program's write, kernel_loader.rs)
THEOREM LoadedFileIsAsWritten == LoadSpec => []LoadedAsWritten
<1>1. LoadInit => LoadInv
  BY InitLoadInv
<1>2. LoadInv /\ [LoadNext]_load_vars => LoadInv'
  BY NextLoadInv
<1>3. LoadInv => LoadedAsWritten
  BY InvSegmentsAgree, InvExecutableComplete DEF LoadedAsWritten
<1> QED
  BY <1>1, <1>2, <1>3, PTL DEF LoadSpec
=============================================================================
