-------------------------- MODULE XdpCaptureProofs --------------------------
(***************************************************************************)
(* Proofs about XdpCapture for rings, batches and a UMEM of every size.    *)
(*                                                                         *)
(* The invariant says where each frame is: Placed claims two functions     *)
(* that give each frame its place and its index there, and that nothing    *)
(* else is in any place.  Each step moves entries, so the next pair of     *)
(* functions is the present one with the moved entries' indices changed.   *)
(***************************************************************************)
EXTENDS XdpCapture, FiniteSetTheorems, TLAPS

\* A frame further on starts at least a frame's size further on.
LEMMA Times ==
  ASSUME NEW m \in Nat, NEW n \in Nat, m < n
  PROVE  m * FRAME_SIZE + FRAME_SIZE <= n * FRAME_SIZE
<1>1. PICK k \in Nat : n = m + 1 + k
  <2>1. n - m - 1 \in Nat /\ n = m + 1 + (n - m - 1)
    OBVIOUS
  <2> QED BY <2>1
<1>2. k * FRAME_SIZE \in Nat /\ m * FRAME_SIZE \in Nat
  BY FrameAssumption
<1>3. n * FRAME_SIZE = m * FRAME_SIZE + FRAME_SIZE + k * FRAME_SIZE
  BY <1>1, FrameAssumption
<1> QED
  BY <1>2, <1>3, FrameAssumption

\* An address lies in its frame.
LEMMA Division ==
  ASSUME NEW a \in Nat
  PROVE  /\ FrameOf(a) \in Nat
         /\ FrameOf(a) * FRAME_SIZE <= a /\ a < FrameOf(a) * FRAME_SIZE + FRAME_SIZE
  BY FrameAssumption DEF FrameOf

\* An offset smaller than a frame does not leave the frame.
LEMMA FrameUnique ==
  ASSUME NEW q \in Nat, NEW h \in 0 .. FRAME_SIZE - 1
  PROVE  q * FRAME_SIZE + h \in Nat /\ FrameOf(q * FRAME_SIZE + h) = q
<1> DEFINE a == q * FRAME_SIZE + h
           r == FrameOf(a)
<1>1. a \in Nat
  BY FrameAssumption
<1> HIDE DEF a
<1>2. r \in Nat /\ r * FRAME_SIZE <= a /\ a < r * FRAME_SIZE + FRAME_SIZE
  BY <1>1, Division
<1> HIDE DEF r
<1>0. q * FRAME_SIZE \in Nat /\ r * FRAME_SIZE \in Nat /\ a = q * FRAME_SIZE + h
  BY <1>2, FrameAssumption DEF a
<1>3. ~ (r < q)
  <2> SUFFICES ASSUME r < q PROVE FALSE
    OBVIOUS
  <2>1. r * FRAME_SIZE + FRAME_SIZE <= q * FRAME_SIZE
    BY <1>2, Times
  <2> QED
    BY <1>0, <1>2, <2>1, FrameAssumption
<1>4. ~ (q < r)
  <2> SUFFICES ASSUME q < r PROVE FALSE
    OBVIOUS
  <2>1. q * FRAME_SIZE + FRAME_SIZE <= r * FRAME_SIZE
    BY <1>2, Times
  <2> QED
    BY <1>0, <1>2, <2>1, FrameAssumption
<1> QED
  BY <1>1, <1>2, <1>3, <1>4 DEF r, a

\* Every address belongs to a frame; the kernel's own offset stays in it; frame i of the pool
\* is at i * FRAME_SIZE.
LEMMA AddrFacts ==
  /\ \A a \in Addrs :
       FrameOf(a) \in Chunks /\ Filled(a) \in Addrs /\ FrameOf(Filled(a)) = FrameOf(a)
  /\ \A i \in Slots : i * FRAME_SIZE \in Addrs /\ FrameOf(i * FRAME_SIZE) = i
  /\ Addrs \subseteq Nat /\ INVALID_UMEM_FRAME \notin Addrs /\ Chunks = Slots
<1>0. /\ NUM_FRAMES * FRAME_SIZE \in Nat
      /\ Headroom \in 0 .. FRAME_SIZE - 1 /\ 0 \in 0 .. FRAME_SIZE - 1
  BY FrameAssumption
<1>1. ASSUME NEW i \in Slots, NEW h \in 0 .. FRAME_SIZE - 1
      PROVE  i * FRAME_SIZE + h \in Addrs /\ FrameOf(i * FRAME_SIZE + h) = i
  <2>1. i \in Nat /\ i < NUM_FRAMES /\ NUM_FRAMES \in Nat
    BY FrameAssumption DEF Slots
  <2>2. i * FRAME_SIZE + FRAME_SIZE <= NUM_FRAMES * FRAME_SIZE
    BY <2>1, Times
  <2>3. i * FRAME_SIZE + h \in Nat /\ FrameOf(i * FRAME_SIZE + h) = i
    BY <2>1, FrameUnique
  <2>4. i * FRAME_SIZE \in Nat /\ h < FRAME_SIZE
    BY <2>1, FrameAssumption
  <2> QED
    BY <1>0, <2>2, <2>3, <2>4, FrameAssumption DEF Addrs
<1>2. ASSUME NEW i \in Slots
      PROVE  i * FRAME_SIZE \in Addrs /\ FrameOf(i * FRAME_SIZE) = i
  <2>1. i * FRAME_SIZE + 0 = i * FRAME_SIZE
    BY FrameAssumption DEF Slots
  <2> QED
    BY <1>0, <1>1, <2>1
<1>3. ASSUME NEW a \in Addrs
      PROVE  FrameOf(a) \in Slots
  <2>1. a \in Nat /\ a < NUM_FRAMES * FRAME_SIZE
    BY <1>0 DEF Addrs
  <2>2. FrameOf(a) \in Nat /\ FrameOf(a) * FRAME_SIZE <= a /\ FrameOf(a) * FRAME_SIZE \in Nat
    BY <2>1, Division, FrameAssumption
  <2>3. ~ (NUM_FRAMES < FrameOf(a)) /\ NUM_FRAMES # FrameOf(a)
    <3>1. NUM_FRAMES < FrameOf(a) =>
            NUM_FRAMES * FRAME_SIZE + FRAME_SIZE <= FrameOf(a) * FRAME_SIZE
      BY <2>2, Times, FrameAssumption
    <3> QED
      BY <1>0, <2>1, <2>2, <3>1, FrameAssumption
  <2> QED
    BY <2>2, <2>3, FrameAssumption DEF Slots
<1>4. ASSUME NEW a \in Addrs
      PROVE  Filled(a) \in Addrs /\ FrameOf(Filled(a)) = FrameOf(a)
  BY <1>0, <1>1, <1>3 DEF Filled
<1>5. Addrs \subseteq Nat /\ INVALID_UMEM_FRAME \notin Addrs /\ Chunks = Slots
  BY <1>0 DEF Addrs, INVALID_UMEM_FRAME, Chunks, Slots
<1> QED
  BY <1>2, <1>3, <1>4, <1>5
-----------------------------------------------------------------------------
\* Frame f is at index x[f] of the stack (k[f] = 1), of the fill ring (2), of what the driver
\* holds (3) or of the receive ring, past its first d packets (4).
IsAt(k, x, f, st, n, q, h, w, d) ==
  \/ k[f] = 1 /\ x[f] \in 0 .. n - 1 /\ FrameOf(st[x[f]]) = f
  \/ /\ k[f] = 2 /\ x[f] \in 1 .. Len(q)
     /\ q[x[f]] # INVALID_UMEM_FRAME /\ FrameOf(q[x[f]]) = f
  \/ k[f] = 3 /\ x[f] \in 1 .. Len(h) /\ FrameOf(h[x[f]]) = f
  \/ k[f] = 4 /\ x[f] \in d + 1 .. Len(w) /\ FrameOf(w[x[f]]) = f

\* Address a at index i of place p is that of a frame, and the frame's only one.
Home(k, x, a, p, i) == FrameOf(a) \in Chunks /\ k[FrameOf(a)] = p /\ x[FrameOf(a)] = i

\* k and x say where each frame is, and nothing is anywhere else.
PlacedAt(k, x, st, n, q, h, w, d) ==
  /\ \A i \in 0 .. n - 1 : st[i] # INVALID_UMEM_FRAME /\ Home(k, x, st[i], 1, i)
  /\ \A i \in 1 .. Len(q) : q[i] # INVALID_UMEM_FRAME => Home(k, x, q[i], 2, i)
  /\ \A i \in 1 .. Len(h) : Home(k, x, h[i], 3, i)
  /\ \A i \in d + 1 .. Len(w) : Home(k, x, w[i], 4, i)
  /\ \A f \in Chunks : IsAt(k, x, f, st, n, q, h, w, d)

Placed(st, n, q, h, w, d) == \E k, x \in [Chunks -> Int] : PlacedAt(k, x, st, n, q, h, w, d)

\* t is s without its first entry; t is s with y behind it.
Shifted(s, t) == Len(t) = Len(s) - 1 /\ \A i \in 1 .. Len(t) : t[i] = s[i + 1]
Extended(s, t, y) ==
  Len(t) = Len(s) + 1 /\ t[Len(s) + 1] = y /\ \A i \in 1 .. Len(s) : t[i] = s[i]

\* The driver takes the first entry of the fill ring.
LEMMA PlacedTakes ==
  ASSUME NEW st, NEW n \in Nat, NEW q, NEW h, NEW w, NEW d \in Nat,
         Len(q) \in Nat, Len(h) \in Nat, Len(w) \in Nat,
         Placed(st, n, q, h, w, d),
         NEW q2, NEW h2, NEW y,
         Len(q) > 0, q[1] # INVALID_UMEM_FRAME, FrameOf(y) = FrameOf(q[1]),
         Shifted(q, q2), Extended(h, h2, y)
  PROVE  Placed(st, n, q2, h2, w, d)
<1>1. PICK k, x \in [Chunks -> Int] : PlacedAt(k, x, st, n, q, h, w, d)
  BY DEF Placed
<1> DEFINE g == FrameOf(q[1])
           k2 == [f \in Chunks |-> IF f = g THEN 3 ELSE k[f]]
           x2 == [f \in Chunks |->
                    IF f = g THEN Len(h) + 1 ELSE IF k[f] = 2 THEN x[f] - 1 ELSE x[f]]
<1>2. g \in Chunks /\ k[g] = 2 /\ x[g] = 1
  BY <1>1 DEF PlacedAt, Home
<1>3. k2 \in [Chunks -> Int] /\ x2 \in [Chunks -> Int]
  BY <1>2
<1>4. /\ \A f \in Chunks : f # g => /\ k2[f] = k[f]
                                    /\ k[f] = 2 => x2[f] = x[f] - 1
                                    /\ k[f] # 2 => x2[f] = x[f]
      /\ k2[g] = 3 /\ x2[g] = Len(h) + 1
  BY <1>2
<1> HIDE DEF g, k2, x2
<1>5. \A i \in 0 .. n - 1 : st[i] # INVALID_UMEM_FRAME /\ Home(k2, x2, st[i], 1, i)
  BY <1>1, <1>2, <1>4 DEF PlacedAt, Home
<1>6. ASSUME NEW i \in 1 .. Len(q2), q2[i] # INVALID_UMEM_FRAME
      PROVE  Home(k2, x2, q2[i], 2, i)
  <2>1. q2[i] = q[i + 1] /\ i + 1 \in 1 .. Len(q) /\ i + 1 # 1 /\ (i + 1) - 1 = i
    BY <1>6 DEF Shifted
  <2>2. Home(k, x, q[i + 1], 2, i + 1)
    BY <1>1, <1>6, <2>1 DEF PlacedAt
  <2>3. FrameOf(q[i + 1]) # g
    BY <1>2, <2>1, <2>2 DEF Home
  <2>4. k2[FrameOf(q[i + 1])] = 2 /\ x2[FrameOf(q[i + 1])] = (i + 1) - 1
    BY ONLY <1>4, <2>3, <2>2 DEF Home
  <2> QED
    BY ONLY <2>1, <2>2, <2>4 DEF Home
<1>7. ASSUME NEW i \in 1 .. Len(h2)
      PROVE  Home(k2, x2, h2[i], 3, i)
  <2>1. CASE i = Len(h) + 1
    <3>1. FrameOf(h2[i]) = g
      BY <2>1 DEF Extended, g
    <3> QED
      BY <1>2, <1>4, <2>1, <3>1 DEF Home
  <2>2. CASE i # Len(h) + 1
    <3>1. i \in 1 .. Len(h) /\ h2[i] = h[i]
      BY <2>2 DEF Extended
    <3>2. Home(k, x, h[i], 3, i)
      BY <1>1, <3>1 DEF PlacedAt
    <3>3. FrameOf(h[i]) # g
      BY <1>2, <3>2 DEF Home
    <3> QED
      BY ONLY <1>4, <3>1, <3>2, <3>3 DEF Home
  <2> QED
    BY <2>1, <2>2
<1>8. \A i \in d + 1 .. Len(w) : Home(k2, x2, w[i], 4, i)
  BY <1>1, <1>2, <1>4 DEF PlacedAt, Home
<1>9. ASSUME NEW f \in Chunks
      PROVE  IsAt(k2, x2, f, st, n, q2, h2, w, d)
  <2>1. CASE f = g
    <3>1. Len(h) + 1 \in 1 .. Len(h2) /\ FrameOf(h2[Len(h) + 1]) = f
      BY <2>1 DEF Extended, g
    <3> QED
      BY <1>4, <2>1, <3>1 DEF IsAt
  <2>2. CASE f # g
    <3>1. k2[f] = k[f] /\ (k[f] = 2 => x2[f] = x[f] - 1) /\ (k[f] # 2 => x2[f] = x[f])
      BY <1>4, <2>2
    <3>2. IsAt(k, x, f, st, n, q, h, w, d)
      BY <1>1 DEF PlacedAt
    <3>3. CASE k[f] = 1 \/ k[f] = 4
      BY ONLY <3>1, <3>2, <3>3 DEF IsAt
    <3>4. CASE k[f] = 2
      <4>1. x[f] \in 1 .. Len(q) /\ q[x[f]] # INVALID_UMEM_FRAME /\ FrameOf(q[x[f]]) = f
        BY ONLY <3>2, <3>4 DEF IsAt
      <4>2. x[f] # 1
        BY <2>2, <4>1 DEF g
      <4>3. x[f] - 1 \in 1 .. Len(q2) /\ q2[x[f] - 1] = q[x[f]]
        BY <4>1, <4>2 DEF Shifted
      <4> QED
        BY ONLY <3>1, <3>4, <4>1, <4>3 DEF IsAt
    <3>5. CASE k[f] = 3
      <4>1. x[f] \in 1 .. Len(h) /\ FrameOf(h[x[f]]) = f
        BY ONLY <3>2, <3>5 DEF IsAt
      <4>2. x[f] \in 1 .. Len(h2) /\ h2[x[f]] = h[x[f]]
        BY <4>1 DEF Extended
      <4> QED
        BY ONLY <3>1, <3>5, <4>1, <4>2 DEF IsAt
    <3> QED
      BY <3>2, <3>3, <3>4, <3>5 DEF IsAt
  <2> QED
    BY <2>1, <2>2
<1> QED
  BY <1>3, <1>5, <1>6, <1>7, <1>8, <1>9 DEF Placed, PlacedAt

\* The driver delivers the first frame it holds.
LEMMA PlacedDelivers ==
  ASSUME NEW st, NEW n \in Nat, NEW q, NEW h, NEW w, NEW d \in Nat,
         Len(q) \in Nat, Len(h) \in Nat, Len(w) \in Nat, d <= Len(w),
         Placed(st, n, q, h, w, d),
         NEW h2, NEW w2, NEW y,
         Len(h) > 0, FrameOf(y) = FrameOf(h[1]), Shifted(h, h2), Extended(w, w2, y)
  PROVE  Placed(st, n, q, h2, w2, d)
<1>1. PICK k, x \in [Chunks -> Int] : PlacedAt(k, x, st, n, q, h, w, d)
  BY DEF Placed
<1> DEFINE g == FrameOf(h[1])
           k2 == [f \in Chunks |-> IF f = g THEN 4 ELSE k[f]]
           x2 == [f \in Chunks |->
                    IF f = g THEN Len(w) + 1 ELSE IF k[f] = 3 THEN x[f] - 1 ELSE x[f]]
<1>2. g \in Chunks /\ k[g] = 3 /\ x[g] = 1
  BY <1>1 DEF PlacedAt, Home
<1>3. k2 \in [Chunks -> Int] /\ x2 \in [Chunks -> Int]
  BY <1>2
<1>4. /\ \A f \in Chunks : f # g => /\ k2[f] = k[f]
                                    /\ k[f] = 3 => x2[f] = x[f] - 1
                                    /\ k[f] # 3 => x2[f] = x[f]
      /\ k2[g] = 4 /\ x2[g] = Len(w) + 1
  BY <1>2
<1> HIDE DEF g, k2, x2
<1>5. \A i \in 0 .. n - 1 : st[i] # INVALID_UMEM_FRAME /\ Home(k2, x2, st[i], 1, i)
  BY <1>1, <1>2, <1>4 DEF PlacedAt, Home
<1>6. \A i \in 1 .. Len(q) : q[i] # INVALID_UMEM_FRAME => Home(k2, x2, q[i], 2, i)
  BY <1>1, <1>2, <1>4 DEF PlacedAt, Home
<1>7. ASSUME NEW i \in 1 .. Len(h2)
      PROVE  Home(k2, x2, h2[i], 3, i)
  <2>1. h2[i] = h[i + 1] /\ i + 1 \in 1 .. Len(h) /\ i + 1 # 1 /\ (i + 1) - 1 = i
    BY DEF Shifted
  <2>2. Home(k, x, h[i + 1], 3, i + 1)
    BY <1>1, <2>1 DEF PlacedAt
  <2>3. FrameOf(h[i + 1]) # g
    BY <1>2, <2>1, <2>2 DEF Home
  <2>4. k2[FrameOf(h[i + 1])] = 3 /\ x2[FrameOf(h[i + 1])] = (i + 1) - 1
    BY ONLY <1>4, <2>3, <2>2 DEF Home
  <2> QED
    BY ONLY <2>1, <2>2, <2>4 DEF Home
<1>8. ASSUME NEW i \in d + 1 .. Len(w2)
      PROVE  Home(k2, x2, w2[i], 4, i)
  <2>1. CASE i = Len(w) + 1
    <3>1. FrameOf(w2[i]) = g
      BY <2>1 DEF Extended, g
    <3> QED
      BY <1>2, <1>4, <2>1, <3>1 DEF Home
  <2>2. CASE i # Len(w) + 1
    <3>1. i \in d + 1 .. Len(w) /\ w2[i] = w[i]
      BY <2>2 DEF Extended
    <3>2. Home(k, x, w[i], 4, i)
      BY <1>1, <3>1 DEF PlacedAt
    <3>3. FrameOf(w[i]) # g
      BY <1>2, <3>2 DEF Home
    <3> QED
      BY ONLY <1>4, <3>1, <3>2, <3>3 DEF Home
  <2> QED
    BY <2>1, <2>2
<1>9. ASSUME NEW f \in Chunks
      PROVE  IsAt(k2, x2, f, st, n, q, h2, w2, d)
  <2>1. CASE f = g
    <3>1. Len(w) + 1 \in d + 1 .. Len(w2) /\ FrameOf(w2[Len(w) + 1]) = f
      BY <2>1 DEF Extended, g
    <3> QED
      BY <1>4, <2>1, <3>1 DEF IsAt
  <2>2. CASE f # g
    <3>1. k2[f] = k[f] /\ (k[f] = 3 => x2[f] = x[f] - 1) /\ (k[f] # 3 => x2[f] = x[f])
      BY <1>4, <2>2
    <3>2. IsAt(k, x, f, st, n, q, h, w, d)
      BY <1>1 DEF PlacedAt
    <3>3. CASE k[f] = 1 \/ k[f] = 2
      BY ONLY <3>1, <3>2, <3>3 DEF IsAt
    <3>4. CASE k[f] = 3
      <4>1. x[f] \in 1 .. Len(h) /\ FrameOf(h[x[f]]) = f
        BY ONLY <3>2, <3>4 DEF IsAt
      <4>2. x[f] # 1
        BY <2>2, <4>1 DEF g
      <4>3. x[f] - 1 \in 1 .. Len(h2) /\ h2[x[f] - 1] = h[x[f]]
        BY <4>1, <4>2 DEF Shifted
      <4> QED
        BY ONLY <3>1, <3>4, <4>1, <4>3 DEF IsAt
    <3>5. CASE k[f] = 4
      <4>1. x[f] \in d + 1 .. Len(w) /\ FrameOf(w[x[f]]) = f
        BY ONLY <3>2, <3>5 DEF IsAt
      <4>2. x[f] \in d + 1 .. Len(w2) /\ w2[x[f]] = w[x[f]]
        BY <4>1 DEF Extended
      <4> QED
        BY ONLY <3>1, <3>5, <4>1, <4>2 DEF IsAt
    <3> QED
      BY <3>2, <3>3, <3>4, <3>5 DEF IsAt
  <2> QED
    BY <2>1, <2>2
<1> QED
  BY <1>3, <1>5, <1>6, <1>7, <1>8, <1>9 DEF Placed, PlacedAt

\* The kernel skips an entry of the fill ring that is no frame.
LEMMA PlacedSkips ==
  ASSUME NEW st, NEW n \in Nat, NEW q, NEW h, NEW w, NEW d \in Nat,
         Len(q) \in Nat, Placed(st, n, q, h, w, d),
         NEW q2, Len(q) > 0, q[1] = INVALID_UMEM_FRAME, Shifted(q, q2)
  PROVE  Placed(st, n, q2, h, w, d)
<1>1. PICK k, x \in [Chunks -> Int] : PlacedAt(k, x, st, n, q, h, w, d)
  BY DEF Placed
<1> DEFINE x2 == [f \in Chunks |-> IF k[f] = 2 THEN x[f] - 1 ELSE x[f]]
<1>2. /\ x2 \in [Chunks -> Int]
      /\ \A f \in Chunks : (k[f] = 2 => x2[f] = x[f] - 1) /\ (k[f] # 2 => x2[f] = x[f])
  OBVIOUS
<1> HIDE DEF x2
<1>3. /\ \A i \in 0 .. n - 1 : st[i] # INVALID_UMEM_FRAME /\ Home(k, x2, st[i], 1, i)
      /\ \A i \in 1 .. Len(h) : Home(k, x2, h[i], 3, i)
      /\ \A i \in d + 1 .. Len(w) : Home(k, x2, w[i], 4, i)
  BY <1>1, <1>2 DEF PlacedAt, Home
<1>4. ASSUME NEW i \in 1 .. Len(q2), q2[i] # INVALID_UMEM_FRAME
      PROVE  Home(k, x2, q2[i], 2, i)
  <2>1. q2[i] = q[i + 1] /\ i + 1 \in 1 .. Len(q) /\ (i + 1) - 1 = i
    BY <1>4 DEF Shifted
  <2>2. Home(k, x, q[i + 1], 2, i + 1)
    BY <1>1, <1>4, <2>1 DEF PlacedAt
  <2> QED
    BY ONLY <1>2, <2>1, <2>2 DEF Home
<1>5. ASSUME NEW f \in Chunks
      PROVE  IsAt(k, x2, f, st, n, q2, h, w, d)
  <2>1. IsAt(k, x, f, st, n, q, h, w, d)
    BY <1>1 DEF PlacedAt
  <2>2. (k[f] = 2 => x2[f] = x[f] - 1) /\ (k[f] # 2 => x2[f] = x[f])
    BY <1>2
  <2>3. CASE k[f] = 2
    <3>1. x[f] \in 1 .. Len(q) /\ q[x[f]] # INVALID_UMEM_FRAME /\ FrameOf(q[x[f]]) = f
      BY ONLY <2>1, <2>3 DEF IsAt
    <3>2. x[f] # 1
      BY <3>1
    <3>3. x[f] - 1 \in 1 .. Len(q2) /\ q2[x[f] - 1] = q[x[f]]
      BY <3>1, <3>2 DEF Shifted
    <3> QED
      BY ONLY <2>2, <2>3, <3>1, <3>3 DEF IsAt
  <2>4. CASE k[f] # 2
    BY ONLY <2>1, <2>2, <2>4 DEF IsAt
  <2> QED
    BY <2>3, <2>4
<1> QED
  BY <1>1, <1>2, <1>3, <1>4, <1>5 DEF Placed, PlacedAt

\* Releasing the d processed packets renumbers the others.
LEMMA PlacedReleased ==
  ASSUME NEW st, NEW n \in Nat, NEW q, NEW h, NEW w, NEW d \in Nat,
         Len(w) \in Nat, d <= Len(w), Placed(st, n, q, h, w, d),
         NEW w2, Len(w2) = Len(w) - d, \A i \in 1 .. Len(w2) : w2[i] = w[i + d]
  PROVE  Placed(st, n, q, h, w2, 0)
<1>1. PICK k, x \in [Chunks -> Int] : PlacedAt(k, x, st, n, q, h, w, d)
  BY DEF Placed
<1> DEFINE x2 == [f \in Chunks |-> IF k[f] = 4 THEN x[f] - d ELSE x[f]]
<1>2. /\ x2 \in [Chunks -> Int]
      /\ \A f \in Chunks : (k[f] = 4 => x2[f] = x[f] - d) /\ (k[f] # 4 => x2[f] = x[f])
  OBVIOUS
<1> HIDE DEF x2
<1>3. /\ \A i \in 0 .. n - 1 : st[i] # INVALID_UMEM_FRAME /\ Home(k, x2, st[i], 1, i)
      /\ \A i \in 1 .. Len(q) : q[i] # INVALID_UMEM_FRAME => Home(k, x2, q[i], 2, i)
      /\ \A i \in 1 .. Len(h) : Home(k, x2, h[i], 3, i)
  BY <1>1, <1>2 DEF PlacedAt, Home
<1>4. ASSUME NEW i \in 0 + 1 .. Len(w2)
      PROVE  Home(k, x2, w2[i], 4, i)
  <2>1. w2[i] = w[i + d] /\ i + d \in d + 1 .. Len(w) /\ (i + d) - d = i
    OBVIOUS
  <2>2. Home(k, x, w[i + d], 4, i + d)
    BY <1>1, <2>1 DEF PlacedAt
  <2> QED
    BY ONLY <1>2, <2>1, <2>2 DEF Home
<1>5. ASSUME NEW f \in Chunks
      PROVE  IsAt(k, x2, f, st, n, q, h, w2, 0)
  <2>1. IsAt(k, x, f, st, n, q, h, w, d)
    BY <1>1 DEF PlacedAt
  <2>2. (k[f] = 4 => x2[f] = x[f] - d) /\ (k[f] # 4 => x2[f] = x[f])
    BY <1>2
  <2>3. CASE k[f] = 4
    <3>1. x[f] \in d + 1 .. Len(w) /\ FrameOf(w[x[f]]) = f
      BY ONLY <2>1, <2>3 DEF IsAt
    <3>2. x[f] - d \in 0 + 1 .. Len(w2) /\ w2[x[f] - d] = w[x[f]]
      <4>1. x[f] - d \in 1 .. Len(w2) /\ (x[f] - d) + d = x[f]
        BY <3>1
      <4> QED
        BY <4>1
    <3> QED
      BY ONLY <2>2, <2>3, <3>1, <3>2 DEF IsAt
  <2>4. CASE k[f] # 4
    BY ONLY <2>1, <2>2, <2>4 DEF IsAt
  <2> QED
    BY <2>3, <2>4
<1> QED
  BY <1>1, <1>2, <1>3, <1>4, <1>5 DEF Placed, PlacedAt

\* The frame of the first packet not yet processed goes back to the stack.
LEMMA PlacedFreed ==
  ASSUME NEW st, NEW n \in Nat, NEW q, NEW h, NEW w, NEW d \in Nat,
         Len(w) \in Nat, d < Len(w), Placed(st, n, q, h, w, d),
         NEW st2, st2[n] = w[d + 1], w[d + 1] # INVALID_UMEM_FRAME,
         \A i \in 0 .. n - 1 : st2[i] = st[i]
  PROVE  Placed(st2, n + 1, q, h, w, d + 1)
<1>1. PICK k, x \in [Chunks -> Int] : PlacedAt(k, x, st, n, q, h, w, d)
  BY DEF Placed
<1> DEFINE g == FrameOf(w[d + 1])
           k2 == [f \in Chunks |-> IF f = g THEN 1 ELSE k[f]]
           x2 == [f \in Chunks |-> IF f = g THEN n ELSE x[f]]
<1>2. g \in Chunks /\ k[g] = 4 /\ x[g] = d + 1
  BY <1>1 DEF PlacedAt, Home
<1>3. k2 \in [Chunks -> Int] /\ x2 \in [Chunks -> Int]
  BY <1>2
<1>4. /\ \A f \in Chunks : f # g => k2[f] = k[f] /\ x2[f] = x[f]
      /\ k2[g] = 1 /\ x2[g] = n
  BY <1>2
<1> HIDE DEF g, k2, x2
<1>5. ASSUME NEW i \in 0 .. (n + 1) - 1
      PROVE  st2[i] # INVALID_UMEM_FRAME /\ Home(k2, x2, st2[i], 1, i)
  <2>1. CASE i = n
    BY <1>2, <1>4, <2>1 DEF Home, g
  <2>2. CASE i # n
    <3>1. i \in 0 .. n - 1 /\ st2[i] = st[i]
      BY <2>2
    <3>2. st[i] # INVALID_UMEM_FRAME /\ Home(k, x, st[i], 1, i)
      BY <1>1, <3>1 DEF PlacedAt
    <3>3. FrameOf(st[i]) # g
      BY <1>2, <3>2 DEF Home
    <3> QED
      BY ONLY <1>4, <3>1, <3>2, <3>3 DEF Home
  <2> QED
    BY <2>1, <2>2
<1>6. /\ \A i \in 1 .. Len(q) : q[i] # INVALID_UMEM_FRAME => Home(k2, x2, q[i], 2, i)
      /\ \A i \in 1 .. Len(h) : Home(k2, x2, h[i], 3, i)
  BY <1>1, <1>2, <1>4, SMTT(30) DEF PlacedAt, Home
<1>7. ASSUME NEW i \in (d + 1) + 1 .. Len(w)
      PROVE  Home(k2, x2, w[i], 4, i)
  <2>1. i \in d + 1 .. Len(w) /\ i # d + 1
    OBVIOUS
  <2>2. Home(k, x, w[i], 4, i)
    BY <1>1, <2>1 DEF PlacedAt
  <2>3. FrameOf(w[i]) # g
    BY <1>2, <2>1, <2>2 DEF Home
  <2> QED
    BY ONLY <1>4, <2>2, <2>3 DEF Home
<1>8. ASSUME NEW f \in Chunks
      PROVE  IsAt(k2, x2, f, st2, n + 1, q, h, w, d + 1)
  <2>1. CASE f = g
    <3>1. n \in 0 .. (n + 1) - 1 /\ FrameOf(st2[n]) = f
      BY <2>1 DEF g
    <3> QED
      BY <1>4, <2>1, <3>1 DEF IsAt
  <2>2. CASE f # g
    <3>1. k2[f] = k[f] /\ x2[f] = x[f]
      BY <1>4, <2>2
    <3>2. IsAt(k, x, f, st, n, q, h, w, d)
      BY <1>1 DEF PlacedAt
    <3>3. CASE k[f] = 1
      <4>1. x[f] \in 0 .. n - 1 /\ FrameOf(st[x[f]]) = f
        BY ONLY <3>2, <3>3 DEF IsAt
      <4>2. x[f] \in 0 .. (n + 1) - 1 /\ st2[x[f]] = st[x[f]]
        BY <4>1
      <4> QED
        BY ONLY <3>1, <3>3, <4>1, <4>2 DEF IsAt
    <3>4. CASE k[f] = 2 \/ k[f] = 3
      BY ONLY <3>1, <3>2, <3>4 DEF IsAt
    <3>5. CASE k[f] = 4
      <4>1. x[f] \in d + 1 .. Len(w) /\ FrameOf(w[x[f]]) = f
        BY ONLY <3>2, <3>5 DEF IsAt
      <4>2. x[f] # d + 1
        BY <2>2, <4>1 DEF g
      <4>3. x[f] \in (d + 1) + 1 .. Len(w)
        BY <4>1, <4>2
      <4> QED
        BY ONLY <3>1, <3>5, <4>1, <4>3 DEF IsAt
    <3> QED
      BY <3>2, <3>3, <3>4, <3>5 DEF IsAt
  <2> QED
    BY <2>1, <2>2
<1> QED
  BY <1>3, <1>5, <1>6, <1>7, <1>8 DEF Placed, PlacedAt

\* m frames leave the top of the stack for the end of the fill ring, behind which come as
\* many invalid addresses as the stack could not answer for.
Stocked(st, n, q, st2, q2, m, l) ==
  /\ m \in 0 .. n /\ l \in Nat /\ m <= l /\ Len(q2) = Len(q) + l
  /\ \A i \in 0 .. (n - m) - 1 : st2[i] = st[i]
  /\ \A i \in 1 .. Len(q) : q2[i] = q[i]
  /\ \A j \in 1 .. m : q2[Len(q) + j] = st[n - j]
  /\ \A j \in m + 1 .. l : q2[Len(q) + j] = INVALID_UMEM_FRAME

LEMMA PlacedStocked ==
  ASSUME NEW st, NEW n \in Nat, NEW q, NEW h, NEW w, NEW d \in Nat,
         Len(q) \in Nat, Placed(st, n, q, h, w, d),
         NEW st2, NEW q2, NEW m, NEW l, Stocked(st, n, q, st2, q2, m, l)
  PROVE  Placed(st2, n - m, q2, h, w, d)
<1>0. /\ m \in 0 .. n /\ l \in Nat /\ m <= l /\ Len(q2) = Len(q) + l
      /\ \A i \in 0 .. (n - m) - 1 : st2[i] = st[i]
      /\ \A i \in 1 .. Len(q) : q2[i] = q[i]
      /\ \A j \in 1 .. m : q2[Len(q) + j] = st[n - j]
      /\ \A j \in m + 1 .. l : q2[Len(q) + j] = INVALID_UMEM_FRAME
  BY DEF Stocked
<1> USE <1>0
<1>1. PICK k, x \in [Chunks -> Int] : PlacedAt(k, x, st, n, q, h, w, d)
  BY DEF Placed
<1> DEFINE Gone(f) == k[f] = 1 /\ x[f] >= n - m
           k2 == [f \in Chunks |-> IF Gone(f) THEN 2 ELSE k[f]]
           x2 == [f \in Chunks |-> IF Gone(f) THEN Len(q) + (n - x[f]) ELSE x[f]]
<1>2. k2 \in [Chunks -> Int] /\ x2 \in [Chunks -> Int]
  OBVIOUS
<1>3. \A f \in Chunks : /\ x[f] \in Int
                        /\ Gone(f) => k2[f] = 2 /\ x2[f] = Len(q) + (n - x[f])
                        /\ ~ Gone(f) => k2[f] = k[f] /\ x2[f] = x[f]
  OBVIOUS
<1> HIDE DEF k2, x2
<1>4. ASSUME NEW i \in 0 .. (n - m) - 1
      PROVE  st2[i] # INVALID_UMEM_FRAME /\ Home(k2, x2, st2[i], 1, i)
  <2>1. st2[i] = st[i] /\ i \in 0 .. n - 1 /\ ~ (i >= n - m)
    OBVIOUS
  <2>2. st[i] # INVALID_UMEM_FRAME /\ Home(k, x, st[i], 1, i)
    BY <1>1, <2>1 DEF PlacedAt
  <2>3. ~ Gone(FrameOf(st[i]))
    BY <2>1, <2>2 DEF Home
  <2> QED
    BY ONLY <1>3, <2>1, <2>2, <2>3 DEF Home
<1>5. ASSUME NEW i \in 1 .. Len(q2), q2[i] # INVALID_UMEM_FRAME
      PROVE  Home(k2, x2, q2[i], 2, i)
  <2>1. CASE i <= Len(q)
    <3>1. i \in 1 .. Len(q) /\ q2[i] = q[i]
      BY <2>1
    <3>2. Home(k, x, q[i], 2, i)
      BY <1>1, <1>5, <3>1 DEF PlacedAt
    <3>3. ~ Gone(FrameOf(q[i]))
      BY <3>2 DEF Home
    <3> QED
      BY ONLY <1>3, <3>1, <3>2, <3>3 DEF Home
  <2>2. CASE ~ (i <= Len(q))
    <3>1. PICK j \in 1 .. l : i = Len(q) + j
      <4>1. i - Len(q) \in 1 .. l /\ i = Len(q) + (i - Len(q))
        BY <2>2
      <4> QED
        BY <4>1
    <3>2. j \in 1 .. m
      <4>1. CASE j > m
        BY <1>5, <3>1, <4>1
      <4>2. CASE ~ (j > m)
        BY <4>2
      <4> QED
        BY <4>1, <4>2
    <3>3. q2[i] = st[n - j] /\ n - j \in 0 .. n - 1 /\ n - j >= n - m /\ n - (n - j) = j
      BY <3>1, <3>2
    <3>4. Home(k, x, st[n - j], 1, n - j)
      BY <1>1, <3>3 DEF PlacedAt
    <3>5. Gone(FrameOf(st[n - j]))
      BY <3>3, <3>4 DEF Home
    <3> QED
      BY ONLY <1>3, <3>1, <3>3, <3>4, <3>5 DEF Home
  <2> QED
    BY <2>1, <2>2
<1>6. /\ \A i \in 1 .. Len(h) : Home(k2, x2, h[i], 3, i)
      /\ \A i \in d + 1 .. Len(w) : Home(k2, x2, w[i], 4, i)
  BY <1>1, <1>3, SMTT(30) DEF PlacedAt, Home
<1>7. ASSUME NEW f \in Chunks
      PROVE  IsAt(k2, x2, f, st2, n - m, q2, h, w, d)
  <2>1. IsAt(k, x, f, st, n, q, h, w, d)
    BY <1>1 DEF PlacedAt
  <2>2. CASE Gone(f)
    <3>1. x[f] \in 0 .. n - 1 /\ FrameOf(st[x[f]]) = f /\ x[f] >= n - m
      BY ONLY <2>1, <2>2 DEF IsAt
    <3>2. PICK j \in 1 .. m : x[f] = n - j
      <4>1. n - x[f] \in 1 .. m /\ x[f] = n - (n - x[f])
        BY <3>1
      <4> QED
        BY <4>1
    <3>3. /\ Len(q) + j \in 1 .. Len(q2) /\ q2[Len(q) + j] = st[x[f]]
          /\ Len(q) + (n - x[f]) = Len(q) + j
      BY <3>2
    <3>4. st[x[f]] # INVALID_UMEM_FRAME
      BY <1>1, <3>1 DEF PlacedAt
    <3>5. k2[f] = 2 /\ x2[f] = Len(q) + j
      BY <1>3, <2>2, <3>3
    <3> QED
      BY ONLY <3>1, <3>3, <3>4, <3>5 DEF IsAt
  <2>3. CASE ~ Gone(f)
    <3>1. k2[f] = k[f] /\ x2[f] = x[f]
      BY <1>3, <2>3
    <3>2. CASE k[f] = 1
      <4>1. x[f] \in 0 .. n - 1 /\ FrameOf(st[x[f]]) = f
        BY ONLY <2>1, <3>2 DEF IsAt
      <4>2. x[f] \in 0 .. (n - m) - 1 /\ st2[x[f]] = st[x[f]]
        BY <2>3, <3>2, <4>1
      <4> QED
        BY ONLY <3>1, <3>2, <4>1, <4>2 DEF IsAt
    <3>3. CASE k[f] = 2
      <4>1. x[f] \in 1 .. Len(q) /\ q[x[f]] # INVALID_UMEM_FRAME /\ FrameOf(q[x[f]]) = f
        BY ONLY <2>1, <3>3 DEF IsAt
      <4>2. x[f] \in 1 .. Len(q2) /\ q2[x[f]] = q[x[f]]
        BY <4>1
      <4> QED
        BY ONLY <3>1, <3>3, <4>1, <4>2 DEF IsAt
    <3>4. CASE k[f] = 3 \/ k[f] = 4
      BY ONLY <2>1, <3>1, <3>4 DEF IsAt
    <3> QED
      BY <2>1, <3>2, <3>3, <3>4 DEF IsAt
  <2> QED
    BY <2>2, <2>3
<1> QED
  BY <1>2, <1>4, <1>5, <1>6, <1>7 DEF Placed, PlacedAt

\* While a packet is still to be processed the stack is not full: its frames are different
\* ones, and the packet's frame is not among them.
LEMMA StackNotFull ==
  ASSUME NEW st, NEW n \in 0 .. NUM_FRAMES, NEW q, NEW h, NEW w, NEW d \in Nat,
         Len(w) \in Nat, d < Len(w), Placed(st, n, q, h, w, d)
  PROVE  n < NUM_FRAMES
<1> SUFFICES ASSUME n = NUM_FRAMES PROVE FALSE
  BY FrameAssumption
<1>1. PICK k, x \in [Chunks -> Int] : PlacedAt(k, x, st, n, q, h, w, d)
  BY DEF Placed
<1> DEFINE S == 0 .. n - 1
           fr == [i \in S |-> FrameOf(st[i])]
<1>2. \A i \in S : fr[i] = FrameOf(st[i]) /\ Home(k, x, st[i], 1, i)
  BY <1>1 DEF PlacedAt
<1>3. fr \in [S -> Chunks]
  BY <1>2 DEF Home
<1>4. \A i, j \in S : fr[i] = fr[j] => i = j
  BY <1>2 DEF Home
<1>5. fr \in Injection(S, Chunks)
  BY <1>3, <1>4 DEF Injection, IsInjective
<1>6. S = Chunks
  BY DEF Chunks
<1> HIDE DEF S, fr
<1>7. IsFiniteSet(Chunks)
  BY FS_Interval, FrameAssumption DEF Chunks
<1>8. fr \in Surjection(S, Chunks)
  BY <1>5, <1>6, <1>7, FS_Injection
<1>9. FrameOf(w[d + 1]) \in Chunks /\ k[FrameOf(w[d + 1])] = 4
  BY <1>1 DEF PlacedAt, Home
<1>10. PICK i \in S : fr[i] = FrameOf(w[d + 1])
  BY <1>8, <1>9 DEF Surjection
<1> QED
  BY <1>2, <1>9, <1>10 DEF Home

\* A set with one member, and one with none.
LEMMA Counts ==
  ASSUME NEW S
  PROVE  /\ \A e \in S : (\A i \in S : i = e) => Cardinality(S) = 1
         /\ (\A i \in S : FALSE) => Cardinality(S) = 0
<1>1. ASSUME NEW e \in S, \A i \in S : i = e PROVE Cardinality(S) = 1
  <2>1. S = {e}
    BY <1>1
  <2> QED
    BY <2>1, FS_Singleton
<1>2. ASSUME \A i \in S : FALSE PROVE Cardinality(S) = 0
  <2>1. S = {}
    BY <1>2
  <2> QED
    BY <2>1, FS_EmptySet
<1> QED
  BY <1>1, <1>2

\* How often frame f is counted.
Tally(st, n, q, h, w, f) ==
  Cardinality({i \in 0 .. n - 1 : FrameOf(st[i]) = f})
    + Cardinality({i \in DOMAIN q : q[i] # INVALID_UMEM_FRAME /\ FrameOf(q[i]) = f})
    + Cardinality({i \in DOMAIN h : h[i] # INVALID_UMEM_FRAME /\ FrameOf(h[i]) = f})
    + Cardinality({i \in DOMAIN w : w[i] # INVALID_UMEM_FRAME /\ FrameOf(w[i]) = f})

\* A frame that has its place is counted once.
LEMMA CountedOnce ==
  ASSUME NEW st, NEW n \in Nat, NEW q, NEW h, NEW w, NEW f \in Chunks,
         Placed(st, n, q, h, w, 0),
         DOMAIN q = 1 .. Len(q), DOMAIN h = 1 .. Len(h), DOMAIN w = 1 .. Len(w),
         \A i \in DOMAIN h : h[i] # INVALID_UMEM_FRAME,
         \A i \in DOMAIN w : w[i] # INVALID_UMEM_FRAME
  PROVE  Tally(st, n, q, h, w, f) = 1
<1>1. PICK k, x \in [Chunks -> Int] : PlacedAt(k, x, st, n, q, h, w, 0)
  BY DEF Placed
<1> DEFINE A == {i \in 0 .. n - 1 : FrameOf(st[i]) = f}
           B == {i \in DOMAIN q : q[i] # INVALID_UMEM_FRAME /\ FrameOf(q[i]) = f}
           C == {i \in DOMAIN h : h[i] # INVALID_UMEM_FRAME /\ FrameOf(h[i]) = f}
           D == {i \in DOMAIN w : w[i] # INVALID_UMEM_FRAME /\ FrameOf(w[i]) = f}
<1>2. /\ \A i \in A : k[f] = 1 /\ i = x[f]
      /\ \A i \in B : k[f] = 2 /\ i = x[f]
      /\ \A i \in C : k[f] = 3 /\ i = x[f]
      /\ \A i \in D : k[f] = 4 /\ i = x[f]
  BY <1>1 DEF PlacedAt, Home
<1>3. \/ k[f] = 1 /\ x[f] \in A
      \/ k[f] = 2 /\ x[f] \in B
      \/ k[f] = 3 /\ x[f] \in C
      \/ k[f] = 4 /\ x[f] \in D
  <2>1. IsAt(k, x, f, st, n, q, h, w, 0)
    BY <1>1 DEF PlacedAt
  <2> QED
    BY <2>1 DEF IsAt
<1> HIDE DEF A, B, C, D
<1>4. Cardinality(A) + Cardinality(B) + Cardinality(C) + Cardinality(D) = 1
  <2>1. CASE k[f] = 1
    <3>1. Cardinality(A) = 1 /\ Cardinality(B) = 0 /\ Cardinality(C) = 0 /\ Cardinality(D) = 0
      BY <1>2, <1>3, <2>1, Counts
    <3> QED
      BY <3>1
  <2>2. CASE k[f] = 2
    <3>1. Cardinality(A) = 0 /\ Cardinality(B) = 1 /\ Cardinality(C) = 0 /\ Cardinality(D) = 0
      BY <1>2, <1>3, <2>2, Counts
    <3> QED
      BY <3>1
  <2>3. CASE k[f] = 3
    <3>1. Cardinality(A) = 0 /\ Cardinality(B) = 0 /\ Cardinality(C) = 1 /\ Cardinality(D) = 0
      BY <1>2, <1>3, <2>3, Counts
    <3> QED
      BY <3>1
  <2>4. CASE k[f] = 4
    <3>1. Cardinality(A) = 0 /\ Cardinality(B) = 0 /\ Cardinality(C) = 0 /\ Cardinality(D) = 1
      BY <1>2, <1>3, <2>4, Counts
    <3> QED
      BY <3>1
  <2> QED
    BY <1>3, <2>1, <2>2, <2>3, <2>4
<1> QED
  BY <1>4 DEF A, B, C, D, Tally
-----------------------------------------------------------------------------
\* The rings hold no more than they can.
Room ==
  /\ Len(held) <= MaxHeld /\ Len(rx) <= RxSize /\ fqFree + Len(fq) <= FqSize

\* Where the thread is in its loop and in its batch.
BatchOK ==
  /\ rcvd + rxSeen <= Len(rx)
  /\ pc = "poll" => idle < NTimeouts
  /\ pc \notin {"process", "release"} => done = 0
  /\ pc \notin {"stock", "process", "release"} => rcvd = 0
  /\ pc \in {"stock", "process"} => done < rcvd
  /\ pc = "release" => done = rcvd
  /\ pc = "create" => fq = <<>> /\ held = <<>> /\ rx = <<>>

\* Every frame has its place.
InPlace == Capturing => Placed(umem_frame_addr, umem_frame_free, fq, held, rx, done)

\* The books of the frames, and how many entries of the fill ring are none.
Books == BlanksBounded /\ Accounted

IInv == TypeOK /\ Room /\ BatchOK /\ FreeAssertion /\ InPlace /\ Books

\* An empty ring has no blank entry.
LEMMA NoBlanks == Blanks(<<>>) = 0
<1>1. {i \in DOMAIN <<>> : <<>>[i] = INVALID_UMEM_FRAME} = {}
  OBVIOUS
<1> QED
  BY <1>1, FS_EmptySet DEF Blanks

\* Before the socket is configured every ring is empty.
LEMMA InitIInv == Init => IInv
<1> SUFFICES ASSUME Init PROVE IInv
  OBVIOUS
<1>1. 0 \in Addrs
  <2>1. 0 \in Slots /\ 0 * FRAME_SIZE = 0
    BY FrameAssumption DEF Slots
  <2> QED
    BY <2>1, AddrFacts
<1>2. TypeOK
  <2>1. umem_frame_addr \in [Slots -> Addrs \cup {INVALID_UMEM_FRAME}]
    BY <1>1 DEF Init
  <2>2. fq \in Seq(Addrs \cup {INVALID_UMEM_FRAME}) /\ held \in Seq(Addrs) /\ rx \in Seq(Addrs)
    BY DEF Init
  <2>3. /\ umem_frame_free \in 0 .. NUM_FRAMES /\ fqFree \in 0 .. FqSize /\ rxSeen \in 0 .. RxSize
        /\ rcvd \in 0 .. RxSize /\ done \in 0 .. rcvd /\ idle \in 0 .. NTimeouts
    BY FrameAssumption, RingAssumption DEF Init
  <2> QED
    BY <2>1, <2>2, <2>3 DEF Init, TypeOK
<1>3. Room /\ BatchOK
  BY FrameAssumption, RingAssumption DEF Init, Room, BatchOK
<1>4. FreeAssertion /\ InPlace /\ Books
  <2>1. Blanks(fq) = 0
    BY NoBlanks DEF Init
  <2> QED
    BY <2>1 DEF Init, BlanksBounded, Accounted, Capturing, FreeAssertion, InPlace, Books
<1> QED
  BY <1>2, <1>3, <1>4 DEF IInv

\* The capture loop outside the batch: nothing moves but the loop's own state.
LEMMA LoopStep ==
  ASSUME IInv, rx_and_process \/ WhileTest \/ PollNothing \/ PollReady \/ Peek
                 \/ stop_rx_and_process \/ capturaSenial \/ UNCHANGED vars
  PROVE  IInv'
<1> USE DEF IInv, pool, rings, batch, flags
<1>1. CASE rx_and_process \/ WhileTest \/ PollNothing \/ PollReady
  <2>1. /\ UNCHANGED <<umem_frame_addr, umem_frame_free, fq, fqFree, held, rx, rxSeen, rcvd,
                       done>>
        /\ pc \in {"start", "loop", "poll"} /\ pc' \in {"loop", "poll", "returned", "peek"}
    BY <1>1 DEF rx_and_process, WhileTest, GoOn, PollNothing, PollReady
  <2>2. /\ idle' \in 0 .. NTimeouts /\ stop_capture' \in BOOLEAN /\ stop_pt' \in BOOLEAN
        /\ pc' = "poll" => idle' < NTimeouts
    <3>1. idle \in 0 .. NTimeouts /\ (pc = "poll" => idle < NTimeouts)
      BY DEF TypeOK, BatchOK
    <3>2. stop_capture' \in BOOLEAN /\ stop_pt' \in BOOLEAN
      BY <1>1 DEF rx_and_process, WhileTest, PollNothing, PollReady, TypeOK
    <3>3. \/ idle' = 0 /\ pc' # "poll"
          \/ idle' = idle /\ (pc' = "poll" => idle < NTimeouts)
          \/ idle' = idle + 1 /\ pc = "poll" /\ pc' # "poll"
      BY <1>1 DEF rx_and_process, WhileTest, GoOn, PollNothing, PollReady
    <3> QED
      BY <3>1, <3>2, <3>3, RingAssumption
  <2>3. TypeOK'
    BY <2>1, <2>2 DEF TypeOK
  <2>4. Room' /\ BatchOK' /\ FreeAssertion'
    BY <2>1, <2>2 DEF Room, BatchOK, FreeAssertion
  <2> QED
    BY <2>1, <2>3, <2>4
       DEF InPlace, Books, BlanksBounded, Blanks, Accounted, Capturing
<1>2. CASE stop_rx_and_process \/ capturaSenial \/ UNCHANGED vars
  <2>1. /\ UNCHANGED <<umem_frame_addr, umem_frame_free, fq, fqFree, held, rx, rxSeen, rcvd, done,
                       idle, pc>>
        /\ stop_capture' \in BOOLEAN /\ stop_pt' \in BOOLEAN
    BY <1>2 DEF stop_rx_and_process, capturaSenial, vars, TypeOK
  <2>2. TypeOK' /\ Room' /\ BatchOK' /\ FreeAssertion'
    BY <2>1 DEF TypeOK, Room, BatchOK, FreeAssertion
  <2> QED
    BY <2>1, <2>2
       DEF InPlace, Books, BlanksBounded, Blanks, Accounted, Capturing
<1>3. CASE Peek
  <2> DEFINE avail == IF rxSeen = 0 THEN Len(rx) ELSE rxSeen
             n == IF avail > RX_BATCH_SIZE THEN RX_BATCH_SIZE ELSE avail
  <2>1. /\ UNCHANGED <<umem_frame_addr, umem_frame_free, fq, fqFree, held, rx, done,
                       idle, stop_capture, stop_pt>>
        /\ rcvd' = n /\ rxSeen' = avail - n /\ pc = "peek"
        /\ pc' = IF n = 0 THEN "loop" ELSE "stock"
    BY <1>3 DEF Peek
  <2>2. avail \in Nat /\ avail <= Len(rx) /\ Len(rx) \in Nat /\ Len(rx) <= RxSize /\ done = 0
    BY <2>1 DEF TypeOK, BatchOK, Room
  <2> HIDE DEF avail
  <2>3. n \in Nat /\ n <= avail
    BY <2>2, RingAssumption
  <2> HIDE DEF n
  <2>4. rcvd' + rxSeen' <= Len(rx) /\ rcvd' \in 0 .. RxSize /\ rxSeen' \in 0 .. RxSize
        /\ done' \in 0 .. rcvd'
    BY <2>1, <2>2, <2>3, RingAssumption
  <2>5. TypeOK'
    BY <2>1, <2>4 DEF TypeOK
  <2>6. BatchOK'
    BY <2>1, <2>2, <2>3, <2>4 DEF BatchOK
  <2> QED
    BY <2>1, <2>5, <2>6 DEF Room, FreeAssertion,
         InPlace, Books, BlanksBounded, Blanks, Accounted, Capturing
<1> QED
  BY <1>1, <1>2, <1>3

\* What l calls of xsk_alloc_umem_frame on a stack of n frames return and leave: m frames
\* from the top of the stack, and invalid addresses once it is empty.
Given(n, l) == IF l <= n THEN l ELSE n

Allocates(st, n, l) ==
  /\ Allocated(st, n, l) \in Seq(Addrs \cup {INVALID_UMEM_FRAME})
  /\ Len(Allocated(st, n, l)) = l
  /\ StackAfter(st, n, l) \in [Slots -> Addrs \cup {INVALID_UMEM_FRAME}]
  /\ Given(n, l) \in 0 .. n /\ Given(n, l) <= l
  /\ LeftAfter(n, l) = n - Given(n, l)
  /\ \A i \in 0 .. (n - Given(n, l)) - 1 : StackAfter(st, n, l)[i] = st[i]
  /\ \A j \in 1 .. Given(n, l) : Allocated(st, n, l)[j] = st[n - j]
  /\ \A j \in Given(n, l) + 1 .. l : Allocated(st, n, l)[j] = INVALID_UMEM_FRAME

LEMMA Allocation ==
  ASSUME NEW st \in [Slots -> Addrs \cup {INVALID_UMEM_FRAME}],
         NEW n \in 0 .. NUM_FRAMES, NEW l \in Nat
  PROVE  Allocates(st, n, l)
<1>1. Given(n, l) \in 0 .. n /\ Given(n, l) <= l /\ LeftAfter(n, l) = n - Given(n, l)
  BY DEF Given, LeftAfter
<1>2. \A j \in 1 .. l : j <= n => n - j \in Slots
  BY FrameAssumption DEF Slots
<1>3. Allocated(st, n, l) \in [1 .. l -> Addrs \cup {INVALID_UMEM_FRAME}]
  BY <1>2 DEF Allocated
<1>4. Allocated(st, n, l) \in Seq(Addrs \cup {INVALID_UMEM_FRAME}) /\ Len(Allocated(st, n, l)) = l
  BY <1>3
<1>5. StackAfter(st, n, l) \in [Slots -> Addrs \cup {INVALID_UMEM_FRAME}]
  BY DEF StackAfter
<1>6. ASSUME NEW i \in 0 .. (n - Given(n, l)) - 1
      PROVE  StackAfter(st, n, l)[i] = st[i]
  <2>1. i \in Slots /\ l <= n /\ i < n - l
    BY <1>1, FrameAssumption DEF Slots, Given
  <2> QED
    BY <2>1 DEF StackAfter
<1>7. /\ \A j \in 1 .. Given(n, l) : j \in 1 .. l /\ j <= n
      /\ \A j \in Given(n, l) + 1 .. l : j \in 1 .. l /\ ~ (j <= n)
  BY DEF Given
<1>8. /\ \A j \in 1 .. Given(n, l) : Allocated(st, n, l)[j] = st[n - j]
      /\ \A j \in Given(n, l) + 1 .. l : Allocated(st, n, l)[j] = INVALID_UMEM_FRAME
  BY <1>7 DEF Allocated
<1> QED
  BY <1>1, <1>4, <1>5, <1>6, <1>8 DEF Allocates

\* Where the entries of a concatenation come from.
Concatenated(s, t, u) ==
  /\ Len(s) \in Nat /\ Len(t) \in Nat /\ Len(u) = Len(s) + Len(t)
  /\ \A i \in 1 .. Len(s) : u[i] = s[i]
  /\ \A j \in 1 .. Len(t) : u[Len(s) + j] = t[j]

LEMMA Concatenation ==
  ASSUME NEW S, NEW s \in Seq(S), NEW t \in Seq(S)
  PROVE  s \o t \in Seq(S) /\ Concatenated(s, t, s \o t)
<1>1. Len(s) \in Nat /\ Len(t) \in Nat /\ s \o t \in Seq(S) /\ Len(s \o t) = Len(s) + Len(t)
  OBVIOUS
<1>2. ASSUME NEW i \in 1 .. Len(s) PROVE (s \o t)[i] = s[i]
  OBVIOUS
<1>3. ASSUME NEW j \in 1 .. Len(t) PROVE (s \o t)[Len(s) + j] = t[j]
  OBVIOUS
<1> QED
  BY <1>1, <1>2, <1>3 DEF Concatenated

\* Stuffing the fill ring keeps every frame in a place.
LEMMA AllocationPlaced ==
  ASSUME NEW st \in [Slots -> Addrs \cup {INVALID_UMEM_FRAME}],
         NEW n \in 0 .. NUM_FRAMES, NEW l \in Nat,
         NEW q \in Seq(Addrs \cup {INVALID_UMEM_FRAME}), NEW h, NEW w, NEW d \in Nat,
         Placed(st, n, q, h, w, d)
  PROVE  Placed(StackAfter(st, n, l), LeftAfter(n, l), q \o Allocated(st, n, l), h, w, d)
<1> DEFINE m == Given(n, l)
           A == Allocated(st, n, l)
           B == StackAfter(st, n, l)
<1>1. /\ A \in Seq(Addrs \cup {INVALID_UMEM_FRAME}) /\ Len(A) = l /\ m \in 0 .. n /\ m <= l
      /\ LeftAfter(n, l) = n - m
      /\ \A i \in 0 .. (n - m) - 1 : B[i] = st[i]
      /\ \A j \in 1 .. m : A[j] = st[n - j]
      /\ \A j \in m + 1 .. l : A[j] = INVALID_UMEM_FRAME
  <2>1. Allocates(st, n, l)
    BY Allocation
  <2> QED
    BY <2>1 DEF Allocates
<1> HIDE DEF m, A, B
<1>2. PICK q2 : q2 = q \o A
  OBVIOUS
<1>3. /\ Len(q) \in Nat /\ Len(q2) = Len(q) + l
      /\ \A i \in 1 .. Len(q) : q2[i] = q[i]
      /\ \A j \in 1 .. l : q2[Len(q) + j] = A[j]
  <2>1. Concatenated(q, A, q \o A)
    BY <1>1, Concatenation
  <2> QED
    BY <1>1, <1>2, <2>1 DEF Concatenated
<1>4. /\ \A j \in 1 .. m : q2[Len(q) + j] = st[n - j]
      /\ \A j \in m + 1 .. l : q2[Len(q) + j] = INVALID_UMEM_FRAME
  <2>1. (\A j \in 1 .. m : j \in 1 .. l) /\ (\A j \in m + 1 .. l : j \in 1 .. l)
    BY <1>1
  <2> QED
    BY <1>1, <1>3, <2>1
<1>5. n \in Nat
  BY FrameAssumption
<1>6. Placed(B, n - m, q2, h, w, d)
  <2>1. Stocked(st, n, q, B, q2, m, l)
    BY <1>1, <1>3, <1>4 DEF Stocked
  <2> QED
    BY <1>3, <1>5, <2>1, PlacedStocked
<1> QED
  BY <1>1, <1>2, <1>6 DEF A, B, m

\* At the start every frame is on the stack.
LEMMA AllOnStack ==
  Placed([i \in Slots |-> i * FRAME_SIZE], NUM_FRAMES, <<>>, <<>>, <<>>, 0)
<1> DEFINE st == [i \in Slots |-> i * FRAME_SIZE]
           k == [f \in Chunks |-> 1]
           x == [f \in Chunks |-> f]
<1>1. Chunks = Slots /\ Slots = 0 .. NUM_FRAMES - 1
  BY AddrFacts DEF Slots
<1>2. \A i \in Slots : st[i] # INVALID_UMEM_FRAME /\ FrameOf(st[i]) = i
  BY AddrFacts
<1>3. k \in [Chunks -> Int] /\ x \in [Chunks -> Int]
  BY FrameAssumption DEF Chunks
<1>4. \A f \in Chunks : k[f] = 1 /\ x[f] = f
  OBVIOUS
<1> HIDE DEF st, k, x
<1>5. \A i \in 0 .. NUM_FRAMES - 1 : st[i] # INVALID_UMEM_FRAME /\ Home(k, x, st[i], 1, i)
  BY <1>1, <1>2, <1>4 DEF Home
<1>6. \A f \in Chunks : IsAt(k, x, f, st, NUM_FRAMES, <<>>, <<>>, <<>>, 0)
  BY <1>1, <1>2, <1>4 DEF IsAt
<1>7. Len(<<>>) = 0 /\ 1 .. 0 = {} /\ 0 + 1 .. 0 = {}
  OBVIOUS
<1>8. PlacedAt(k, x, st, NUM_FRAMES, <<>>, <<>>, <<>>, 0)
  BY <1>5, <1>6, <1>7 DEF PlacedAt
<1> QED
  BY <1>3, <1>8 DEF Placed, st

\* No address below the top of the stack is invalid.
LEMMA StackValid ==
  ASSUME NEW st, NEW n, NEW q, NEW h, NEW w, NEW d, Placed(st, n, q, h, w, d)
  PROVE  \A i \in 0 .. n - 1 : st[i] # INVALID_UMEM_FRAME
  BY DEF Placed, PlacedAt

\* The entries of a sequence that are no frame are among its entries.
LEMMA BlanksCounted ==
  ASSUME NEW S, NEW s \in Seq(S)
  PROVE  /\ IsFiniteSet({i \in DOMAIN s : s[i] = INVALID_UMEM_FRAME})
         /\ Blanks(s) \in Nat
         /\ Blanks(s) = 0 => \A i \in DOMAIN s : s[i] # INVALID_UMEM_FRAME
<1> DEFINE B == {i \in DOMAIN s : s[i] = INVALID_UMEM_FRAME}
<1>1. Len(s) \in Nat /\ DOMAIN s = 1 .. Len(s)
  OBVIOUS
<1>2. IsFiniteSet(1 .. Len(s))
  BY <1>1, FS_Interval
<1>3. B \subseteq 1 .. Len(s)
  BY <1>1
<1>4. IsFiniteSet(B)
  BY <1>2, <1>3, FS_Subset
<1>5. Cardinality(B) \in Nat /\ (Cardinality(B) = 0 => B = {})
  BY <1>4, FS_CardinalityType, FS_EmptySet
<1> QED
  BY <1>4, <1>5 DEF Blanks

\* Taking the first entry takes a blank exactly when that entry is one.
LEMMA BlanksTaken ==
  ASSUME NEW S, NEW s \in Seq(S), NEW t \in Seq(S), Len(s) > 0, Shifted(s, t)
  PROVE  /\ s[1] = INVALID_UMEM_FRAME => Blanks(t) = Blanks(s) - 1
         /\ s[1] # INVALID_UMEM_FRAME => Blanks(t) = Blanks(s)
<1> DEFINE B == {i \in DOMAIN s : s[i] = INVALID_UMEM_FRAME}
           C == {i \in DOMAIN t : t[i] = INVALID_UMEM_FRAME}
           D == B \ {1}
           next == [i \in C |-> i + 1]
<1>1. /\ Len(s) \in Nat /\ DOMAIN s = 1 .. Len(s) /\ Len(t) = Len(s) - 1
      /\ DOMAIN t = 1 .. Len(s) - 1 /\ \A i \in 1 .. Len(s) - 1 : t[i] = s[i + 1]
  BY DEF Shifted
<1>2. IsFiniteSet(B) /\ IsFiniteSet(C) /\ Blanks(s) = Cardinality(B) /\ Blanks(t) = Cardinality(C)
  BY BlanksCounted DEF Blanks
<1>3. \A i \in C : i \in Int /\ i + 1 \in D
  BY <1>1
<1>4. \A j \in D : j - 1 \in C /\ (j - 1) + 1 = j
  BY <1>1
<1>5. 1 \in B <=> s[1] = INVALID_UMEM_FRAME
  BY <1>1
<1> HIDE DEF B, C
<1>6. next \in [C -> D] /\ \A i \in C : next[i] = i + 1
  BY <1>3
<1>7. (\A i, j \in C : next[i] = next[j] => i = j) /\ \A j \in D : \E i \in C : next[i] = j
  BY <1>3, <1>4, <1>6
<1>8. next \in Bijection(C, D)
  BY <1>6, <1>7 DEF Bijection, Injection, Surjection, IsInjective
<1>9. IsFiniteSet(D)
  BY <1>2, FS_RemoveElement
<1>10. Cardinality(C) = Cardinality(D)
  BY <1>2, <1>8, FS_Bijection DEF ExistsBijection
<1>11. 1 \in B => Cardinality(D) = Cardinality(B) - 1
  BY <1>2, FS_RemoveElement
<1>12. 1 \notin B => D = B
  OBVIOUS
<1> QED
  BY <1>2, <1>5, <1>10, <1>11, <1>12

\* Stuffing the fill ring adds a blank for each frame that the stack is short of.
LEMMA BlanksAdded ==
  ASSUME NEW st \in [Slots -> Addrs \cup {INVALID_UMEM_FRAME}],
         NEW n \in 0 .. NUM_FRAMES, NEW l \in Nat,
         NEW q \in Seq(Addrs \cup {INVALID_UMEM_FRAME}),
         \A i \in 0 .. n - 1 : st[i] # INVALID_UMEM_FRAME
  PROVE  Blanks(q \o Allocated(st, n, l)) = Blanks(q) + (l - Given(n, l))
<1> DEFINE m == Given(n, l)
           A == Allocated(st, n, l)
<1>1. /\ A \in Seq(Addrs \cup {INVALID_UMEM_FRAME}) /\ Len(A) = l /\ m \in 0 .. n /\ m <= l
      /\ \A j \in 1 .. m : A[j] = st[n - j]
      /\ \A j \in m + 1 .. l : A[j] = INVALID_UMEM_FRAME
  <2>1. Allocates(st, n, l)
    BY Allocation
  <2> QED
    BY <2>1 DEF Allocates
<1> HIDE DEF m, A
<1>2. n \in Nat /\ m \in Nat
  BY <1>1, FrameAssumption
<1>3. \A j \in 1 .. m : A[j] # INVALID_UMEM_FRAME
  <2>1. \A j \in 1 .. m : n - j \in 0 .. n - 1
    BY <1>1, <1>2
  <2> QED
    BY <1>1, <2>1
<1>4. PICK r : r = q \o A
  OBVIOUS
<1>5. /\ r \in Seq(Addrs \cup {INVALID_UMEM_FRAME}) /\ Len(q) \in Nat /\ Len(r) = Len(q) + l
      /\ \A i \in 1 .. Len(q) : r[i] = q[i]
      /\ \A j \in 1 .. l : r[Len(q) + j] = A[j]
  <2>1. q \o A \in Seq(Addrs \cup {INVALID_UMEM_FRAME}) /\ Concatenated(q, A, q \o A)
    BY <1>1, Concatenation
  <2> QED
    BY <1>1, <1>4, <2>1 DEF Concatenated
<1> DEFINE B == {i \in DOMAIN q : q[i] = INVALID_UMEM_FRAME}
           C == {i \in DOMAIN r : r[i] = INVALID_UMEM_FRAME}
           D == Len(q) + m + 1 .. Len(q) + l
<1>6. /\ IsFiniteSet(B) /\ Blanks(q) = Cardinality(B) /\ Blanks(q) \in Nat
      /\ Blanks(r) = Cardinality(C)
  BY <1>5, BlanksCounted DEF Blanks
<1>7. IsFiniteSet(D) /\ Cardinality(D) = l - m
  <2>1. Len(q) + m + 1 \in Int /\ Len(q) + l \in Int
    BY <1>2, <1>5
  <2>2. IsFiniteSet(D) /\ Cardinality(D) = IF Len(q) + m + 1 > Len(q) + l THEN 0
                                           ELSE (Len(q) + l) - (Len(q) + m + 1) + 1
    BY ONLY <2>1, FS_Interval
  <2> QED
    BY <1>1, <1>2, <1>5, <2>2
<1>8. DOMAIN q = 1 .. Len(q) /\ DOMAIN r = 1 .. Len(q) + l
  BY <1>5
<1>9. B \cap D = {}
  BY <1>2, <1>5, <1>8
<1>10. ASSUME NEW i \in C PROVE i \in B \cup D
  <2>1. i \in 1 .. Len(q) + l /\ r[i] = INVALID_UMEM_FRAME
    BY <1>8
  <2>2. CASE i <= Len(q)
    BY <1>5, <1>8, <2>1, <2>2
  <2>3. CASE ~ (i <= Len(q))
    <3>1. i - Len(q) \in 1 .. l /\ Len(q) + (i - Len(q)) = i
      BY <1>5, <2>1, <2>3
    <3>2. A[i - Len(q)] = INVALID_UMEM_FRAME
      BY <1>5, <2>1, <3>1
    <3>3. ~ (i - Len(q) <= m)
      BY <1>2, <1>3, <3>1, <3>2
    <3> QED
      BY <1>2, <1>5, <2>1, <3>1, <3>3
  <2> QED
    BY <2>2, <2>3, <1>5, <2>1
<1>11. ASSUME NEW i \in B \cup D PROVE i \in C
  <2>1. CASE i \in B
    BY <1>5, <1>8, <2>1
  <2>2. CASE i \in D
    <3>1. i - Len(q) \in m + 1 .. l /\ i - Len(q) \in 1 .. l /\ Len(q) + (i - Len(q)) = i
          /\ i \in 1 .. Len(q) + l
      BY <1>2, <1>5, <2>2
    <3>2. r[i] = INVALID_UMEM_FRAME
      BY <1>1, <1>5, <3>1
    <3> QED
      BY <1>8, <3>1, <3>2
  <2> QED
    BY <2>1, <2>2
<1>12. C = B \cup D
  BY <1>10, <1>11
<1> HIDE DEF B, C, D
<1>13. Cardinality(B \cup D) = Cardinality(B) + Cardinality(D)
  <2>1. Cardinality(B \cup D) = Cardinality(B) + Cardinality(D) - Cardinality(B \cap D)
    BY <1>6, <1>7, FS_Union
  <2>2. Cardinality(B \cap D) = 0
    BY <1>9, FS_EmptySet
  <2>3. Cardinality(B) \in Nat /\ Cardinality(D) \in Nat
    BY <1>6, <1>7, FS_CardinalityType
  <2> QED
    BY <2>1, <2>2, <2>3
<1> QED
  BY <1>4, <1>6, <1>7, <1>12, <1>13 DEF m, A

\* The balance of the books, b of whose fill ring's q entries are blank.
Balance(n, q, b, h, w, d) == n + (q - b) + h + (w - d) = NUM_FRAMES
Bounded(b) == b = 0 \/ b + NUM_FRAMES <= FqSize + RxSize + MaxHeld

\* Stuffing keeps the books balanced, and when it adds a blank the stack is empty: all frames
\* are then in a ring or with the driver, and what these hold beyond them is blank.
LEMMA StockedBalance ==
  ASSUME NEW n \in Nat, NEW l \in Nat, NEW q \in Nat, NEW b \in Nat,
         NEW h \in 0 .. MaxHeld, NEW w \in 0 .. RxSize,
         Balance(n, q, b, h, w, 0), Bounded(b), q + l <= FqSize
  PROVE  /\ Balance(n - Given(n, l), q + l, b + (l - Given(n, l)), h, w, 0)
         /\ Bounded(b + (l - Given(n, l)))
<1>1. /\ NUM_FRAMES \in Nat /\ FqSize \in Nat /\ RxSize \in Nat /\ MaxHeld \in Nat
      /\ h \in Nat /\ w \in Nat
  BY FrameAssumption, RingAssumption
<1>2. CASE l <= n
  BY <1>1, <1>2 DEF Given, Balance, Bounded
<1>3. CASE ~ (l <= n)
  BY <1>1, <1>3 DEF Given, Balance, Bounded
<1> QED
  BY <1>2, <1>3

\* The steps that move frames between the stack and the rings.
LEMMA ConfigureStep ==
  ASSUME IInv, xsk_configure_socket
  PROVE  IInv'
<1> DEFINE all == [i \in Slots |-> i * FRAME_SIZE]
<1>1. /\ umem_frame_addr' = StackAfter(all, NUM_FRAMES, FqSize)
      /\ fq' = Allocated(all, NUM_FRAMES, FqSize)
      /\ umem_frame_free' = LeftAfter(NUM_FRAMES, FqSize) /\ fqFree' = 0
      /\ pc = "create" /\ pc' = "start"
      /\ UNCHANGED <<held, rx, rxSeen, rcvd, done, idle, stop_capture, stop_pt>>
  BY DEF xsk_configure_socket, batch, flags
<1>2. /\ NUM_FRAMES \in 0 .. NUM_FRAMES /\ NUM_FRAMES \in Nat /\ FqSize \in Nat
      /\ RxSize \in Nat /\ MaxHeld \in Nat
  BY FrameAssumption, RingAssumption
<1>3. /\ fq = <<>> /\ held = <<>> /\ rx = <<>> /\ done = 0 /\ rcvd = 0
      /\ rxSeen \in 0 .. RxSize /\ rcvd + rxSeen <= Len(rx)
  BY <1>1 DEF IInv, TypeOK, BatchOK
<1>4. /\ all \in [Slots -> Addrs \cup {INVALID_UMEM_FRAME}]
      /\ \A i \in 0 .. NUM_FRAMES - 1 : all[i] # INVALID_UMEM_FRAME
      /\ Placed(all, NUM_FRAMES, <<>>, <<>>, <<>>, 0)
  BY AddrFacts, AllOnStack DEF Slots
<1> HIDE DEF all
<1>5. Allocates(all, NUM_FRAMES, FqSize)
  BY <1>2, <1>4, Allocation
<1>6. /\ umem_frame_addr' \in [Slots -> Addrs \cup {INVALID_UMEM_FRAME}]
      /\ fq' \in Seq(Addrs \cup {INVALID_UMEM_FRAME}) /\ Len(fq') = FqSize
      /\ umem_frame_free' \in 0 .. NUM_FRAMES
  <2>1. umem_frame_free' \in 0 .. NUM_FRAMES
    BY <1>1, <1>2, <1>5 DEF Allocates
  <2> QED
    BY <1>1, <1>5, <2>1 DEF Allocates
<1>7. TypeOK'
  BY <1>1, <1>2, <1>6 DEF IInv, TypeOK
<1>8. Room' /\ BatchOK' /\ FreeAssertion'
  BY <1>1, <1>2, <1>3, <1>6 DEF IInv, Room, BatchOK, FreeAssertion
<1>9. <<>> \o fq' = fq' /\ <<>> \in Seq(Addrs \cup {INVALID_UMEM_FRAME})
  BY <1>6
<1>10. InPlace'
  <2>1. Placed(umem_frame_addr', umem_frame_free', <<>> \o fq', <<>>, <<>>, 0)
    BY <1>1, <1>2, <1>4, <1>9, AllocationPlaced
  <2> QED
    BY <1>1, <1>3, <1>9, <2>1 DEF InPlace
<1>11. Books'
  <2>1. Blanks(<<>> \o fq') = Blanks(<<>>) + (FqSize - Given(NUM_FRAMES, FqSize))
    BY <1>1, <1>2, <1>4, <1>9, BlanksAdded
  <2>2. Blanks(fq') = 0 + (FqSize - Given(NUM_FRAMES, FqSize))
    BY <1>9, <2>1, NoBlanks
  <2>3. Balance(NUM_FRAMES, 0, 0, 0, 0, 0) /\ Bounded(0)
    BY <1>2 DEF Balance, Bounded
  <2>4. 0 \in 0 .. MaxHeld /\ 0 \in 0 .. RxSize /\ 0 + FqSize <= FqSize /\ 0 + FqSize = FqSize
    BY <1>2
  <2>5. /\ Balance(NUM_FRAMES - Given(NUM_FRAMES, FqSize), FqSize, Blanks(fq'), 0, 0, 0)
        /\ Bounded(Blanks(fq'))
    BY <1>2, <2>2, <2>3, <2>4, StockedBalance
  <2>6. /\ umem_frame_free' = NUM_FRAMES - Given(NUM_FRAMES, FqSize)
        /\ Len(held') = 0 /\ Len(rx') = 0 /\ done' = 0
    BY <1>1, <1>3, <1>5 DEF Allocates
  <2> QED
    BY <1>6, <2>5, <2>6 DEF Books, BlanksBounded, Accounted, Balance, Bounded
<1> QED
  BY <1>7, <1>8, <1>10, <1>11 DEF IInv

\* handle_receive_packets stocks the fill ring: what the ring gains the stack loses, as far
\* as the stack has it.
LEMMA StockStep ==
  ASSUME IInv, Stock
  PROVE  IInv'
<1> DEFINE l == NbFree(umem_frame_free)
           A == Allocated(umem_frame_addr, umem_frame_free, l)
<1>1. /\ umem_frame_addr' = StackAfter(umem_frame_addr, umem_frame_free, l)
      /\ fq' = fq \o A
      /\ umem_frame_free' = LeftAfter(umem_frame_free, l) /\ fqFree' = 0
      /\ pc = "stock" /\ pc' = "process"
      /\ UNCHANGED <<held, rx, rxSeen, rcvd, done, idle, stop_capture, stop_pt>>
  BY DEF Stock, batch, flags
<1>2. /\ NUM_FRAMES \in Nat /\ FqSize \in Nat /\ RxSize \in Nat /\ MaxHeld \in Nat
  BY FrameAssumption, RingAssumption
<1>3. /\ umem_frame_addr \in [Slots -> Addrs \cup {INVALID_UMEM_FRAME}]
      /\ umem_frame_free \in 0 .. NUM_FRAMES /\ umem_frame_free \in Nat
      /\ fq \in Seq(Addrs \cup {INVALID_UMEM_FRAME}) /\ fqFree \in 0 .. FqSize
      /\ Len(fq) \in Nat /\ Len(held) \in Nat /\ Len(rx) \in Nat /\ done \in Nat /\ done = 0
      /\ Placed(umem_frame_addr, umem_frame_free, fq, held, rx, done)
  <2>1. /\ umem_frame_addr \in [Slots -> Addrs \cup {INVALID_UMEM_FRAME}]
        /\ umem_frame_free \in 0 .. NUM_FRAMES
        /\ fq \in Seq(Addrs \cup {INVALID_UMEM_FRAME}) /\ fqFree \in 0 .. FqSize
        /\ held \in Seq(Addrs) /\ rx \in Seq(Addrs)
    BY DEF IInv, TypeOK
  <2>2. done = 0 /\ Placed(umem_frame_addr, umem_frame_free, fq, held, rx, done)
    BY <1>1 DEF IInv, BatchOK, InPlace, Capturing
  <2> QED
    BY <1>2, <2>1, <2>2
<1>4. l \in Nat /\ l + Len(fq) <= FqSize
  BY <1>2, <1>3 DEF IInv, Room, NbFree
<1> HIDE DEF l
<1>5. Allocates(umem_frame_addr, umem_frame_free, l)
  BY <1>3, <1>4, Allocation
<1>6. /\ umem_frame_addr' \in [Slots -> Addrs \cup {INVALID_UMEM_FRAME}]
      /\ umem_frame_free' \in 0 .. NUM_FRAMES
      /\ A \in Seq(Addrs \cup {INVALID_UMEM_FRAME}) /\ Len(A) = l
  <2>1. umem_frame_free' \in 0 .. NUM_FRAMES
    BY <1>1, <1>2, <1>3, <1>5 DEF Allocates
  <2> QED
    BY <1>1, <1>5, <2>1 DEF Allocates
<1>7. fq' \in Seq(Addrs \cup {INVALID_UMEM_FRAME}) /\ Len(fq') = Len(fq) + l
  <2>1. fq \o A \in Seq(Addrs \cup {INVALID_UMEM_FRAME}) /\ Concatenated(fq, A, fq \o A)
    BY <1>3, <1>6, Concatenation
  <2> QED
    BY <1>1, <1>6, <2>1 DEF Concatenated
<1>8. TypeOK'
  BY <1>1, <1>2, <1>6, <1>7 DEF IInv, TypeOK
<1>9. Room' /\ BatchOK' /\ FreeAssertion'
  BY <1>1, <1>3, <1>4, <1>7 DEF IInv, Room, BatchOK, FreeAssertion
<1>10. InPlace'
  <2>1. Placed(umem_frame_addr', umem_frame_free', fq', held, rx, done)
    BY <1>1, <1>3, <1>4, AllocationPlaced
  <2> QED
    BY <1>1, <2>1 DEF InPlace
<1>11. Books'
  <2>1. PICK b : b = Blanks(fq)
    OBVIOUS
  <2>2. b \in Nat
    BY <1>3, <2>1, BlanksCounted
  <2>3. /\ Balance(umem_frame_free, Len(fq), b, Len(held), Len(rx), 0) /\ Bounded(b)
        /\ Len(held) \in 0 .. MaxHeld /\ Len(rx) \in 0 .. RxSize
    <3>1. Balance(umem_frame_free, Len(fq), b, Len(held), Len(rx), 0) /\ Bounded(b)
      BY <1>1, <1>3, <2>1 DEF IInv, Books, BlanksBounded, Accounted, Capturing, Balance, Bounded
    <3>2. Len(held) \in 0 .. MaxHeld /\ Len(rx) \in 0 .. RxSize
      BY <1>2, <1>3 DEF IInv, Room
    <3> QED
      BY <3>1, <3>2
  <2>4. \A i \in 0 .. umem_frame_free - 1 : umem_frame_addr[i] # INVALID_UMEM_FRAME
    BY <1>3, StackValid
  <2>5. Blanks(fq') = b + (l - Given(umem_frame_free, l))
    BY <1>1, <1>3, <1>4, <2>1, <2>4, BlanksAdded
  <2>6. umem_frame_free' = umem_frame_free - Given(umem_frame_free, l)
    BY <1>1, <1>5 DEF Allocates
  <2>7. Len(fq) + l <= FqSize
    BY <1>2, <1>3, <1>4
  <2>8. /\ Balance(umem_frame_free', Len(fq'), Blanks(fq'), Len(held), Len(rx), 0)
        /\ Bounded(Blanks(fq'))
    <3>1. PICK n : n = umem_frame_free
      OBVIOUS
    <3>2. PICK q : q = Len(fq)
      OBVIOUS
    <3>3. PICK h, w : h = Len(held) /\ w = Len(rx)
      OBVIOUS
    <3>4. /\ Balance(n - Given(n, l), q + l, b + (l - Given(n, l)), h, w, 0)
          /\ Bounded(b + (l - Given(n, l)))
      <4>1. /\ n \in Nat /\ l \in Nat /\ q \in Nat /\ h \in 0 .. MaxHeld /\ w \in 0 .. RxSize
            /\ Balance(n, q, b, h, w, 0) /\ Bounded(b) /\ q + l <= FqSize
        BY <1>3, <1>4, <2>3, <2>7, <3>1, <3>2, <3>3
      <4> QED
        BY ONLY <2>2, <4>1, StockedBalance
    <3> QED
      BY <1>7, <2>5, <2>6, <3>1, <3>2, <3>3, <3>4
  <2>9. held' = held /\ rx' = rx /\ done' = 0
    BY <1>1, <1>3
  <2> QED
    BY <2>8, <2>9 DEF Books, BlanksBounded, Accounted, Balance, Bounded
<1> QED
  BY <1>8, <1>9, <1>10, <1>11 DEF IInv

\* A processed packet's frame goes back to the stack, which has room for it.
LEMMA ProcessStep ==
  ASSUME IInv, Process
  PROVE  IInv'
<1> DEFINE a == rx[done + 1]
<1>1. /\ umem_frame_addr \in [Slots -> Addrs \cup {INVALID_UMEM_FRAME}]
      /\ umem_frame_free \in 0 .. NUM_FRAMES /\ umem_frame_free \in Nat
      /\ held \in Seq(Addrs) /\ rx \in Seq(Addrs) /\ Len(rx) \in Nat /\ Len(held) \in Nat
      /\ Len(fq) \in Nat /\ rxSeen \in Nat /\ rcvd \in 0 .. RxSize /\ rcvd \in Nat /\ done \in Nat
  BY FrameAssumption, RingAssumption DEF IInv, TypeOK
<1>2. /\ pc = "process" /\ done < rcvd /\ rcvd + rxSeen <= Len(rx)
      /\ Placed(umem_frame_addr, umem_frame_free, fq, held, rx, done)
  BY DEF Process, xsk_free_umem_frame, Packet, IInv, BatchOK, InPlace, Capturing
<1>3. done < Len(rx) /\ a \in Addrs /\ a # INVALID_UMEM_FRAME
  <2>1. done + 1 \in 1 .. Len(rx) /\ done < Len(rx)
    BY <1>1, <1>2
  <2> QED
    BY <1>1, <2>1, AddrFacts
<1>4. umem_frame_free < NUM_FRAMES
  BY <1>1, <1>2, <1>3, StackNotFull
<1> HIDE DEF a
<1>5. /\ umem_frame_addr' = [umem_frame_addr EXCEPT ![umem_frame_free] = a]
      /\ umem_frame_free' = umem_frame_free + 1 /\ done' = done + 1
      /\ pc' = IF done' = rcvd THEN "release" ELSE "process"
      /\ UNCHANGED <<fq, fqFree, held, rx, rxSeen, rcvd, idle, stop_capture, stop_pt>>
  BY <1>4 DEF Process, xsk_free_umem_frame, Packet, rings, flags, a
<1>6. /\ umem_frame_free \in Slots /\ umem_frame_free' \in 0 .. NUM_FRAMES
      /\ done' \in 0 .. rcvd /\ (done' # rcvd => done' < rcvd)
  BY <1>1, <1>2, <1>4, <1>5, FrameAssumption DEF Slots
<1>7. TypeOK'
  <2>1. umem_frame_addr' \in [Slots -> Addrs \cup {INVALID_UMEM_FRAME}]
    BY <1>1, <1>3, <1>5
  <2> QED
    BY <1>5, <1>6, <2>1 DEF IInv, TypeOK
<1>8. Room' /\ BatchOK' /\ FreeAssertion'
  BY <1>2, <1>5, <1>6 DEF IInv, Room, BatchOK, FreeAssertion
<1>9. InPlace'
  <2>1. PICK st2 : st2 = umem_frame_addr'
    OBVIOUS
  <2>2. /\ st2[umem_frame_free] = a
        /\ \A i \in 0 .. umem_frame_free - 1 : st2[i] = umem_frame_addr[i]
    <3>1. \A i \in 0 .. umem_frame_free - 1 : i \in Slots /\ i # umem_frame_free
      BY <1>1, <1>4, FrameAssumption DEF Slots
    <3> QED
      BY <1>1, <1>5, <1>6, <2>1, <3>1
  <2>3. Placed(st2, umem_frame_free + 1, fq, held, rx, done + 1)
    BY <1>1, <1>2, <1>3, <2>2, PlacedFreed DEF a
  <2> QED
    BY <1>5, <2>1, <2>3 DEF InPlace
<1>10. Books'
  <2>1. PICK b : b = Blanks(fq)
    OBVIOUS
  <2>2. b \in Nat /\ NUM_FRAMES \in Nat
    BY <2>1, BlanksCounted, FrameAssumption DEF IInv, TypeOK
  <2>3. umem_frame_free + (Len(fq) - b) + Len(held) + (Len(rx) - done) = NUM_FRAMES
    BY <1>2, <2>1 DEF IInv, Books, Accounted, Capturing
  <2>4. (umem_frame_free + 1) + (Len(fq) - b) + Len(held) + (Len(rx) - (done + 1)) = NUM_FRAMES
    BY <1>1, <2>2, <2>3
  <2>5. Accounted'
    BY <1>5, <2>1, <2>4 DEF Accounted, Blanks
  <2> QED
    BY <1>5, <2>5 DEF IInv, Books, BlanksBounded, Blanks
<1> QED
  BY <1>7, <1>8, <1>9, <1>10 DEF IInv

\* Releasing the batch takes from the receive ring only what was processed.
LEMMA ReleaseStep ==
  ASSUME IInv, Release
  PROVE  IInv'
<1>1. /\ umem_frame_free \in 0 .. NUM_FRAMES /\ umem_frame_free \in Nat
      /\ rx \in Seq(Addrs) /\ Len(rx) \in Nat /\ Len(held) \in Nat
      /\ Len(fq) \in Nat /\ rxSeen \in Nat /\ rcvd \in Nat /\ done \in Nat
      /\ RxSize \in Nat /\ NUM_FRAMES \in Nat
  BY FrameAssumption, RingAssumption DEF IInv, TypeOK
<1>2. /\ pc = "release" /\ done = rcvd /\ rcvd + rxSeen <= Len(rx) /\ Len(rx) <= RxSize
      /\ Placed(umem_frame_addr, umem_frame_free, fq, held, rx, done)
  BY DEF Release, Unreleased, IInv, BatchOK, Room, InPlace, Capturing
<1>3. /\ rx' = SubSeq(rx, rcvd + 1, Len(rx)) /\ rcvd' = 0 /\ done' = 0 /\ pc' = "loop"
      /\ UNCHANGED <<umem_frame_addr, umem_frame_free, fq, fqFree, held, rxSeen, idle,
                     stop_capture, stop_pt>>
  BY DEF Release, Unreleased, pool, flags
<1>4. /\ rx' \in Seq(Addrs) /\ Len(rx') = Len(rx) - done
      /\ \A i \in 1 .. Len(rx') : rx'[i] = rx[i + done]
  <2>1. rx' \in Seq(Addrs) /\ Len(rx') = Len(rx) - rcvd
    BY <1>1, <1>2, <1>3
  <2>2. \A i \in 1 .. Len(rx) - rcvd : rx'[i] = rx[i + rcvd]
    BY <1>1, <1>2, <1>3
  <2> QED
    BY <1>2, <2>1, <2>2
<1>5. TypeOK'
  BY <1>1, <1>3, <1>4 DEF IInv, TypeOK
<1>6. Len(rx') <= RxSize /\ rcvd' + rxSeen' <= Len(rx')
  BY <1>1, <1>2, <1>3, <1>4
<1>7. Room' /\ BatchOK' /\ FreeAssertion'
  BY <1>3, <1>6 DEF IInv, Room, BatchOK, FreeAssertion
<1>8. InPlace'
  <2>1. PICK w2 : w2 = rx'
    OBVIOUS
  <2>2. Len(w2) = Len(rx) - done /\ \A i \in 1 .. Len(w2) : w2[i] = rx[i + done]
    BY <1>4, <2>1
  <2>3. done <= Len(rx)
    BY <1>1, <1>2
  <2>4. Placed(umem_frame_addr, umem_frame_free, fq, held, w2, 0)
    BY <1>1, <1>2, <2>2, <2>3, PlacedReleased
  <2> QED
    BY <1>3, <2>1, <2>4 DEF InPlace
<1>9. Books'
  <2>1. PICK b : b = Blanks(fq)
    OBVIOUS
  <2>2. b \in Nat
    BY <2>1, BlanksCounted DEF IInv, TypeOK
  <2>3. umem_frame_free + (Len(fq) - b) + Len(held) + (Len(rx) - done) = NUM_FRAMES
    BY <1>2, <2>1 DEF IInv, Books, Accounted, Capturing
  <2>4. umem_frame_free + (Len(fq) - b) + Len(held) + ((Len(rx) - done) - 0) = NUM_FRAMES
    BY <1>1, <2>2, <2>3
  <2>5. Accounted'
    BY <1>3, <1>4, <2>1, <2>4 DEF Accounted, Blanks
  <2> QED
    BY <1>3, <2>5 DEF IInv, Books, BlanksBounded, Blanks
<1> QED
  BY <1>5, <1>7, <1>8, <1>9 DEF IInv

\* Closing the socket empties the rings; the frames have no place any more.
LEMMA CloseStep ==
  ASSUME IInv, close_xdp_sock
  PROVE  IInv'
<1>1. /\ fq' = <<>> /\ held' = <<>> /\ rx' = <<>> /\ rxSeen' = 0
      /\ pc = "returned" /\ pc' = "closed"
      /\ UNCHANGED <<umem_frame_addr, umem_frame_free, fqFree, rcvd, done, idle,
                     stop_capture, stop_pt>>
  BY DEF close_xdp_sock, pool, batch, flags
<1>2. rcvd = 0 /\ done = 0 /\ fqFree \in 0 .. FqSize /\ FqSize \in Nat /\ MaxHeld \in Nat
      /\ RxSize \in Nat
  BY <1>1, RingAssumption DEF IInv, BatchOK, TypeOK
<1>3. TypeOK'
  <2>1. fq' \in Seq(Addrs \cup {INVALID_UMEM_FRAME}) /\ held' \in Seq(Addrs) /\ rx' \in Seq(Addrs)
    BY <1>1
  <2>2. rxSeen' \in 0 .. RxSize
    BY <1>1, <1>2
  <2> QED
    BY <1>1, <2>1, <2>2 DEF IInv, TypeOK
<1>4. Room' /\ BatchOK' /\ FreeAssertion'
  BY <1>1, <1>2 DEF Room, BatchOK, FreeAssertion
<1>5. InPlace' /\ Books'
  <2>1. Blanks(fq') = 0
    BY <1>1, NoBlanks
  <2> QED
    BY <1>1, <2>1 DEF InPlace, Books, BlanksBounded, Accounted, Capturing
<1> QED
  BY <1>3, <1>4, <1>5 DEF IInv

\* Taking the first entry of a sequence and adding one behind it.
LEMMA Moving ==
  ASSUME NEW S, NEW s \in Seq(S)
  PROVE  /\ s # <<>> => /\ Tail(s) \in Seq(S) /\ Shifted(s, Tail(s)) /\ Len(s) > 0
                        /\ Head(s) = s[1] /\ s[1] \in S
         /\ \A y \in S : Append(s, y) \in Seq(S) /\ Extended(s, Append(s, y), y)
<1>1. s # <<>> => /\ Tail(s) \in Seq(S) /\ Len(Tail(s)) = Len(s) - 1 /\ Len(s) > 0
                  /\ Head(s) = s[1] /\ s[1] \in S
                  /\ \A i \in 1 .. Len(s) - 1 : Tail(s)[i] = s[i + 1]
  OBVIOUS
<1>2. ASSUME NEW y \in S
      PROVE  /\ Append(s, y) \in Seq(S) /\ Len(Append(s, y)) = Len(s) + 1
             /\ Append(s, y)[Len(s) + 1] = y
             /\ \A i \in 1 .. Len(s) : Append(s, y)[i] = s[i]
  OBVIOUS
<1> QED
  BY <1>1, <1>2 DEF Shifted, Extended

\* The kernel moves a frame from one ring to the next; it has no way to make one.
LEMMA KernelStep ==
  ASSUME IInv, Kernel
  PROVE  IInv'
<1> DEFINE M == Addrs \cup {INVALID_UMEM_FRAME}
<1>1. /\ umem_frame_free \in Nat /\ NUM_FRAMES \in Nat /\ done \in Nat
      /\ fq \in Seq(M) /\ held \in Seq(Addrs) /\ rx \in Seq(Addrs)
      /\ Len(fq) \in Nat /\ Len(held) \in Nat /\ Len(rx) \in Nat /\ fqFree \in Nat
      /\ RxSize \in Nat /\ MaxHeld \in Nat /\ FqSize \in Nat
      /\ rcvd \in Nat /\ rxSeen \in Nat
  BY FrameAssumption, RingAssumption DEF IInv, TypeOK
<1>2. /\ UNCHANGED <<umem_frame_addr, umem_frame_free, fqFree, rxSeen, rcvd, done, idle,
                     stop_capture, stop_pt, pc>>
      /\ pc # "closed"
  BY DEF Kernel, KernelCopies, DriverTakes, DriverDelivers, KernelSkips, Bound, pool, batch, flags
<1>3. /\ pc # "create" /\ done <= Len(rx) /\ rcvd + rxSeen <= Len(rx)
      /\ Len(held) <= MaxHeld /\ Len(rx) <= RxSize /\ fqFree + Len(fq) <= FqSize
      /\ Placed(umem_frame_addr, umem_frame_free, fq, held, rx, done)
  <2>1. pc # "create"
    BY DEF IInv, BatchOK, Kernel, KernelCopies, DriverTakes, DriverDelivers, KernelSkips
  <2>2. done \in 0 .. rcvd /\ rcvd + rxSeen <= Len(rx)
    BY DEF IInv, TypeOK, BatchOK
  <2>3. done <= Len(rx)
    BY <1>1, <2>2
  <2> QED
    BY <1>2, <2>1, <2>2, <2>3 DEF IInv, Room, InPlace, Capturing
<1>4. \A a \in M : a # INVALID_UMEM_FRAME => a \in Addrs /\ Filled(a) \in Addrs
                                             /\ FrameOf(Filled(a)) = FrameOf(a)
  BY AddrFacts
<1>5. fq # <<>> => /\ Tail(fq) \in Seq(M) /\ Shifted(fq, Tail(fq)) /\ Len(fq) > 0
                   /\ Head(fq) = fq[1] /\ fq[1] \in M
  <2> HIDE DEF M
  <2> QED
    BY <1>1, Moving
<1> HIDE DEF M
<1>6. held # <<>> => /\ Tail(held) \in Seq(Addrs) /\ Shifted(held, Tail(held)) /\ Len(held) > 0
                     /\ Head(held) = held[1] /\ held[1] \in Addrs
  BY <1>1, Moving
<1>7. \A y \in Addrs :
        /\ Append(held, y) \in Seq(Addrs) /\ Extended(held, Append(held, y), y)
        /\ Append(rx, y) \in Seq(Addrs) /\ Extended(rx, Append(rx, y), y)
  BY <1>1, Moving
<1>8. PICK q2, h2, w2 : q2 = fq' /\ h2 = held' /\ w2 = rx'
  OBVIOUS
<1>9. /\ q2 \in Seq(M) /\ h2 \in Seq(Addrs) /\ w2 \in Seq(Addrs)
      /\ Placed(umem_frame_addr, umem_frame_free, q2, h2, w2, done)
      /\ Len(q2) \in Nat /\ Len(h2) \in Nat /\ Len(w2) \in Nat
      /\ Len(q2) <= Len(fq) /\ Len(h2) <= MaxHeld /\ Len(w2) <= RxSize /\ Len(rx) <= Len(w2)
      /\ Blanks(q2) \in Nat /\ Blanks(q2) <= Blanks(fq)
      /\ (Len(q2) - Blanks(q2)) + Len(h2) + Len(w2)
           = (Len(fq) - Blanks(fq)) + Len(held) + Len(rx)
  <2>0. /\ Blanks(fq) \in Nat
        /\ fq # <<>> => /\ Len(Tail(fq)) \in Nat /\ Len(Tail(fq)) = Len(fq) - 1
                        /\ Blanks(Tail(fq)) \in Nat
                        /\ Head(fq) = INVALID_UMEM_FRAME => Blanks(Tail(fq)) = Blanks(fq) - 1
                        /\ Head(fq) # INVALID_UMEM_FRAME => Blanks(Tail(fq)) = Blanks(fq)
    <3>1. Blanks(fq) \in Nat
      BY <1>1, BlanksCounted
    <3>2. ASSUME fq # <<>>
          PROVE  /\ Len(Tail(fq)) \in Nat /\ Len(Tail(fq)) = Len(fq) - 1
                 /\ Blanks(Tail(fq)) \in Nat
                 /\ Head(fq) = INVALID_UMEM_FRAME => Blanks(Tail(fq)) = Blanks(fq) - 1
                 /\ Head(fq) # INVALID_UMEM_FRAME => Blanks(Tail(fq)) = Blanks(fq)
      <4>1. PICK t : t = Tail(fq)
        OBVIOUS
      <4>2. t \in Seq(M) /\ Shifted(fq, t) /\ Len(fq) > 0 /\ Head(fq) = fq[1]
        BY <1>5, <3>2, <4>1
      <4>3. Len(t) \in Nat /\ Len(t) = Len(fq) - 1
        BY <1>1, <4>2 DEF Shifted
      <4>4. Blanks(t) \in Nat
        BY <4>2, BlanksCounted
      <4>5. /\ fq[1] = INVALID_UMEM_FRAME => Blanks(t) = Blanks(fq) - 1
            /\ fq[1] # INVALID_UMEM_FRAME => Blanks(t) = Blanks(fq)
        BY <1>1, <4>2, BlanksTaken
      <4> QED
        BY <4>1, <4>2, <4>3, <4>4, <4>5
    <3> QED
      BY <3>1, <3>2
  <2>1. CASE KernelCopies
    <3> DEFINE y == Filled(Head(fq))
    <3>1. /\ held = <<>> /\ fq # <<>> /\ Head(fq) # INVALID_UMEM_FRAME /\ Len(rx) < RxSize
          /\ q2 = Tail(fq) /\ w2 = Append(rx, y) /\ h2 = held
      BY <1>8, <2>1 DEF KernelCopies
    <3>2. y \in Addrs /\ FrameOf(y) = FrameOf(fq[1]) /\ fq[1] # INVALID_UMEM_FRAME
      BY <1>4, <1>5, <3>1
    <3> HIDE DEF y
    <3>0. PICK h1 : h1 = Append(held, y)
      OBVIOUS
    <3>3. Placed(umem_frame_addr, umem_frame_free, q2, h1, rx, done)
      BY <1>1, <1>3, <1>5, <1>7, <3>0, <3>1, <3>2, PlacedTakes
    <3>4. h1[1] = y /\ Len(h1) = 1 /\ Len(h1) \in Nat /\ Len(h1) > 0 /\ Shifted(h1, h2)
      BY <3>0, <3>1 DEF Shifted
    <3>5. Len(q2) \in Nat /\ Len(q2) = Len(fq) - 1 /\ q2 \in Seq(M)
      BY <1>5, <2>0, <3>1
    <3>6. Extended(rx, w2, y) /\ w2 \in Seq(Addrs) /\ Len(w2) = Len(rx) + 1
      BY <1>7, <3>1, <3>2 DEF Extended
    <3>7. Placed(umem_frame_addr, umem_frame_free, q2, h2, w2, done)
      BY <1>1, <1>3, <3>3, <3>4, <3>5, <3>6, PlacedDelivers
    <3> QED
      BY <1>1, <1>3, <2>0, <3>1, <3>5, <3>6, <3>7
  <2>2. CASE DriverTakes
    <3> DEFINE y == Filled(Head(fq))
    <3>1. /\ Len(held) < MaxHeld /\ fq # <<>> /\ Head(fq) # INVALID_UMEM_FRAME
          /\ q2 = Tail(fq) /\ h2 = Append(held, y) /\ w2 = rx
      BY <1>8, <2>2 DEF DriverTakes
    <3>2. y \in Addrs /\ FrameOf(y) = FrameOf(fq[1]) /\ fq[1] # INVALID_UMEM_FRAME
      BY <1>4, <1>5, <3>1
    <3> HIDE DEF y
    <3>3. Placed(umem_frame_addr, umem_frame_free, q2, h2, w2, done)
      BY <1>1, <1>3, <1>5, <1>7, <3>1, <3>2, PlacedTakes
    <3>4. Len(q2) \in Nat /\ Len(q2) = Len(fq) - 1 /\ q2 \in Seq(M)
      BY <1>5, <2>0, <3>1
    <3>5. h2 \in Seq(Addrs) /\ Len(h2) = Len(held) + 1
      BY <1>7, <3>1, <3>2 DEF Extended
    <3> QED
      <4>1. (Len(q2) - Blanks(q2)) + Len(h2) + Len(w2)
              = (Len(fq) - Blanks(fq)) + Len(held) + Len(rx)
        <5>1. Blanks(q2) = Blanks(fq) /\ Blanks(fq) \in Nat /\ Len(w2) = Len(rx)
          BY <2>0, <3>1
        <5>2. /\ Len(q2) = Len(fq) - 1 /\ Len(h2) = Len(held) + 1
              /\ Len(fq) \in Nat /\ Len(held) \in Nat /\ Len(rx) \in Nat
          BY <1>1, <3>4, <3>5
        <5> QED
          BY ONLY <5>1, <5>2, SMTT(30)
      <4>2. Blanks(q2) \in Nat /\ Blanks(q2) <= Blanks(fq)
        BY <2>0, <3>1
      <4> QED
        BY <1>1, <1>3, <3>1, <3>3, <3>4, <3>5, <4>1, <4>2, SMTT(30)
  <2>3. CASE DriverDelivers
    <3> DEFINE y == Head(held)
    <3>1. /\ held # <<>> /\ Len(rx) < RxSize /\ h2 = Tail(held) /\ w2 = Append(rx, y) /\ q2 = fq
      BY <1>8, <2>3 DEF DriverDelivers
    <3>2. y \in Addrs /\ y = held[1]
      BY <1>6, <3>1
    <3> HIDE DEF y
    <3>3. Placed(umem_frame_addr, umem_frame_free, q2, h2, w2, done)
      BY <1>1, <1>3, <1>6, <1>7, <3>1, <3>2, PlacedDelivers
    <3>4. h2 \in Seq(Addrs) /\ Len(h2) = Len(held) - 1 /\ Len(h2) \in Nat
      BY <1>1, <1>6, <3>1 DEF Shifted
    <3>5. w2 \in Seq(Addrs) /\ Len(w2) = Len(rx) + 1
      BY <1>7, <3>1, <3>2 DEF Extended
    <3> QED
      <4>1. (Len(q2) - Blanks(q2)) + Len(h2) + Len(w2)
              = (Len(fq) - Blanks(fq)) + Len(held) + Len(rx)
        <5>1. Blanks(q2) = Blanks(fq) /\ Blanks(fq) \in Nat /\ Len(q2) = Len(fq)
          BY <2>0, <3>1
        <5> QED
          BY <1>1, <3>4, <3>5, <5>1, SMTT(30)
      <4>2. Blanks(q2) \in Nat /\ Blanks(q2) <= Blanks(fq)
        BY <2>0, <3>1
      <4> QED
        BY <1>1, <1>3, <3>1, <3>3, <3>4, <3>5, <4>1, <4>2, SMTT(30)
  <2>4. CASE KernelSkips
    <3>1. fq # <<>> /\ Head(fq) = INVALID_UMEM_FRAME /\ q2 = Tail(fq) /\ h2 = held /\ w2 = rx
      BY <1>8, <2>4 DEF KernelSkips
    <3>2. Placed(umem_frame_addr, umem_frame_free, q2, h2, w2, done)
      BY <1>1, <1>3, <1>5, <3>1, PlacedSkips
    <3>3. Len(q2) \in Nat /\ Len(q2) = Len(fq) - 1 /\ q2 \in Seq(M)
      BY <1>5, <2>0, <3>1
    <3> QED
      BY <1>1, <1>3, <2>0, <3>1, <3>2, <3>3, SMTT(30)
  <2> QED
    BY <2>1, <2>2, <2>3, <2>4 DEF Kernel
<1>10. TypeOK'
  BY <1>2, <1>8, <1>9 DEF IInv, TypeOK, M
<1>11. Room' /\ BatchOK' /\ FreeAssertion'
  <2>1. fqFree' + Len(fq') <= FqSize /\ rcvd' + rxSeen' <= Len(rx')
    BY <1>1, <1>2, <1>3, <1>8, <1>9, SMTT(30)
  <2> QED
    BY <1>2, <1>3, <1>8, <1>9, <2>1 DEF IInv, Room, BatchOK, FreeAssertion
<1>12. InPlace'
  BY <1>2, <1>8, <1>9 DEF InPlace
<1>13. Books'
  <2>1. PICK b, b2 : b = Blanks(fq) /\ b2 = Blanks(q2)
    OBVIOUS
  <2>2. /\ umem_frame_free' = umem_frame_free /\ done' = done
        /\ fq' = q2 /\ held' = h2 /\ rx' = w2
    BY <1>2, <1>8
  <2>3. /\ b \in Nat /\ b2 \in Nat /\ b2 <= b
        /\ (Len(q2) - b2) + Len(h2) + Len(w2) = (Len(fq) - b) + Len(held) + Len(rx)
    <3>1. b \in Nat
      BY <1>1, <2>1, BlanksCounted
    <3> QED
      BY <1>9, <2>1, <3>1
  <2>4. umem_frame_free + (Len(fq) - b) + Len(held) + (Len(rx) - done) = NUM_FRAMES
    BY <1>2, <1>3, <2>1 DEF IInv, Books, Accounted, Capturing
  <2>5. umem_frame_free + (Len(q2) - b2) + Len(h2) + (Len(w2) - done) = NUM_FRAMES
    <3>1. /\ Len(q2) \in Nat /\ Len(h2) \in Nat /\ Len(w2) \in Nat
          /\ Len(fq) \in Nat /\ Len(held) \in Nat /\ Len(rx) \in Nat
          /\ umem_frame_free \in Nat /\ done \in Nat /\ NUM_FRAMES \in Nat
      BY <1>1, <1>9
    <3> QED
      BY ONLY <2>3, <2>4, <3>1
  <2>6. b2 = 0 \/ b2 + NUM_FRAMES <= FqSize + RxSize + MaxHeld
    <3>1. b = 0 \/ b + NUM_FRAMES <= FqSize + RxSize + MaxHeld
      BY <2>1 DEF IInv, Books, BlanksBounded
    <3> QED
      BY <1>1, <2>3, <3>1
  <2>7. Blanks(fq') = b2
    BY <2>1, <2>2
  <2> QED
    BY <2>2, <2>5, <2>6, <2>7 DEF Books, BlanksBounded, Accounted
<1> QED
  BY <1>10, <1>11, <1>12, <1>13 DEF IInv

\* The invariant holds in every state.
LEMMA IInvInductive == Spec => []IInv
<1>1. IInv /\ [Next]_vars => IInv'
  BY LoopStep, ConfigureStep, StockStep, ProcessStep, ReleaseStep, CloseStep, KernelStep
     DEF Next, Thread, Over
<1> QED
  BY <1>1, InitIInv, PTL DEF Spec

\* Addresses, indices and counters stay in range, whatever the kernel delivers and however
\* few frames there are.
THEOREM CaptureTypeCorrect == Spec => []TypeOK
<1>1. IInv => TypeOK
  BY DEF IInv
<1> QED
  BY <1>1, IInvInductive, PTL

\* Every frame is in exactly one place, for rings, batches and a UMEM of every size: none is
\* lost or given out twice, although the kernel moves the packet inside its frame and nothing
\* compares the fill ring's room with the stack.
THEOREM FramesOwnedOnce == Spec => []FrameOwnedOnce
<1>1. IInv => FrameOwnedOnce
  <2> SUFFICES ASSUME IInv, Capturing, NEW f \in Chunks
               PROVE  Tally(umem_frame_addr, umem_frame_free, fq, held, Waiting, f) = 1
    BY DEF FrameOwnedOnce, Tally
  <2>1. /\ umem_frame_free \in Nat /\ done \in Nat
        /\ fq \in Seq(Addrs \cup {INVALID_UMEM_FRAME}) /\ held \in Seq(Addrs) /\ rx \in Seq(Addrs)
        /\ Len(rx) \in Nat
    BY FrameAssumption, RingAssumption DEF IInv, TypeOK
  <2>2. done <= Len(rx) /\ Placed(umem_frame_addr, umem_frame_free, fq, held, rx, done)
    <3>1. done \in 0 .. rcvd /\ rcvd + rxSeen <= Len(rx) /\ rcvd \in 0 .. RxSize
          /\ rxSeen \in 0 .. RxSize /\ RxSize \in Nat
      BY RingAssumption DEF IInv, TypeOK, BatchOK
    <3>2. done <= Len(rx)
      BY <2>1, <3>1
    <3> QED
      BY <3>2 DEF IInv, InPlace
  <2>3. PICK w : w = Waiting
    OBVIOUS
  <2>4. /\ w \in Seq(Addrs) /\ Len(w) = Len(rx) - done /\ DOMAIN w = 1 .. Len(w)
        /\ \A i \in 1 .. Len(w) : w[i] = rx[i + done]
    <3>1. w \in Seq(Addrs) /\ Len(w) = Len(rx) - done
      BY <2>1, <2>2, <2>3 DEF Waiting
    <3>2. \A i \in 1 .. Len(rx) - done : w[i] = rx[i + done]
      BY <2>1, <2>2, <2>3 DEF Waiting
    <3> QED
      BY <3>1, <3>2
  <2>5. Placed(umem_frame_addr, umem_frame_free, fq, held, w, 0)
    BY <2>1, <2>2, <2>4, PlacedReleased
  <2>6. /\ DOMAIN fq = 1 .. Len(fq) /\ DOMAIN held = 1 .. Len(held)
        /\ \A i \in DOMAIN held : held[i] # INVALID_UMEM_FRAME
        /\ \A i \in DOMAIN w : w[i] # INVALID_UMEM_FRAME
    BY <2>1, <2>4, AddrFacts
  <2> QED
    BY <2>1, <2>3, <2>4, <2>5, <2>6, CountedOnce, ZenonT(30)
<1> QED
  BY <1>1, IInvInductive, PTL

\* The fill ring never holds more invalid addresses than there are frames too few, although
\* handle_receive_packets stocks it without looking at the stack.
THEOREM FillRingBlanks == Spec => []BlanksBounded
<1>1. IInv => BlanksBounded
  BY DEF IInv, Books
<1> QED
  BY <1>1, IInvInductive, PTL

\* With a frame for every entry of the two rings and of the driver, the fill ring holds
\* nothing but frames: the 4096 frames are enough for the two rings of 2048, as long as the
\* driver keeps none for itself (copy mode).
THEOREM FillRingIsClean ==
  ASSUME Enough
  PROVE  Spec => []OnlyFramesInFq
<1>1. IInv => OnlyFramesInFq
  <2> SUFFICES ASSUME IInv PROVE OnlyFramesInFq
    OBVIOUS
  <2>1. fq \in Seq(Addrs \cup {INVALID_UMEM_FRAME})
    BY DEF IInv, TypeOK
  <2>2. Blanks(fq) \in Nat
    BY <2>1, BlanksCounted
  <2>3. Blanks(fq) = 0
    BY <2>2, FrameAssumption, RingAssumption DEF IInv, Books, BlanksBounded, Enough
  <2> QED
    BY <2>1, <2>3, BlanksCounted DEF OnlyFramesInFq
<1> QED
  BY <1>1, IInvInductive, PTL

\* The stack, the rings and the driver add up to the UMEM after any number of rounds.
THEOREM FramesAccounted == Spec => []Accounted
<1>1. IInv => Accounted
  BY DEF IInv, Books
<1> QED
  BY <1>1, IInvInductive, PTL

\* The assertion in xsk_free_umem_frame never fails, even when there are too few frames for
\* the rings: a full stack would hold every frame, the one that comes back included.
THEOREM AssertionHolds == Spec => []FreeAssertion
<1>1. IInv => FreeAssertion
  BY DEF IInv
<1> QED
  BY <1>1, IInvInductive, PTL
-----------------------------------------------------------------------------
(***************************************************************************)
(* The fill ring never starves.  A batch is stocked for before its own     *)
(* frames are back, so that stocking with an empty stack adds nothing; but *)
(* then all other frames are in the fill ring, with the driver or behind   *)
(* the batch.  Where stocking does add something it begins with a frame,   *)
(* and the ring is never blank from end to end.                            *)
(***************************************************************************)
Supply ==
  /\ rcvd <= RX_BATCH_SIZE
  /\ Capturing => fqFree = 0 /\ Blanks(fq) < FqSize /\ umem_frame_free < NUM_FRAMES
  /\ pc \in {"process", "release"} => umem_frame_free + (rcvd - done) < NUM_FRAMES

\* After stocking, the stack is empty or the ring has a frame that is not of the batch, of
\* which r packets are still in the receive ring's w.
LEMMA StockedSupply ==
  ASSUME NEW n \in Nat, NEW l \in Nat, NEW q \in Nat, NEW b \in Nat,
         NEW h \in Nat, NEW w \in Nat, NEW r \in Nat,
         Balance(n, q, b, h, w, 0), b < FqSize, b <= q, r <= w, r <= RX_BATCH_SIZE,
         l = IF n = 0 THEN 0 ELSE FqSize - q, Spare
  PROVE  /\ b + (l - Given(n, l)) < FqSize
         /\ (n - Given(n, l)) + r < NUM_FRAMES
<1>1. NUM_FRAMES \in Nat /\ FqSize \in Nat /\ RX_BATCH_SIZE \in Nat /\ NUM_FRAMES > RX_BATCH_SIZE
  BY FrameAssumption, RingAssumption DEF Spare
<1>2. CASE n = 0
  BY <1>1, <1>2 DEF Given
<1>3. CASE n # 0 /\ l <= n
  BY <1>1, <1>3 DEF Given, Balance
<1>4. CASE n # 0 /\ ~ (l <= n)
  BY <1>1, <1>4 DEF Given
<1> QED
  BY <1>2, <1>3, <1>4

\* No ring has more blanks than entries.
LEMMA BlanksAreEntries ==
  ASSUME NEW S, NEW s \in Seq(S)
  PROVE  Blanks(s) <= Len(s)
<1> DEFINE B == {i \in DOMAIN s : s[i] = INVALID_UMEM_FRAME}
<1>1. Len(s) \in Nat /\ B \subseteq 1 .. Len(s)
  BY ONLY s \in Seq(S)
<1>2. IsFiniteSet(1 .. Len(s)) /\ Cardinality(1 .. Len(s)) = Len(s)
  <2>1. PICK n \in Nat : n = Len(s)
    BY ONLY <1>1
  <2>2. IsFiniteSet(1 .. n) /\ Cardinality(1 .. n) = n
    BY ONLY n \in Nat, FS_Interval
  <2> QED
    BY ONLY <2>1, <2>2
<1>3. Cardinality(B) <= Cardinality(1 .. Len(s))
  <2> HIDE DEF B
  <2> QED
    BY ONLY <1>1, <1>2, FS_Subset
<1> QED
  BY <1>2, <1>3 DEF Blanks

\* Stuffing the whole fill ring at the start begins with a frame.
LEMMA SupplyConfigured ==
  ASSUME IInv, IInv', Supply, xsk_configure_socket
  PROVE  Supply'
<1> DEFINE all == [i \in Slots |-> i * FRAME_SIZE]
<1>1. /\ fq' = Allocated(all, NUM_FRAMES, FqSize) /\ pc' = "start" /\ rcvd' = rcvd
      /\ umem_frame_free' = LeftAfter(NUM_FRAMES, FqSize) /\ fqFree' = 0
  BY DEF xsk_configure_socket, batch
<1>2. /\ NUM_FRAMES \in 0 .. NUM_FRAMES /\ NUM_FRAMES \in Nat \ {0} /\ FqSize \in Nat \ {0}
      /\ FqSize \in Nat
  BY FrameAssumption, RingAssumption
<1>3. /\ all \in [Slots -> Addrs \cup {INVALID_UMEM_FRAME}]
      /\ \A i \in 0 .. NUM_FRAMES - 1 : all[i] # INVALID_UMEM_FRAME
  BY AddrFacts DEF Slots
<1> HIDE DEF all
<1>4. <<>> \o fq' = fq' /\ <<>> \in Seq(Addrs \cup {INVALID_UMEM_FRAME})
  BY DEF IInv, TypeOK
<1>5. Blanks(<<>> \o fq') = Blanks(<<>>) + (FqSize - Given(NUM_FRAMES, FqSize))
  BY <1>1, <1>2, <1>3, <1>4, BlanksAdded
<1>6. Blanks(fq') = 0 + (FqSize - Given(NUM_FRAMES, FqSize))
  BY <1>4, <1>5, NoBlanks
<1>7. Blanks(fq') < FqSize /\ umem_frame_free' < NUM_FRAMES
  BY <1>1, <1>2, <1>6 DEF Given, LeftAfter
<1> QED
  BY <1>1, <1>7 DEF Supply

\* Stocking for a batch keeps the ring supplied.
LEMMA SupplyStocked ==
  ASSUME Spare, IInv, Supply, Stock
  PROVE  Supply'
<1>1. PICK l : l = NbFree(umem_frame_free)
  OBVIOUS
<1>2. /\ fq' = fq \o Allocated(umem_frame_addr, umem_frame_free, l)
      /\ umem_frame_free' = LeftAfter(umem_frame_free, l) /\ fqFree' = 0
      /\ pc = "stock" /\ pc' = "process" /\ rcvd' = rcvd /\ done' = done
  BY <1>1 DEF Stock, batch
<1>3. /\ umem_frame_addr \in [Slots -> Addrs \cup {INVALID_UMEM_FRAME}]
      /\ umem_frame_free \in 0 .. NUM_FRAMES
      /\ fq \in Seq(Addrs \cup {INVALID_UMEM_FRAME})
      /\ held \in Seq(Addrs) /\ rx \in Seq(Addrs)
      /\ rcvd \in 0 .. RxSize /\ rxSeen \in 0 .. RxSize
  BY DEF IInv, TypeOK
<1>4. /\ NUM_FRAMES \in Nat /\ FqSize \in Nat /\ RxSize \in Nat /\ RX_BATCH_SIZE \in Nat
      /\ umem_frame_free \in Nat /\ Len(fq) \in Nat /\ Len(held) \in Nat /\ Len(rx) \in Nat
      /\ rcvd \in Nat /\ rxSeen \in Nat
  BY <1>3, FrameAssumption, RingAssumption
<1>5. /\ done = 0 /\ rcvd + rxSeen <= Len(rx) /\ fqFree + Len(fq) <= FqSize
      /\ Placed(umem_frame_addr, umem_frame_free, fq, held, rx, done)
  BY <1>2 DEF IInv, BatchOK, Room, InPlace, Capturing
<1>6. fqFree = 0 /\ Blanks(fq) < FqSize /\ rcvd <= RX_BATCH_SIZE
  BY <1>2 DEF Supply, Capturing
<1>7. l = (IF umem_frame_free = 0 THEN 0 ELSE FqSize - Len(fq)) /\ l \in Nat
  BY <1>1, <1>4, <1>5, <1>6 DEF NbFree
<1>8. PICK b : b = Blanks(fq)
  OBVIOUS
<1>9. b \in Nat /\ b <= Len(fq)
  BY <1>3, <1>8, BlanksCounted, BlanksAreEntries
<1>10. Balance(umem_frame_free, Len(fq), b, Len(held), Len(rx), 0)
  BY <1>2, <1>5, <1>8 DEF IInv, Books, Accounted, Capturing, Balance
<1>11. \A i \in 0 .. umem_frame_free - 1 : umem_frame_addr[i] # INVALID_UMEM_FRAME
  BY <1>5, StackValid
<1>12. Blanks(fq') = b + (l - Given(umem_frame_free, l))
  BY <1>2, <1>3, <1>7, <1>8, <1>11, BlanksAdded
<1>13. Allocates(umem_frame_addr, umem_frame_free, l)
  BY <1>3, <1>7, Allocation
<1>14. umem_frame_free' = umem_frame_free - Given(umem_frame_free, l)
  BY <1>2, <1>13 DEF Allocates
<1>15. PICK n, q, h, w, r : /\ n = umem_frame_free /\ q = Len(fq) /\ h = Len(held)
                            /\ w = Len(rx) /\ r = rcvd
  OBVIOUS
<1>16. r <= w
  BY <1>4, <1>5, <1>15
<1>17. /\ b + (l - Given(n, l)) < FqSize
       /\ (n - Given(n, l)) + r < NUM_FRAMES
  <2>1. /\ n \in Nat /\ l \in Nat /\ q \in Nat /\ h \in Nat /\ w \in Nat /\ r \in Nat
        /\ Balance(n, q, b, h, w, 0) /\ b < FqSize /\ b <= q /\ r <= RX_BATCH_SIZE
        /\ l = IF n = 0 THEN 0 ELSE FqSize - q
    BY <1>4, <1>6, <1>7, <1>8, <1>9, <1>10, <1>15
  <2> QED
    BY ONLY Spare, <1>9, <1>16, <2>1, StockedSupply
<1>18. Blanks(fq') < FqSize /\ umem_frame_free' + rcvd < NUM_FRAMES
  BY <1>12, <1>14, <1>15, <1>17
<1>19. Given(umem_frame_free, l) \in 0 .. umem_frame_free
  BY <1>13 DEF Allocates
<1>20. umem_frame_free' < NUM_FRAMES /\ umem_frame_free' + (rcvd - done) < NUM_FRAMES
  BY <1>4, <1>5, <1>14, <1>18, <1>19
<1> QED
  BY <1>2, <1>6, <1>18, <1>20 DEF Supply

\* The rest of the thread: a frame that comes back is one of the batch, and a batch has no
\* more packets than handle_receive_packets asks for.
LEMMA SupplyThread ==
  ASSUME IInv, IInv', Supply,
         rx_and_process \/ WhileTest \/ PollNothing \/ PollReady \/ Peek \/ Process \/ Release
           \/ close_xdp_sock \/ stop_rx_and_process \/ capturaSenial \/ UNCHANGED vars
  PROVE  Supply'
<1>1. /\ umem_frame_free \in 0 .. NUM_FRAMES /\ NUM_FRAMES \in Nat /\ RX_BATCH_SIZE \in Nat
      /\ rcvd \in 0 .. RxSize /\ done \in 0 .. rcvd /\ RxSize \in Nat
  BY FrameAssumption, RingAssumption DEF IInv, TypeOK
<1>2. CASE rx_and_process \/ WhileTest \/ PollNothing \/ PollReady
  BY <1>2 DEF rx_and_process, WhileTest, PollNothing, PollReady, Supply, Capturing, Blanks,
              pool, rings, batch
<1>3. CASE stop_rx_and_process \/ capturaSenial \/ UNCHANGED vars
  BY <1>3 DEF stop_rx_and_process, capturaSenial, vars, Supply, Capturing, Blanks,
              pool, rings, batch
<1>4. CASE Peek
  <2>1. /\ UNCHANGED <<umem_frame_free, fq, fqFree>> /\ rcvd' <= RX_BATCH_SIZE
        /\ pc = "peek" /\ pc' \in {"loop", "stock"}
    BY <1>1, <1>4 DEF Peek, pool
  <2> QED
    BY <2>1 DEF Supply, Capturing, Blanks
<1>5. CASE Process
  <2>1. umem_frame_free < NUM_FRAMES
    BY <1>5 DEF Process, IInv, FreeAssertion
  <2>2. /\ UNCHANGED <<fq, fqFree, rcvd>> /\ pc = "process" /\ pc' \in {"process", "release"}
        /\ umem_frame_free' = umem_frame_free + 1 /\ done' = done + 1
    BY <1>5, <2>1 DEF Process, rings, xsk_free_umem_frame
  <2>3. umem_frame_free + (rcvd - done) < NUM_FRAMES /\ done < rcvd
    BY <2>2 DEF Supply, IInv, BatchOK
  <2>4. /\ umem_frame_free' < NUM_FRAMES
        /\ umem_frame_free' + (rcvd' - done') < NUM_FRAMES
    BY <1>1, <2>2, <2>3
  <2> QED
    BY <2>2, <2>4 DEF Supply, Capturing, Blanks
<1>6. CASE Release
  BY <1>1, <1>6 DEF Release, pool, Supply, Capturing, Blanks
<1>7. CASE close_xdp_sock
  BY <1>7 DEF close_xdp_sock, batch, Supply, Capturing
<1> QED
  BY <1>2, <1>3, <1>4, <1>5, <1>6, <1>7

\* The kernel takes entries from the fill ring and adds none.
LEMMA SupplyKernel ==
  ASSUME IInv, Supply, Kernel
  PROVE  Supply'
<1>1. UNCHANGED <<umem_frame_free, fqFree, rcvd, done, pc>>
  BY DEF Kernel, KernelCopies, DriverTakes, DriverDelivers, KernelSkips, pool, batch
<1>2. fq' = fq \/ (fq # <<>> /\ fq' = Tail(fq))
  BY DEF Kernel, KernelCopies, DriverTakes, DriverDelivers, KernelSkips
<1>3. fq \in Seq(Addrs \cup {INVALID_UMEM_FRAME}) /\ FqSize \in Nat
  BY RingAssumption DEF IInv, TypeOK
<1>4. Blanks(fq) \in Nat
  BY <1>3, BlanksCounted
<1>5. Blanks(fq) < FqSize => Blanks(fq') < FqSize
  <2>1. CASE fq' = fq
    BY <2>1
  <2>2. CASE fq # <<>> /\ fq' = Tail(fq)
    <3>1. fq' \in Seq(Addrs \cup {INVALID_UMEM_FRAME}) /\ Shifted(fq, fq') /\ Len(fq) > 0
      BY <1>3, <2>2, Moving
    <3>2. Blanks(fq') = Blanks(fq) \/ Blanks(fq') = Blanks(fq) - 1
      BY <1>3, <3>1, BlanksTaken
    <3> QED
      BY <1>3, <1>4, <3>2
  <2> QED
    BY <1>2, <2>1, <2>2
<1> QED
  BY <1>1, <1>5 DEF Supply, Capturing

\* As long as a batch never takes all frames, the fill ring always holds a frame or one is on
\* its way to it, although it may get invalid addresses and nothing stocks it before packets
\* come.  The code's 4096 frames and batches of 64 keep this for rings of every size.
THEOREM CaptureNeverStarves ==
  ASSUME Spare
  PROVE  Spec => []NeverStarves
<1>1. Init => Supply
  BY RingAssumption DEF Init, Supply, Capturing
<1>2. IInv /\ IInv' /\ Supply /\ [Next]_vars => Supply'
  BY SupplyConfigured, SupplyStocked, SupplyThread, SupplyKernel DEF Next, Thread, Over
<1>3. IInv /\ Supply => NeverStarves
  <2> SUFFICES ASSUME IInv, Supply, Capturing, ~ (Len(fq) > Blanks(fq)), held = <<>>,
                      Waiting = <<>>
               PROVE  FALSE
    BY DEF NeverStarves
  <2>1. /\ umem_frame_free \in Nat /\ NUM_FRAMES \in Nat /\ done \in Nat
        /\ fq \in Seq(Addrs \cup {INVALID_UMEM_FRAME}) /\ rx \in Seq(Addrs)
        /\ Len(fq) \in Nat /\ Len(rx) \in Nat
    BY FrameAssumption, RingAssumption DEF IInv, TypeOK
  <2>2. done <= Len(rx)
    <3>1. done \in 0 .. rcvd /\ rcvd + rxSeen <= Len(rx) /\ rcvd \in 0 .. RxSize
          /\ rxSeen \in 0 .. RxSize /\ RxSize \in Nat
      BY RingAssumption DEF IInv, TypeOK, BatchOK
    <3> QED
      BY <2>1, <3>1
  <2>3. Len(Waiting) = Len(rx) - done
    BY <2>1, <2>2 DEF Waiting
  <2>4. Len(rx) - done = 0 /\ Len(held) = 0
    BY <2>3
  <2>5. Blanks(fq) \in Nat /\ Blanks(fq) <= Len(fq)
    BY <2>1, BlanksCounted, BlanksAreEntries
  <2>6. umem_frame_free + (Len(fq) - Blanks(fq)) + Len(held) + (Len(rx) - done) = NUM_FRAMES
    BY DEF IInv, Books, Accounted
  <2>7. umem_frame_free < NUM_FRAMES
    BY DEF Supply
  <2> QED
    BY <2>1, <2>4, <2>5, <2>6, <2>7
<1> QED
  BY <1>1, <1>2, <1>3, IInvInductive, PTL DEF Spec
=============================================================================
