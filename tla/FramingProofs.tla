---------------------------- MODULE FramingProofs ----------------------------
(***************************************************************************)
(* Proofs about deserialize() on a line that loses bytes, for packets of   *)
(* any size and layout, any chunks of at most a packet, and any losses:    *)
(* without losses there is no error, no packet is accepted twice or out of *)
(* order, and frames once cut wrong stay wrong.                            *)
(***************************************************************************)
EXTENDS Framing, AssemblerProofs

USE PacketSizeAssumption, MaxReadAssumption, MaxBytesAssumption, LayoutAssumption

-----------------------------------------------------------------------------
(* Quotients and remainders by the size of a packet.                       *)

LEMMA WithinPacket ==
  ASSUME NEW a \in Nat, a % PacketSize = 0, NEW i \in Offsets
  PROVE  (a + i) % PacketSize = i /\ PacketOf(a + i) = PacketOf(a)
<1>1. i \in 0 .. PacketSize - 1
  BY DEF Offsets
<1>2. (a + i) % PacketSize = i
  BY <1>1
<1>3. (a + i) \div PacketSize = a \div PacketSize
  BY <1>1
<1>. QED BY <1>2, <1>3 DEF PacketOf

LEMMA NextPacket ==
  ASSUME NEW a \in Nat
  PROVE  (a + PacketSize) % PacketSize = a % PacketSize
         /\ PacketOf(a + PacketSize) = PacketOf(a) + 1
BY DEF PacketOf

LEMMA LaterPacket ==
  ASSUME NEW a \in Nat, NEW b \in Nat, b >= a + PacketSize
  PROVE  PacketOf(a) < PacketOf(b)
BY DEF PacketOf

LEMMA PacketType ==
  ASSUME NEW a \in Nat
  PROVE  PacketOf(a) \in Nat /\ a % PacketSize \in Nat
BY DEF PacketOf

LEMMA SumType == ASSUME NEW a \in Nat, NEW b \in Nat PROVE a + b \in Nat
OBVIOUS

LEMMA RemainderOfProduct ==
  ASSUME NEW q \in Nat, NEW m \in 0 .. PacketSize - 1
  PROVE  (PacketSize * q + m) % PacketSize = m
OBVIOUS

LEMMA ProductAndRemainder ==
  ASSUME NEW a \in Nat, NEW q \in Nat, NEW r \in Nat,
         a \div PacketSize = q, a % PacketSize = r
  PROVE  a = PacketSize * q + r
OBVIOUS

LEMMA ShiftedPacket ==
  ASSUME NEW a \in Nat, a % PacketSize = 0, NEW n \in Nat
  PROVE  (a + n) % PacketSize = n % PacketSize
<1>. DEFINE q == a \div PacketSize  d == n \div PacketSize  m == n % PacketSize
<1>1. q \in Nat /\ d \in Nat /\ m \in 0 .. PacketSize - 1
  OBVIOUS
<1>2. a = PacketSize * q + 0
  BY <1>1, ProductAndRemainder
<1>3. n = PacketSize * d + m
  BY <1>1, ProductAndRemainder
<1>. HIDE DEF q, d, m
<1>4. a + n = PacketSize * (q + d) + m
  BY <1>1, <1>2, <1>3
<1>5. (PacketSize * (q + d) + m) % PacketSize = m
  BY <1>1, RemainderOfProduct
<1>. QED BY <1>4, <1>5 DEF m

-----------------------------------------------------------------------------
(* Two elements of s are at least as far apart as their places, and none   *)
(* is further on than l from its own.                                      *)
Rising(s) == \A p, q \in DOMAIN s : p <= q => s[q] - s[p] >= q - p
Within(s, l) == \A p \in DOMAIN s : s[p] >= p - 1 /\ s[p] <= p - 1 + l

(* The line keeps the order of the bytes: between two of them at least as  *)
(* many were sent as were received, and no byte is further on at the       *)
(* sender than the losses account for.                                     *)
OriginInv ==
  /\ origin \in Seq(Nat) /\ Len(origin) = received /\ lost \in 0 .. MaxLost
  /\ Rising(origin) /\ Within(origin, lost)

(* The byte by which deserialize() knows a packet, and where the last one  *)
(* accepted had it.                                                        *)
Mark == MagicSize + LengthSize
AcceptedInv ==
  /\ accepted \in Seq(Nat)
  /\ AcceptedInOrder
  /\ accepted # <<>> =>
       \E b \in Nat : /\ b + PacketSize <= Base
                      /\ accepted[Len(accepted)] = PacketOf(origin[b + Mark + 1])

Lossless ==
  lost = 0 =>
    /\ result \in {"PACKET_OK", "PACKET_INCOMPLETE"}
    /\ accepted = [k \in 1 .. PacketOf(Base) |-> k - 1]

FramingIInv ==
  /\ AssemblerIInv
  /\ Base % PacketSize = 0
  /\ OriginInv
  /\ AcceptedInv
  /\ result \in Results
  /\ Lossless

(* The sender's numbers of the bytes of the frame just completed.          *)
FrameOrigins == [i \in Offsets |-> origin'[frame'[i] + 1]]

LEMMA FramingInitOK == FramingInit => FramingIInv
<1>. SUFFICES ASSUME FramingInit PROVE FramingIInv
  OBVIOUS
<1>1. AssemblerIInv
  BY AssemblerInitOK DEF FramingInit
<1>2. received = 0 /\ Base = 0
  BY DEF FramingInit, AssemblerInit, Base
<1>3. Base % PacketSize = 0 /\ PacketOf(Base) = 0
  BY <1>2 DEF PacketOf
<1>4. OriginInv
  <2>1. origin = <<>> /\ lost = 0 /\ DOMAIN origin = {}
    BY <1>2 DEF FramingInit
  <2>. QED BY <1>2, <2>1 DEF OriginInv, Rising, Within
<1>5. accepted = <<>> /\ result = "PACKET_INCOMPLETE"
  BY DEF FramingInit
<1>6. AcceptedInv
  BY <1>5 DEF AcceptedInv, AcceptedInOrder
<1>7. Lossless
  <2>1. [k \in 1 .. 0 |-> k - 1] = <<>>
    OBVIOUS
  <2>. QED BY <1>3, <1>5, <2>1 DEF Lossless
<1>. QED BY <1>1, <1>3, <1>4, <1>5, <1>6, <1>7 DEF FramingIInv, Results

LEMMA Concatenation ==
  ASSUME NEW s \in Seq(Nat), NEW t \in Seq(Nat)
  PROVE  /\ s \o t \in Seq(Nat) /\ Len(s \o t) = Len(s) + Len(t)
         /\ \A p \in 1 .. Len(s) : (s \o t)[p] = s[p]
         /\ \A k \in 1 .. Len(t) : (s \o t)[Len(s) + k] = t[k]
OBVIOUS

(* u goes on behind r elements, len of them, where s has come to.          *)
GoesOn(u, s, r, len, l, n) ==
  /\ \A p \in 1 .. r : u[p] = s[p]
  /\ \A k \in 1 .. len : u[r + k] >= r + l + k - 1 /\ u[r + k] <= r + l + n + k - 1
  /\ \A j, k \in 1 .. len : j <= k => u[r + k] - u[r + j] >= k - j

LEMMA OrderedTail ==
  ASSUME NEW s \in Seq(Nat), NEW u \in Seq(Nat), NEW r \in Nat, Len(s) = r,
         NEW len \in Nat, Len(u) = r + len, NEW l \in Nat, NEW n \in Nat,
         Rising(s), Within(s, l), GoesOn(u, s, r, len, l, n)
  PROVE  Rising(u) /\ Within(u, l + n)
<1>. USE DEF GoesOn
<1>1. DOMAIN s = 1 .. r /\ DOMAIN u = 1 .. r + len
  OBVIOUS
<1>2. \A p \in 1 .. r + len : u[p] \in Nat
  OBVIOUS
<1>3. ASSUME NEW p \in 1 .. r + len, p > r
      PROVE  p - r \in 1 .. len /\ p = r + (p - r)
  BY <1>3
<1>4. ASSUME NEW p \in 1 .. r + len
      PROVE  u[p] >= p - 1 /\ u[p] <= p - 1 + (l + n)
  <2>1. CASE p <= r
    <3>1. p \in 1 .. r
      BY <2>1
    <3>2. s[p] >= p - 1 /\ s[p] <= p - 1 + l /\ u[p] = s[p]
      BY <1>1, <3>1 DEF Within
    <3>. QED BY <1>2, <3>1, <3>2
  <2>2. CASE p > r
    <3>1. PICK k \in 1 .. len : p = r + k
      BY <1>3, <2>2
    <3>2. u[p] >= r + l + k - 1 /\ u[p] <= r + l + n + k - 1
      BY <3>1
    <3>. QED BY <1>2, <3>1, <3>2
  <2>. QED BY <2>1, <2>2
<1>5. ASSUME NEW p \in 1 .. r + len, NEW q \in 1 .. r + len, p <= q
      PROVE  u[q] - u[p] >= q - p
  <2>1. CASE q <= r
    <3>1. p \in 1 .. r /\ q \in 1 .. r
      BY <2>1, <1>5
    <3>2. s[q] - s[p] >= q - p
      BY <1>1, <3>1, <1>5 DEF Rising
    <3>. QED BY <3>1, <3>2
  <2>2. CASE p <= r /\ q > r
    <3>1. p \in 1 .. r
      BY <2>2
    <3>2. s[p] <= p - 1 + l /\ u[p] = s[p]
      BY <1>1, <3>1 DEF Within
    <3>3. PICK k \in 1 .. len : q = r + k
      BY <1>3, <2>2
    <3>4. u[q] >= r + l + k - 1
      BY <3>3
    <3>. QED BY <1>2, <3>1, <3>2, <3>3, <3>4
  <2>3. CASE p > r
    <3>1. q > r
      BY <2>3, <1>5
    <3>2. PICK j \in 1 .. len : p = r + j
      BY <1>3, <2>3
    <3>3. PICK k \in 1 .. len : q = r + k
      BY <1>3, <3>1
    <3>4. j <= k
      BY <1>5, <3>2, <3>3
    <3>5. u[q] - u[p] >= k - j
      BY <3>2, <3>3, <3>4
    <3>. QED BY <1>2, <3>2, <3>3, <3>5
  <2>. QED BY <2>1, <2>2, <2>3
<1>. QED BY <1>1, <1>4, <1>5 DEF Rising, Within

LEMMA OriginsFollow ==
  ASSUME OriginInv, received \in Nat, NEW len \in 1 .. MaxRead, NEW gap \in 0 .. len - 1,
         NEW n \in 0 .. MaxLost - lost,
         received' = received + len, lost' = lost + n,
         origin' = origin \o ChunkOrigins(len, gap, n)
  PROVE  OriginInv' /\ \A p \in 1 .. received : origin'[p] = origin[p]
<1>. DEFINE chunk == ChunkOrigins(len, gap, n)
<1>1. /\ origin \in Seq(Nat) /\ Len(origin) = received /\ lost \in Nat
      /\ lost' \in 0 .. MaxLost /\ received' \in Nat /\ len \in Nat /\ n \in Nat
      /\ Rising(origin) /\ Within(origin, lost)
  BY DEF OriginInv
<1>2. chunk \in Seq(Nat) /\ Len(chunk) = len
  BY <1>1 DEF ChunkOrigins
<1>3. \A k \in 1 .. len :
        chunk[k] = received + lost + k - 1 + (IF k > gap THEN n ELSE 0)
  BY <1>1 DEF ChunkOrigins
<1>4. origin' = origin \o chunk
  OBVIOUS
<1>. HIDE DEF chunk
<1>5. \A k \in 1 .. len : chunk[k] >= received + lost + k - 1
                          /\ chunk[k] <= received + lost + n + k - 1
  BY <1>1, <1>3
<1>6. ASSUME NEW j \in 1 .. len, NEW k \in 1 .. len, j <= k
      PROVE  chunk[k] - chunk[j] >= k - j
  <2>1. chunk[k] = received + lost + k - 1 + (IF k > gap THEN n ELSE 0)
        /\ chunk[j] = received + lost + j - 1 + (IF j > gap THEN n ELSE 0)
    BY <1>3
  <2>2. j > gap => k > gap
    BY <1>1, <1>6
  <2>. QED BY <1>1, <1>6, <2>1, <2>2
<1>. DEFINE u == origin \o chunk
<1>7. /\ u \in Seq(Nat) /\ Len(u) = received + len
      /\ \A p \in 1 .. received : u[p] = origin[p]
      /\ \A k \in 1 .. len : u[received + k] = chunk[k]
  BY <1>1, <1>2, Concatenation
<1>. HIDE DEF u
<1>8. Rising(u) /\ Within(u, lost + n)
  <2>1. \A k \in 1 .. len : u[received + k] >= received + lost + k - 1
                            /\ u[received + k] <= received + lost + n + k - 1
    BY <1>5, <1>7
  <2>2. \A j, k \in 1 .. len : j <= k => u[received + k] - u[received + j] >= k - j
    BY <1>6, <1>7
  <2>3. GoesOn(u, origin, received, len, lost, n)
    BY <1>7, <2>1, <2>2 DEF GoesOn
  <2>. QED BY <1>1, <1>7, <2>3, OrderedTail
<1>9. origin' = u
  BY <1>4 DEF u
<1>. QED BY <1>1, <1>7, <1>8, <1>9 DEF OriginInv

-----------------------------------------------------------------------------
(* Frames.                                                                 *)

LEMMA FieldsLieInPacket ==
  /\ MagicOffsets \subseteq Offsets /\ LengthOffsets \subseteq Offsets
  /\ DataOffsets \subseteq Offsets
  /\ 0 \in MagicOffsets /\ Mark \in Offsets
BY DEF MagicOffsets, LengthOffsets, DataOffsets, Offsets, Mark

(* A frame that is a packet is accepted; one that begins elsewhere is not  *)
(* even looked at.                                                         *)
LEMMA WholePacketIsOK ==
  ASSUME NEW f, NEW a \in Nat, a % PacketSize = 0, \A i \in Offsets : f[i] = a + i
  PROVE  Verdicts(f) = {"PACKET_OK"}
<1>1. \A i \in Offsets : f[i] % PacketSize = i /\ PacketOf(f[i]) = PacketOf(a)
  BY WithinPacket
<1>. QED BY <1>1, FieldsLieInPacket DEF Verdicts, InPlace, SamePacket

LEMMA ShiftedFrameIsBad ==
  ASSUME NEW f, f[0] % PacketSize # 0
  PROVE  Verdicts(f) = {"PACKET_BAD"}
BY FieldsLieInPacket DEF Verdicts, InPlace

LEMMA VerdictsAreResults ==
  ASSUME NEW f
  PROVE  Verdicts(f) \subseteq Results
BY DEF Verdicts, Results

(* A call that completes a frame, and one that does not.                   *)
LEMMA CompletingCall ==
  ASSUME CallersReadAtMostAPacket, FramingIInv, NEW len \in 1 .. MaxRead,
         NEW gap \in 0 .. len - 1, NEW n \in 0 .. MaxLost - lost,
         Deserialize(len, gap, n)
  PROVE  /\ AssemblerIInv' /\ OriginInv' /\ Base \in Nat /\ received \in Nat
         /\ \A p \in 1 .. received : origin'[p] = origin[p]
         /\ Completes(len) =>
              /\ Base' = Base + PacketSize
              /\ frame' = [i \in Offsets |-> Base + i]
              /\ result' \in Verdicts(FrameOrigins)
              /\ accepted' = IF result' = "PACKET_OK"
                             THEN Append(accepted, PacketOf(FrameOrigins[Mark]))
                             ELSE accepted
         /\ ~Completes(len) =>
              /\ Base' = Base
              /\ result' = "PACKET_INCOMPLETE" /\ accepted' = accepted
<1>1. AssemblerIInv /\ OriginInv /\ Assemble(len)
  BY DEF FramingIInv, Deserialize
<1>2. received \in Nat /\ Base \in Nat
  BY <1>1, CopyIn
<1>3. OriginInv' /\ \A p \in 1 .. received : origin'[p] = origin[p]
  <2>1. received' = received + len /\ lost' = lost + n
        /\ origin' = origin \o ChunkOrigins(len, gap, n)
    BY DEF Deserialize, Assemble
  <2>. QED BY <1>1, <1>2, <2>1, OriginsFollow
<1>4. CASE Fills(len)
  <2>1. Completes(len)
    BY <1>1, <1>4, FillingChunk
  <2>2. AssemblerIInv' /\ Base' = Base + PacketSize
        /\ frame' = [i \in Offsets |-> Base + i]
    BY <1>1, <1>4, FillingStep
  <2>3. /\ result' \in Verdicts(FrameOrigins)
        /\ accepted' = IF result' = "PACKET_OK"
                       THEN Append(accepted, PacketOf(FrameOrigins[Mark]))
                       ELSE accepted
    BY <2>1 DEF Deserialize, FrameOrigins, Mark
  <2>. QED BY <1>2, <1>3, <2>1, <2>2, <2>3
<1>5. CASE ~Fills(len)
  <2>1. ~Completes(len)
    BY <1>1, <1>5, ShortChunk
  <2>2. AssemblerIInv' /\ Base' = Base
    BY <1>1, <1>5, ShortStep
  <2>3. result' = "PACKET_INCOMPLETE" /\ accepted' = accepted
    BY <2>1 DEF Deserialize
  <2>. QED BY <1>2, <1>3, <2>1, <2>2, <2>3
<1>. QED BY <1>4, <1>5

LEMMA Element == ASSUME NEW S, NEW s \in Seq(S), NEW i \in DOMAIN s PROVE s[i] \in S
OBVIOUS

LEMMA RisingPair ==
  ASSUME NEW s, Rising(s), NEW p \in DOMAIN s, NEW q \in DOMAIN s, p <= q
  PROVE  s[q] - s[p] >= q - p
BY DEF Rising

LEMMA FrameOriginsFollow ==
  ASSUME AssemblerIInv', OriginInv', Base \in Nat, Base' = Base + PacketSize,
         frame' = [i \in Offsets |-> Base + i]
  PROVE  /\ lost' \in Nat
         /\ \A i \in Offsets :
              /\ Base + i + 1 \in 1 .. received'
              /\ FrameOrigins[i] = origin'[Base + i + 1] /\ FrameOrigins[i] \in Nat
              /\ FrameOrigins[i] >= Base + i /\ FrameOrigins[i] <= Base + i + lost'
         /\ \A i, j \in Offsets :
              i <= j => FrameOrigins[j] - FrameOrigins[i] >= j - i
<1>1. received' \in Nat /\ received' >= Base + PacketSize
  BY DEF AssemblerIInv, AssemblerTypeOK, Base
<1>2. origin' \in Seq(Nat) /\ DOMAIN origin' = 1 .. received' /\ lost' \in Nat
  BY <1>1 DEF OriginInv
<1>3. ASSUME NEW i \in Offsets
      PROVE  /\ Base + i + 1 \in 1 .. received' /\ i \in Nat
             /\ FrameOrigins[i] = origin'[Base + i + 1] /\ FrameOrigins[i] \in Nat
             /\ FrameOrigins[i] >= Base + i /\ FrameOrigins[i] <= Base + i + lost'
  <2>1. Base + i + 1 \in 1 .. received' /\ i \in Nat
    BY <1>1 DEF Offsets
  <2>2. FrameOrigins[i] = origin'[Base + i + 1]
    BY DEF FrameOrigins
  <2>3. origin'[Base + i + 1] \in Nat
    BY <1>2, <2>1, Element
  <2>4. origin'[Base + i + 1] >= (Base + i + 1) - 1
        /\ origin'[Base + i + 1] <= (Base + i + 1) - 1 + lost'
    BY <1>2, <2>1 DEF OriginInv, Within
  <2>. QED BY <1>2, <2>1, <2>2, <2>3, <2>4
<1>4. ASSUME NEW i \in Offsets, NEW j \in Offsets, i <= j
      PROVE  FrameOrigins[j] - FrameOrigins[i] >= j - i
  <2>1. /\ Base + i + 1 \in 1 .. received' /\ Base + j + 1 \in 1 .. received'
        /\ i \in Nat /\ j \in Nat
    BY <1>3
  <2>2. origin'[Base + j + 1] - origin'[Base + i + 1] >= (Base + j + 1) - (Base + i + 1)
    <3>1. Base + i + 1 <= Base + j + 1
      BY <1>4, <2>1
    <3>2. Rising(origin')
      BY DEF OriginInv, Rising
    <3>3. Base + i + 1 \in DOMAIN origin' /\ Base + j + 1 \in DOMAIN origin'
      BY <1>2, <2>1
    <3>. QED BY <3>1, <3>2, <3>3, RisingPair
  <2>3. FrameOrigins[i] = origin'[Base + i + 1] /\ FrameOrigins[j] = origin'[Base + j + 1]
    BY <1>3
  <2>. QED BY <2>1, <2>2, <2>3
<1>. QED BY <1>2, <1>3, <1>4

-----------------------------------------------------------------------------
(* What a call does to the packets accepted.                               *)

LEMMA AppendedTo ==
  ASSUME NEW s \in Seq(Nat), NEW e \in Nat
  PROVE  /\ Append(s, e) \in Seq(Nat) /\ Len(Append(s, e)) = Len(s) + 1
         /\ Append(s, e) # <<>> /\ Append(s, e)[Len(s) + 1] = e
         /\ \A k \in 1 .. Len(s) : Append(s, e)[k] = s[k]
<1>1. Append(s, e) \in Seq(Nat)
  OBVIOUS
<1>2. Len(Append(s, e)) = Len(s) + 1 /\ Len(s) \in Nat
  OBVIOUS
<1>3. Append(s, e)[Len(s) + 1] = e /\ \A k \in 1 .. Len(s) : Append(s, e)[k] = s[k]
  OBVIOUS
<1>4. Append(s, e) # <<>>
  OBVIOUS
<1>. QED BY <1>1, <1>2, <1>3, <1>4

LEMMA LongerOrder ==
  ASSUME NEW s \in Seq(Nat), NEW e \in Nat,
         \A k \in 1 .. Len(s) - 1 : s[k] < s[k + 1],
         s # <<>> => s[Len(s)] < e
  PROVE  /\ Append(s, e) \in Seq(Nat) /\ Append(s, e) # <<>>
         /\ Append(s, e)[Len(Append(s, e))] = e
         /\ \A k \in 1 .. Len(Append(s, e)) - 1 : Append(s, e)[k] < Append(s, e)[k + 1]
<1>. DEFINE t == Append(s, e)
<1>1. t \in Seq(Nat) /\ Len(t) = Len(s) + 1 /\ t # <<>> /\ t[Len(s) + 1] = e
  BY AppendedTo
<1>2. \A k \in 1 .. Len(s) : t[k] = s[k]
  BY AppendedTo
<1>3. Len(s) \in Nat /\ (Len(s) > 0 => s # <<>>)
  OBVIOUS
<1>. HIDE DEF t
<1>4. ASSUME NEW k \in 1 .. Len(t) - 1 PROVE t[k] < t[k + 1]
  <2>1. k \in 1 .. Len(s)
    BY <1>1, <1>3, <1>4
  <2>2. CASE k = Len(s)
    BY <1>1, <1>2, <1>3, <2>1, <2>2
  <2>3. CASE k < Len(s)
    <3>1. k \in 1 .. Len(s) - 1 /\ k + 1 \in 1 .. Len(s)
      BY <1>3, <2>1, <2>3
    <3>. QED BY <1>2, <2>1, <3>1
  <2>. QED BY <1>3, <2>1, <2>2, <2>3
<1>. QED BY <1>1, <1>4 DEF t

(* A packet is accepted by a byte sent at least a packet's length after    *)
(* the one by which the last was.                                          *)
LEMMA AcceptedStep ==
  ASSUME CallersReadAtMostAPacket, FramingIInv, NEW len \in 1 .. MaxRead,
         NEW gap \in 0 .. len - 1, NEW n \in 0 .. MaxLost - lost,
         Deserialize(len, gap, n)
  PROVE  AcceptedInv'
<1>1. AcceptedInv /\ accepted \in Seq(Nat) /\ AcceptedInOrder
  BY DEF FramingIInv, AcceptedInv
<1>2. /\ AssemblerIInv' /\ OriginInv' /\ Base \in Nat /\ received \in Nat
      /\ \A p \in 1 .. received : origin'[p] = origin[p]
  BY CompletingCall
<1>3. received >= Base /\ Mark \in Offsets /\ Mark \in 0 .. PacketSize - 1
  BY CopyIn, FieldsLieInPacket DEF FramingIInv, Offsets
<1>4. ASSUME accepted # <<>>
      PROVE  \E b \in Nat : /\ b + PacketSize <= Base
                             /\ b + Mark + 1 \in 1 .. received
                             /\ accepted[Len(accepted)] = PacketOf(origin'[b + Mark + 1])
  <2>1. PICK b \in Nat : /\ b + PacketSize <= Base
                         /\ accepted[Len(accepted)] = PacketOf(origin[b + Mark + 1])
    BY <1>1, <1>4 DEF AcceptedInv
  <2>2. b + Mark + 1 \in 1 .. received
    BY <1>2, <1>3, <2>1
  <2>. QED BY <1>2, <2>1, <2>2
<1>5. CASE accepted' = accepted /\ Base' \in {Base, Base + PacketSize}
  <2>1. ASSUME accepted # <<>>
        PROVE  \E b \in Nat : /\ b + PacketSize <= Base'
                               /\ accepted[Len(accepted)] = PacketOf(origin'[b + Mark + 1])
    <3>1. PICK b \in Nat : /\ b + PacketSize <= Base
                           /\ accepted[Len(accepted)] = PacketOf(origin'[b + Mark + 1])
      BY <1>4, <2>1
    <3>2. b + PacketSize <= Base'
      BY <1>2, <1>5, <3>1
    <3>. QED BY <3>1, <3>2
  <2>. QED BY <1>1, <1>5, <2>1 DEF AcceptedInv, AcceptedInOrder
<1>6. CASE /\ Base' = Base + PacketSize
           /\ frame' = [i \in Offsets |-> Base + i]
           /\ accepted' = Append(accepted, PacketOf(FrameOrigins[Mark]))
  <2>1. /\ Base + Mark + 1 \in 1 .. received'
        /\ FrameOrigins[Mark] = origin'[Base + Mark + 1]
        /\ FrameOrigins[Mark] \in Nat
    BY <1>2, <1>3, <1>6, FrameOriginsFollow
  <2>. DEFINE e == PacketOf(FrameOrigins[Mark])
  <2>2. e \in Nat
    BY <2>1, PacketType
  <2>3. ASSUME accepted # <<>> PROVE accepted[Len(accepted)] < e
    <3>1. PICK b \in Nat : /\ b + PacketSize <= Base
                           /\ b + Mark + 1 \in 1 .. received
                           /\ accepted[Len(accepted)] = PacketOf(origin'[b + Mark + 1])
      BY <1>4, <2>3
    <3>2. /\ Rising(origin') /\ origin' \in Seq(Nat) /\ DOMAIN origin' = 1 .. received'
          /\ received' \in Nat
      BY <1>2 DEF OriginInv, Rising, AssemblerIInv, AssemblerTypeOK
    <3>3. b + Mark + 1 \in 1 .. received' /\ b + Mark + 1 <= Base + Mark + 1
      BY <1>2, <1>3, <2>1, <3>1, <3>2
    <3>4. origin'[Base + Mark + 1] - origin'[b + Mark + 1] >= (Base + Mark + 1) - (b + Mark + 1)
      BY <2>1, <3>2, <3>3, RisingPair
    <3>5. origin'[b + Mark + 1] \in Nat /\ origin'[Base + Mark + 1] \in Nat
      BY <2>1, <3>2, <3>3, Element
    <3>6. origin'[Base + Mark + 1] >= origin'[b + Mark + 1] + PacketSize
      BY <1>2, <1>3, <3>1, <3>4, <3>5
    <3>. QED BY <2>1, <3>1, <3>5, <3>6, LaterPacket
  <2>. HIDE DEF e
  <2>4. accepted' = Append(accepted, e)
    BY <1>6 DEF e
  <2>5. /\ accepted' \in Seq(Nat) /\ accepted' # <<>> /\ accepted'[Len(accepted')] = e
        /\ \A k \in 1 .. Len(accepted') - 1 : accepted'[k] < accepted'[k + 1]
    <3>1. \A k \in 1 .. Len(accepted) - 1 : accepted[k] < accepted[k + 1]
      BY <1>1 DEF AcceptedInOrder
    <3>. QED BY <1>1, <2>2, <2>3, <2>4, <3>1, LongerOrder
  <2>6. Base + PacketSize <= Base' /\ e = PacketOf(origin'[Base + Mark + 1])
    BY <1>2, <1>6, <2>1 DEF e
  <2>. QED BY <1>2, <2>5, <2>6 DEF AcceptedInv, AcceptedInOrder
<1>. QED BY <1>5, <1>6, CompletingCall

(* Without losses the frame is the next packet of the sender.              *)
LEMMA LosslessStep ==
  ASSUME CallersReadAtMostAPacket, FramingIInv, NEW len \in 1 .. MaxRead,
         NEW gap \in 0 .. len - 1, NEW n \in 0 .. MaxLost - lost,
         Deserialize(len, gap, n)
  PROVE  Lossless'
<1>. SUFFICES ASSUME lost' = 0
              PROVE  /\ result' \in {"PACKET_OK", "PACKET_INCOMPLETE"}
                     /\ accepted' = [k \in 1 .. PacketOf(Base') |-> k - 1]
  BY DEF Lossless
<1>1. AssemblerIInv' /\ OriginInv' /\ Base \in Nat /\ Base % PacketSize = 0
  BY CompletingCall DEF FramingIInv
<1>2. accepted = [k \in 1 .. PacketOf(Base) |-> k - 1]
  <2>1. lost = 0
    <3>1. lost' = lost + n /\ lost \in Nat /\ n \in Nat
      BY DEF Deserialize, FramingIInv, OriginInv
    <3>. QED BY <3>1
  <2>. QED BY <2>1 DEF FramingIInv, Lossless
<1>3. CASE Completes(len)
  <2>1. /\ Base' = Base + PacketSize
        /\ frame' = [i \in Offsets |-> Base + i]
        /\ result' \in Verdicts(FrameOrigins)
        /\ accepted' = IF result' = "PACKET_OK"
                       THEN Append(accepted, PacketOf(FrameOrigins[Mark]))
                       ELSE accepted
    BY <1>3, CompletingCall
  <2>2. \A i \in Offsets : FrameOrigins[i] = Base + i
    <3>. TAKE i \in Offsets
    <3>1. /\ FrameOrigins[i] >= Base + i /\ FrameOrigins[i] <= Base + i + lost'
          /\ FrameOrigins[i] \in Nat
      BY <1>1, <2>1, FrameOriginsFollow
    <3>. QED BY <1>1, <3>1 DEF Offsets
  <2>3. result' = "PACKET_OK"
    <3>1. Verdicts(FrameOrigins) = {"PACKET_OK"}
      BY <1>1, <2>2, WholePacketIsOK
    <3>. QED BY <2>1, <3>1
  <2>4. PacketOf(FrameOrigins[Mark]) = PacketOf(Base)
    BY <1>1, <2>2, FieldsLieInPacket, WithinPacket
  <2>5. PacketOf(Base') = PacketOf(Base) + 1 /\ PacketOf(Base) \in Nat
    BY <1>1, <2>1, NextPacket, PacketType
  <2>. DEFINE m == PacketOf(Base)
  <2>6. accepted' = Append(accepted, m)
    BY <2>1, <2>3, <2>4
  <2>. HIDE DEF m
  <2>7. Append([k \in 1 .. m |-> k - 1], m) = [k \in 1 .. m + 1 |-> k - 1]
    BY <2>5 DEF m
  <2>. QED BY <1>2, <2>3, <2>5, <2>6, <2>7 DEF m
<1>4. CASE ~Completes(len)
  <2>1. Base' = Base /\ result' = "PACKET_INCOMPLETE" /\ accepted' = accepted
    BY <1>4, CompletingCall
  <2>. QED BY <1>2, <2>1
<1>. QED BY <1>3, <1>4

-----------------------------------------------------------------------------
(* Every step, and the theorems.                                           *)

LEMMA EveryCall ==
  ASSUME FramingIInv, FramingNext
  PROVE  \E len \in 1 .. MaxRead : \E gap \in 0 .. len - 1 :
           \E n \in 0 .. MaxLost - lost : Deserialize(len, gap, n)
<1>1. lost \in 0 .. MaxLost
  BY DEF FramingIInv, OriginInv
<1>2. PICK len \in 1 .. MaxRead : Arrive(len) \/ ArriveDamaged(len)
  BY DEF FramingNext
<1>3. CASE Arrive(len)
  <2>1. 0 \in 0 .. len - 1 /\ 0 \in 0 .. MaxLost - lost
    BY <1>1
  <2>. QED BY <1>3, <2>1 DEF Arrive
<1>4. CASE ArriveDamaged(len)
  <2>1. PICK gap \in 0 .. len - 1, n \in 1 .. MaxLost - lost : Deserialize(len, gap, n)
    BY <1>4 DEF ArriveDamaged
  <2>2. n \in 0 .. MaxLost - lost
    BY <1>1
  <2>. QED BY <2>1, <2>2
<1>. QED BY <1>2, <1>3, <1>4

LEMMA FramingStepOK ==
  ASSUME CallersReadAtMostAPacket, FramingIInv, [FramingNext]_framingVars
  PROVE  FramingIInv'
<1>1. CASE FramingNext
  <2>len. PICK len \in 1 .. MaxRead :
          \E gap \in 0 .. len - 1 : \E n \in 0 .. MaxLost - lost : Deserialize(len, gap, n)
    BY <1>1, EveryCall
  <2>gap. PICK gap \in 0 .. len - 1 :
          \E n \in 0 .. MaxLost - lost : Deserialize(len, gap, n)
    BY <2>len
  <2>1. PICK n \in 0 .. MaxLost - lost : Deserialize(len, gap, n)
    BY <2>gap
  <2>2. AcceptedInv' /\ Lossless'
    BY <2>1, AcceptedStep, LosslessStep
  <2>3. /\ AssemblerIInv' /\ OriginInv' /\ Base \in Nat /\ Base % PacketSize = 0
    BY <2>1, CompletingCall DEF FramingIInv
  <2>4. CASE Completes(len)
    <3>1. Base' = Base + PacketSize /\ result' \in Verdicts(FrameOrigins)
      BY <2>1, <2>4, CompletingCall
    <3>2. Base' % PacketSize = 0
      BY <2>3, <3>1, NextPacket
    <3>3. result' \in Results
      BY <3>1, VerdictsAreResults
    <3>. QED BY <2>2, <2>3, <3>2, <3>3 DEF FramingIInv
  <2>5. CASE ~Completes(len)
    <3>1. Base' = Base /\ result' = "PACKET_INCOMPLETE"
      BY <2>1, <2>5, CompletingCall
    <3>. QED BY <2>2, <2>3, <3>1 DEF FramingIInv, Results
  <2>. QED BY <2>4, <2>5
<1>2. CASE UNCHANGED framingVars
  <2>1. AssemblerIInv'
    BY <1>2, AssemblerStepOK DEF FramingIInv, framingVars
  <2>2. Base' = Base
    BY <1>2 DEF framingVars, assemblerVars, Base
  <2>3. received' = received /\ origin' = origin /\ lost' = lost
        /\ accepted' = accepted /\ result' = result
    BY <1>2 DEF framingVars, assemblerVars
  <2>4. OriginInv'
    BY <2>3 DEF FramingIInv, OriginInv, Rising, Within
  <2>5. AcceptedInv' /\ Lossless'
    BY <2>2, <2>3 DEF FramingIInv, AcceptedInv, AcceptedInOrder, Lossless
  <2>. QED BY <2>1, <2>2, <2>3, <2>4, <2>5 DEF FramingIInv
<1>. QED BY <1>1, <1>2

LEMMA FramingInvariant ==
  ASSUME CallersReadAtMostAPacket
  PROVE  FramingSpec => []FramingIInv
<1>. QED BY FramingInitOK, FramingStepOK, PTL DEF FramingSpec

(* deserialize() keeps its types and its counters in bounds: calls of at   *)
(* most a packet never overrun a buffer, on a line that loses bytes too.   *)
THEOREM FramingTypeCorrect ==
  ASSUME CallersReadAtMostAPacket
  PROVE  FramingSpec => []FramingTypeOK
<1>1. FramingIInv => FramingTypeOK
  BY DEF FramingIInv, AssemblerIInv, OriginInv, AcceptedInv, FramingTypeOK
<1>. QED BY <1>1, FramingInvariant, PTL

(* On a line that loses nothing deserialize() reports no error and has     *)
(* accepted every packet that has arrived complete.                        *)
THEOREM LosslessIsErrorFree ==
  ASSUME CallersReadAtMostAPacket
  PROVE  FramingSpec => []LosslessLineIsErrorFree
<1>1. ASSUME FramingIInv PROVE LosslessLineIsErrorFree
  <2>1. /\ received = Base + Filled /\ Filled \in Offsets
        /\ Base \in Nat /\ Base % PacketSize = 0
    BY <1>1, CopyIn DEF FramingIInv, Offsets
  <2>2. PacketOf(received) = PacketOf(Base)
    BY <2>1, WithinPacket
  <2>. QED BY <1>1, <2>2 DEF FramingIInv, Lossless, LosslessLineIsErrorFree, PacketOf
<1>. QED BY <1>1, FramingInvariant, PTL

(* Whatever is lost, deserialize() accepts no packet twice and none after  *)
(* a later one.                                                            *)
THEOREM NoPacketTwice ==
  ASSUME CallersReadAtMostAPacket
  PROVE  FramingSpec => []AcceptedInOrder
<1>1. FramingIInv => AcceptedInOrder
  BY DEF FramingIInv, AcceptedInv
<1>. QED BY <1>1, FramingInvariant, PTL

(* A frame behind all losses is a packet when whole packets were lost, and *)
(* PACKET_BAD otherwise: deserialize() finds no way back into step.        *)
THEOREM NeverRecovers ==
  ASSUME CallersReadAtMostAPacket
  PROVE  FramingSpec => FramingNeverRecovers
<1>. DEFINE Verdict ==
       result' # "PACKET_INCOMPLETE" /\ origin'[frame'[0] + 1] = frame'[0] + lost'
       => result' = IF lost' % PacketSize = 0 THEN "PACKET_OK" ELSE "PACKET_BAD"
<1>1. ASSUME FramingIInv, FramingNext PROVE Verdict
  <2>. SUFFICES ASSUME result' # "PACKET_INCOMPLETE",
                       origin'[frame'[0] + 1] = frame'[0] + lost'
                PROVE  result' = IF lost' % PacketSize = 0
                                 THEN "PACKET_OK" ELSE "PACKET_BAD"
    OBVIOUS
  <2>len. PICK len \in 1 .. MaxRead :
          \E gap \in 0 .. len - 1 : \E n \in 0 .. MaxLost - lost : Deserialize(len, gap, n)
    BY <1>1, EveryCall
  <2>gap. PICK gap \in 0 .. len - 1 :
          \E n \in 0 .. MaxLost - lost : Deserialize(len, gap, n)
    BY <2>len
  <2>1. PICK n \in 0 .. MaxLost - lost : Deserialize(len, gap, n)
    BY <2>gap
  <2>2. /\ AssemblerIInv' /\ OriginInv' /\ Base \in Nat /\ Base % PacketSize = 0
    BY <1>1, <2>1, CompletingCall DEF FramingIInv
  <2>3. /\ Base' = Base + PacketSize /\ frame' = [i \in Offsets |-> Base + i]
        /\ result' \in Verdicts(FrameOrigins)
    BY <1>1, <2>1, CompletingCall
  <2>4. 0 \in Offsets /\ frame'[0] = Base + 0 /\ lost' \in Nat
    BY <2>2, <2>3, FrameOriginsFollow DEF Offsets
  <2>. DEFINE start == Base + lost'
  <2>5. FrameOrigins[0] = start /\ start \in Nat
    <3>1. FrameOrigins[0] = origin'[frame'[0] + 1]
      BY <2>4 DEF FrameOrigins
    <3>2. FrameOrigins[0] = frame'[0] + lost'
      BY <3>1
    <3>3. frame'[0] = Base
      BY <2>2, <2>4
    <3>4. FrameOrigins[0] = Base + lost'
      BY <3>2, <3>3
    <3>. QED BY <2>2, <2>4, <3>4, SumType
  <2>6. start % PacketSize = lost' % PacketSize
    BY <2>2, <2>4, ShiftedPacket
  <2>. HIDE DEF start
  <2>7. CASE lost' % PacketSize = 0
    <3>1. \A i \in Offsets : FrameOrigins[i] = start + i
      <4>. TAKE i \in Offsets
      <4>1. /\ FrameOrigins[i] <= Base + i + lost' /\ FrameOrigins[i] \in Nat
            /\ FrameOrigins[i] - FrameOrigins[0] >= i - 0 /\ i \in Nat
        <5>1. 0 <= i /\ i \in Nat
          BY DEF Offsets
        <5>. QED BY <2>2, <2>3, <2>4, <5>1, FrameOriginsFollow
      <4>. QED BY <2>2, <2>4, <2>5, <4>1 DEF start
    <3>2. Verdicts(FrameOrigins) = {"PACKET_OK"}
      BY <2>5, <2>6, <2>7, <3>1, WholePacketIsOK
    <3>. QED BY <2>3, <2>7, <3>2
  <2>8. CASE lost' % PacketSize # 0
    <3>1. Verdicts(FrameOrigins) = {"PACKET_BAD"}
      BY <2>5, <2>6, <2>8, ShiftedFrameIsBad
    <3>. QED BY <2>3, <2>8, <3>1
  <2>. QED BY <2>7, <2>8
<1>2. FramingIInv /\ [FramingNext]_framingVars => [Verdict]_framingVars
  BY <1>1
<1>. QED BY <1>2, FramingInvariant, PTL DEF FramingSpec, FramingNeverRecovers

=============================================================================
