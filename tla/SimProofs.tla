----------------------------- MODULE SimProofs -----------------------------
(***************************************************************************)
(* Theorems about the packets of the simulator, for any subscriptions,      *)
(* interfaces and units, and streams of any length.  The lemmas about       *)
(* sequences and division are those of PacketProofs.                        *)
(***************************************************************************)
EXTENDS JtiSim, PacketProofs, FiniteSetTheorems

-----------------------------------------------------------------------------
(* Division: the places of a wrap *)

LEMMA DivBelow ==
  ASSUME NEW a \in Nat, NEW b \in Nat, NEW c \in Nat, a < c * b
  PROVE  b > 0 /\ c > 0 /\ a \div b \in Nat /\ a \div b < c
  <1>1. b # 0 /\ c # 0
    OBVIOUS
  <1>2. PICK q \in Nat, r \in Nat : q = a \div b /\ r < b /\ a = b * q + r
    BY <1>1, DivMod
  <1>3. ~(c <= q)
    <2> SUFFICES ASSUME c <= q PROVE FALSE
      OBVIOUS
    <2>1. PICK d \in Nat : q = c + d
      <3>1. q - c \in Nat /\ q = c + (q - c)
        OBVIOUS
      <3> QED BY <3>1
    <2>2. b * q = c * b + b * d
      BY <2>1
    <2>3. b * d \in Nat
      OBVIOUS
    <2> QED BY <1>2, <2>2, <2>3
  <1> QED BY <1>1, <1>2, <1>3

(* a, b and c are the digits of n in the mixed radix of slots, cards and ports. *)
Digits(f, p, q, n, a, b, c) ==
    /\ a \in 0 .. f - 1 /\ b \in 0 .. p - 1 /\ c \in 0 .. q - 1
    /\ a = n \div (p * q) /\ b = ((n \div q) % p) /\ c = (n % q)
    /\ (a * p + b) * q + c = n

LEMMA MixedRadix ==
  ASSUME NEW f \in Nat, NEW p \in Nat, NEW q \in Nat, NEW n \in Nat, NEW fpq \in Nat,
         fpq = f * p * q, n < fpq
  PROVE  \E a, b, c : Digits(f, p, q, n, a, b, c)
  <1>0. PICK pq \in Nat, fp \in Nat : pq = p * q /\ fp = f * p
    <2>1. p * q \in Nat /\ f * p \in Nat
      OBVIOUS
    <2> QED BY <2>1
  <1>1. n < fp * q
    BY <1>0
  <1>2. PICK d \in Nat, c \in Nat : d = n \div q /\ c = (n % q) /\ c < q /\ n = q * d + c /\ d < f * p
    <2>1. q > 0 /\ n \div q < fp
      BY <1>1, DivBelow
    <2> QED BY <1>0, <2>1, DivMod
  <1>3. PICK e \in Nat, b \in Nat : e = d \div p /\ b = (d % p) /\ b < p /\ d = p * e + b /\ e < f
    BY <1>2, DivMod, DivBelow
  <1>4. PICK r \in Nat : r = q * b + c
    <2>1. q * b + c \in Nat
      OBVIOUS
    <2> QED BY <2>1
  <1>5. r < pq
    <2>1. q * b + q <= q * p /\ q * p = p * q
      BY <1>3, MulMono
    <2> QED BY <1>0, <1>2, <1>4, <2>1
  <1>6. n = pq * e + r
    <2>1. q * d = q * (p * e) + q * b
      BY <1>3
    <2>2. q * (p * e) = (p * q) * e
      OBVIOUS
    <2> QED BY <1>0, <1>2, <1>4, <2>1, <2>2
  <1>7. e = n \div (p * q)
    BY <1>0, <1>5, <1>6, DivUnique
  <1>8. (e * p + b) * q + c = n
    <2>1. e * p + b = d
      <3>1. e * p = p * e
        OBVIOUS
      <3> QED BY <1>3, <3>1
    <2>2. d * q = q * d
      OBVIOUS
    <2> QED BY <1>2, <2>1, <2>2
  <1>9. e \in 0 .. f - 1 /\ b \in 0 .. p - 1 /\ c \in 0 .. q - 1
    BY <1>2, <1>3
  <1>10. b = ((n \div q) % p) /\ c = (n % q)
    BY <1>2, <1>3
  <1> QED BY <1>7, <1>8, <1>9, <1>10, Zenon DEF Digits

(* The next place is the next unit of the interface, or the next interface. *)
LEMMA NextPlace ==
  ASSUME NEW k \in Nat, NEW m \in Nat, m > 0
  PROVE  \/ /\ ((k + 1) % m) = (k % m) + 1 /\ (k + 1) \div m = k \div m
         \/ ((k + 1) % m) = 0
  <1>1. PICK q \in Nat, r \in Nat : q = k \div m /\ r = (k % m) /\ r < m /\ k = m * q + r
    BY DivMod
  <1>2. CASE r + 1 < m
    <2>1. k + 1 = m * q + (r + 1) /\ k + 1 \in Nat /\ r + 1 \in Nat
      BY <1>1
    <2> QED BY <1>1, <1>2, <2>1, DivUnique
  <1>3. CASE r + 1 = m
    <2>1. k + 1 = m * (q + 1) + 0 /\ k + 1 \in Nat /\ q + 1 \in Nat
      BY <1>1, <1>3
    <2> QED BY <2>1, DivUnique
  <1> QED BY <1>1, <1>2, <1>3

(* The turn of the packet at place k of a wrap is k. *)
AtPlace(f, p, q, m, k, n, r, a, b, c) ==
    /\ n \in 0 .. f * p * q - 1 /\ r \in 0 .. m - 1
    /\ n = k \div m /\ r = (k % m)
    /\ Digits(f, p, q, n, a, b, c) /\ ((a * p + b) * q + c) * m + r = k

LEMMA TurnIs ==
  ASSUME NEW f \in Nat, NEW p \in Nat, NEW q \in Nat, NEW m \in Nat, NEW k \in Nat,
         NEW w, w = f * p * q * m, k < w
  PROVE  \E n, r, a, b, c : AtPlace(f, p, q, m, k, n, r, a, b, c)
  <1>1. PICK fpq \in Nat : fpq = f * p * q
    <2>1. f * p * q \in Nat
      OBVIOUS
    <2> QED BY <2>1
  <1>2. k \div m \in Nat /\ k \div m < fpq /\ m > 0
    <2>1. k < fpq * m
      BY <1>1
    <2> QED BY <2>1, DivBelow
  <1>3. PICK n \in Nat, r \in Nat : n = k \div m /\ r = (k % m) /\ r < m /\ k = m * n + r /\ n < f * p * q
    BY <1>1, <1>2, DivMod
  <1>4. n < f * p * q
    BY <1>3
  <1>5. PICK a, b, c : Digits(f, p, q, n, a, b, c)
    <2>1. n < fpq
      BY <1>1, <1>4
    <2> QED BY <1>1, <2>1, MixedRadix
  <1>6. ((a * p + b) * q + c) * m + r = k
    <2>1. m * n = n * m
      OBVIOUS
    <2> QED BY <1>3, <1>5, <2>1 DEF Digits
  <1>7. n \in 0 .. f * p * q - 1 /\ r \in 0 .. m - 1
    BY <1>1, <1>3
  <1> QED BY <1>3, <1>5, <1>6, <1>7, Zenon DEF AtPlace

LEMMA PlaceInWrap ==
  ASSUME NEW w \in Nat, NEW k \in Nat, NEW m \in Nat, k < m
  PROVE  ((w * m + k) % m) = k /\ w * m + k \in Nat
  <1>1. w * m = m * w /\ w * m + k \in Nat
    OBVIOUS
  <1> QED BY <1>1, DivUnique

-----------------------------------------------------------------------------
(* The simulator *)

(* Packets of subscription i among the first j - 1 of G *)
Before(G, i, j) == Cardinality({x \in 1 .. j - 1 : G[x].sub = i})

LEMMA BeforeIs ==
  ASSUME NEW G, NEW i, NEW j \in Nat, j # 0
  PROVE  /\ Before(G, i, j) \in Nat
         /\ G[j].sub = i => Before(G, i, j + 1) = Before(G, i, j) + 1
         /\ G[j].sub # i => Before(G, i, j + 1) = Before(G, i, j)
  <1> DEFINE S == {x \in 1 .. j - 1 : G[x].sub = i}
             T == {x \in 1 .. (j + 1) - 1 : G[x].sub = i}
  <1>1. Before(G, i, j) = Cardinality(S) /\ Before(G, i, j + 1) = Cardinality(T)
    BY DEF Before
  <1>2. j \notin S /\ S \subseteq 1 .. j - 1
    OBVIOUS
  <1>3. G[j].sub = i => T = S \cup {j}
    <2> SUFFICES ASSUME G[j].sub = i PROVE T = S \cup {j}
      OBVIOUS
    <2>1. \A x \in T : x \in S \cup {j}
      OBVIOUS
    <2>2. \A x \in S \cup {j} : x \in T
      OBVIOUS
    <2> HIDE DEF S, T
    <2> QED BY <2>1, <2>2
  <1>4. G[j].sub # i => T = S
    <2> SUFFICES ASSUME G[j].sub # i PROVE T = S
      OBVIOUS
    <2>1. \A x \in T : x \in S
      OBVIOUS
    <2>2. \A x \in S : x \in T
      OBVIOUS
    <2> HIDE DEF S, T
    <2> QED BY <2>1, <2>2
  <1> HIDE DEF S, T
  <1>5. IsFiniteSet(S)
    <2>1. IsFiniteSet(1 .. j - 1)
      BY FS_Interval
    <2> QED BY <1>2, <2>1, FS_Subset
  <1>6. Cardinality(S) \in Nat /\ Cardinality(S \cup {j}) = Cardinality(S) + 1
    BY <1>2, <1>5, FS_CardinalityType, FS_AddElement
  <1> QED BY <1>1, <1>3, <1>4, <1>6

LEMMA BeforeStays ==
  ASSUME NEW G, NEW H, NEW i, NEW j \in Nat, \A x \in 1 .. j - 1 : G[x] = H[x]
  PROVE  Before(G, i, j) = Before(H, i, j)
  <1> DEFINE S == {x \in 1 .. j - 1 : G[x].sub = i}
             T == {x \in 1 .. j - 1 : H[x].sub = i}
  <1>1. S = T
    OBVIOUS
  <1>2. Before(G, i, j) = Cardinality(S) /\ Before(H, i, j) = Cardinality(T)
    BY DEF Before
  <1> HIDE DEF S, T
  <1> QED BY <1>1, <1>2

LEMMA NoneBefore ==
  ASSUME NEW G, NEW i
  PROVE  Before(G, i, 1) = 0
  <1> DEFINE S == {x \in 1 .. 1 - 1 : G[x].sub = i}
  <1>1. S = {}
    OBVIOUS
  <1>2. Before(G, i, 1) = Cardinality(S)
    BY DEF Before
  <1> HIDE DEF S
  <1> QED BY <1>1, <1>2, FS_EmptySet

(* Packet x of G is that of interface d of subscription i, the n-th. *)
IfdPacket(G, x, i, n, d, o) ==
    /\ G[x].sub = i /\ Before(G, i, x) = n
    /\ G[x].ifd = d /\ G[x].unit = -1 /\ InOctets(G[x]) = o

(* m is as SensorsAreInOrder has it when it comes after the first j - 1 packets of G. *)
RightPacket(G, m, j) ==
    /\ m.seq = IF simReq.rpc = "oc" \/ m.unit = -1 THEN Before(G, m.sub, j)
               ELSE Before(G, m.sub, j) - m.unit
    /\ simReq.subs[m.sub].sensor = "/interfaces" =>
          /\ IsUnit(m) /\ Turn(m) = (Before(G, m.sub, j) % WrapLen)
          /\ m.unit >= 0 => \E x \in 1 .. j - 1 :
                IfdPacket(G, x, m.sub, Before(G, m.sub, j) - m.unit - 1, m.ifd, InOctets(m))

GotInOrder == \A j \in DOMAIN simGot : simGot[j].sub # 0 => RightPacket(simGot, simGot[j], j)

LEMMA OrderIs == GotInOrder => SensorsAreInOrder
  <1> SUFFICES ASSUME GotInOrder, NEW j \in DOMAIN simGot, simGot[j].sub # 0
               PROVE  LET m == simGot[j]
                          n == Earlier(j)
                      IN  /\ m.seq = IF simReq.rpc = "oc" \/ m.unit = -1 THEN n ELSE n - m.unit
                          /\ simReq.subs[m.sub].sensor = "/interfaces" =>
                                /\ IsUnit(m) /\ Turn(m) = n % WrapLen
                                /\ m.unit >= 0 => \E x \in 1 .. j - 1 :
                                      /\ simGot[x].sub = m.sub /\ Earlier(x) = n - m.unit - 1
                                      /\ simGot[x].ifd = m.ifd /\ simGot[x].unit = -1
                                      /\ InOctets(simGot[x]) = InOctets(m)
    BY DEF SensorsAreInOrder
  <1>1. PICK m, n : m = simGot[j] /\ n = Earlier(j)
    OBVIOUS
  <1>2. \A x : Earlier(x) = Before(simGot, simGot[x].sub, x)
    BY Zenon DEF Earlier, Before
  <1>3. n = Before(simGot, m.sub, j)
    BY <1>1, <1>2
  <1>4. RightPacket(simGot, m, j)
    BY <1>1 DEF GotInOrder
  <1>5. m.seq = IF simReq.rpc = "oc" \/ m.unit = -1 THEN n ELSE n - m.unit
    BY <1>3, <1>4, Zenon DEF RightPacket
  <1>6. ASSUME simReq.subs[m.sub].sensor = "/interfaces" PROVE IsUnit(m) /\ Turn(m) = n % WrapLen
    BY <1>3, <1>4, <1>6, Zenon DEF RightPacket
  <1>7. ASSUME simReq.subs[m.sub].sensor = "/interfaces", m.unit >= 0
        PROVE  \E x \in 1 .. j - 1 :
                    /\ simGot[x].sub = m.sub /\ Earlier(x) = n - m.unit - 1
                    /\ simGot[x].ifd = m.ifd /\ simGot[x].unit = -1
                    /\ InOctets(simGot[x]) = InOctets(m)
    <2>1. PICK x \in 1 .. j - 1 : IfdPacket(simGot, x, m.sub, n - m.unit - 1, m.ifd, InOctets(m))
      BY <1>3, <1>4, <1>7, Zenon DEF RightPacket
    <2>2. Earlier(x) = n - m.unit - 1
      BY <1>2, <2>1, Zenon DEF IfdPacket
    <2> QED BY <2>1, <2>2, Zenon DEF IfdPacket
  <1> QED BY <1>1, <1>5, <1>6, <1>7, Zenon

LEMMA IfdStays ==
  ASSUME NEW G, NEW H, NEW N \in Nat, \A x \in 1 .. N - 1 : G[x] = H[x],
         NEW x \in 1 .. N - 1, NEW i, NEW n, NEW d, NEW o, IfdPacket(G, x, i, n, d, o)
  PROVE  x \in 1 .. N /\ IfdPacket(H, x, i, n, d, o)
  <1>1. x \in Nat /\ x \in 1 .. N /\ \A y \in 1 .. x - 1 : G[y] = H[y]
    OBVIOUS
  <1>2. Before(G, i, x) = Before(H, i, x)
    BY <1>1, BeforeStays
  <1> QED BY <1>1, <1>2 DEF IfdPacket

(* What is right stays right when more packets come. *)
LEMMA RightStays ==
  ASSUME NEW G, NEW H, NEW m, NEW j \in Nat, \A x \in 1 .. j - 1 : G[x] = H[x], RightPacket(G, m, j)
  PROVE  RightPacket(H, m, j)
  <1>1. Before(H, m.sub, j) = Before(G, m.sub, j)
    BY BeforeStays
  <1>2. ASSUME NEW x \in 1 .. j - 1, NEW n, IfdPacket(G, x, m.sub, n, m.ifd, InOctets(m))
        PROVE  IfdPacket(H, x, m.sub, n, m.ifd, InOctets(m))
    BY <1>2, IfdStays
  <1> QED BY <1>1, <1>2, Zenon DEF RightPacket

-----------------------------------------------------------------------------
RequestOk ==
    /\ simDesc.fpc \in Nat /\ simDesc.pic \in Nat /\ simDesc.port \in Nat /\ simDesc.logical \in Nat
    /\ 0 \notin Subs

LEMMA WrapIs ==
  ASSUME RequestOk
  PROVE  WrapLen \in Nat
  <1>1. PICK f \in Nat, p \in Nat, q \in Nat, l \in Nat :
            f = simDesc.fpc /\ p = simDesc.pic /\ q = simDesc.port /\ l = simDesc.logical
    BY DEF RequestOk
  <1>2. f * p * q * (1 + l) \in Nat
    OBVIOUS
  <1> QED BY <1>1, <1>2 DEF WrapLen

(* The packet of place k is one of a unit of the device, and its turn is k. *)
LEMMA PlaceIs ==
  ASSUME RequestOk, NEW k \in Nat, k < WrapLen
  PROVE  /\ UnitAt(k) \in -1 .. simDesc.logical - 1 /\ k - UnitAt(k) - 1 \in 0 .. k
         /\ \A m : m.ifd = IfdAt(k) /\ m.unit = UnitAt(k) => IsUnit(m) /\ Turn(m) = k
  <1>1. PICK f \in Nat, p \in Nat, q \in Nat, l \in Nat :
            f = simDesc.fpc /\ p = simDesc.pic /\ q = simDesc.port /\ l = simDesc.logical
    BY DEF RequestOk
  <1>2. PICK d \in Nat : d = 1 + l
    OBVIOUS
  <1>3. PICK n, r, a, b, c : AtPlace(f, p, q, d, k, n, r, a, b, c)
    <2>1. PICK w : w = WrapLen
      OBVIOUS
    <2>2. w = f * p * q * d /\ k < w
      BY <1>1, <1>2, <2>1, Zenon DEF WrapLen
    <2> QED BY <2>2, TurnIs
  <1>4. n \in 0 .. f * p * q - 1 /\ r \in 0 .. d - 1 /\ n = k \div d /\ r = (k % d)
    BY <1>3, Zenon DEF AtPlace
  <1>5. Digits(f, p, q, n, a, b, c) /\ ((a * p + b) * q + c) * d + r = k
    BY <1>3, Zenon DEF AtPlace
  <1>6. UnitAt(k) = r - 1
    BY <1>1, <1>2, <1>4 DEF UnitAt
  <1>7. IfdAt(k) = <<a, b, c>>
    <2>1. IfdAt(k) = generateIList(simDesc)[n]
      BY <1>1, <1>2, <1>4 DEF IfdAt
    <2>2. generateIList(simDesc)[n] = <<n \div (p * q), ((n \div q) % p), n % q>>
      BY <1>1, <1>4, Zenon DEF generateIList
    <2> QED BY <1>5, <2>1, <2>2, Zenon DEF Digits
  <1>8. a \in 0 .. f - 1 /\ b \in 0 .. p - 1 /\ c \in 0 .. q - 1
    BY <1>5 DEF Digits
  <1>9. r \in Nat /\ r <= k
    <2>1. PICK e \in Nat : e = (a * p + b) * q + c
      <3>1. a \in Nat /\ b \in Nat /\ c \in Nat
        BY <1>8
      <3>2. (a * p + b) * q + c \in Nat
        BY <3>1
      <3> QED BY <3>2
    <2>2. e * d + r = k
      BY <1>5, <2>1
    <2>3. e * d \in Nat
      OBVIOUS
    <2>4. r \in Nat
      BY <1>4
    <2> QED BY <2>2, <2>3, <2>4
  <1>10. UnitAt(k) \in -1 .. l - 1 /\ k - UnitAt(k) - 1 \in 0 .. k
    BY <1>2, <1>4, <1>6, <1>9
  <1>11. ASSUME NEW m, m.ifd = IfdAt(k), m.unit = UnitAt(k) PROVE IsUnit(m) /\ Turn(m) = k
    <2>1. m.ifd = <<a, b, c>> /\ m.unit = r - 1
      BY <1>6, <1>7, <1>11
    <2>2. IsUnit(m)
      BY <1>1, <1>8, <1>10, <1>11, <2>1 DEF IsUnit
    <2>3. PICK e \in Nat : e = (a * p + b) * q + c
      <3>1. a \in Nat /\ b \in Nat /\ c \in Nat
        BY <1>8
      <3>2. (a * p + b) * q + c \in Nat
        BY <3>1
      <3> QED BY <3>2
    <2>4. Turn(m) = e * d + (r - 1) + 1
      <3>1. m.ifd[1] = a /\ m.ifd[2] = b /\ m.ifd[3] = c
        BY <2>1
      <3> QED BY <1>1, <1>2, <2>1, <2>3, <3>1, Zenon DEF Turn
    <2>5. e * d + r = k
      BY <1>5, <2>3
    <2>6. e * d \in Nat
      OBVIOUS
    <2> QED BY <1>9, <2>2, <2>4, <2>5, <2>6
  <1> QED BY <1>1, <1>10, <1>11

(* A unit follows its interface or the unit before it. *)
LEMMA UnitsFollow ==
  ASSUME RequestOk, NEW k \in Nat, UnitAt(k + 1) >= 0
  PROVE  UnitAt(k + 1) = UnitAt(k) + 1 /\ IfdAt(k + 1) = IfdAt(k)
  <1>1. PICK d \in Nat : d = 1 + simDesc.logical /\ d > 0
    BY DEF RequestOk
  <1>2. UnitAt(k + 1) = ((k + 1) % d) - 1 /\ UnitAt(k) = (k % d) - 1
    BY <1>1 DEF UnitAt
  <1>3. ((k + 1) % d) = (k % d) + 1 /\ (k + 1) \div d = k \div d /\ (k % d) \in Nat
    BY <1>1, <1>2, NextPlace, DivMod
  <1>4. IfdAt(k + 1) = IfdAt(k)
    BY <1>1, <1>3 DEF IfdAt
  <1>5. UnitAt(k + 1) = UnitAt(k) + 1
    BY <1>2, <1>3
  <1> QED BY <1>4, <1>5

(* The goroutine of an interface sensor: g, after c packets the client got.  It is at
   place k of a wrap; among the units of an interface the header has the number after
   the interface's, whose packet is the next to be sent or was sent. *)
IfaceOk(i, g, G, c) ==
    /\ g.st \in {"run", "send"}
    /\ g.seq = IF g.st = "send" THEN c + 1 ELSE c
    /\ g.k \in 0 .. WrapLen /\ \E w \in Nat : g.seq = w * WrapLen + g.k
    /\ DOMAIN g.ctr = 0 .. WrapLen - 1
    /\ g.k < WrapLen /\ UnitAt(g.k) >= 0 =>
          /\ g.hdr = g.seq - UnitAt(g.k)
          /\ IF g.st = "send" /\ UnitAt(g.k) = 0
             THEN /\ g.msg.ifd = IfdAt(g.k) /\ g.msg.unit = -1
                  /\ InOctets(g.msg) = g.ctr[g.k - UnitAt(g.k) - 1][2]
             ELSE \E x \in 1 .. Len(G) :
                      IfdPacket(G, x, i, g.seq - UnitAt(g.k) - 1, IfdAt(g.k), g.ctr[g.k - UnitAt(g.k) - 1][2])

SmallOk(g, c) ==
    /\ g.st \in {"run", "send", "sleep"}
    /\ g.seq = IF g.st = "sleep" THEN c - 1 ELSE c

IsGo(g) == g = [st |-> g.st, k |-> g.k, seq |-> g.seq, hdr |-> g.hdr, ctr |-> g.ctr, msg |-> g.msg]

Started(g) == g.st \notin {"off", "start"}

GoOk(i, g, G) ==
    /\ IsGo(g)
    /\ ~Started(g) => g.k = 0 /\ g.seq = 0 /\ Before(G, i, Len(G) + 1) = 0
    /\ Started(g) /\ simReq.subs[i].sensor = "/interfaces" => IfaceOk(i, g, G, Before(G, i, Len(G) + 1))
    /\ Started(g) /\ simReq.subs[i].sensor # "/interfaces" => SmallOk(g, Before(G, i, Len(G) + 1))
    /\ g.st = "send" => g.msg.sub = i /\ RightPacket(G, g.msg, Len(G) + 1)

GosOk == \A i \in Subs : GoOk(i, simGo[i], simGot)

SimInv ==
    /\ RequestOk /\ IsPath(simGot) /\ DOMAIN simGo = Subs
    /\ simPc = "recv" => simGot = <<>> /\ \A i \in Subs : simGo[i].st = "off"
    /\ simPc # "returned" => GosOk
    /\ GotInOrder

LEMMA RequestStays ==
  ASSUME UNCHANGED simRequest
  PROVE  /\ RequestOk' <=> RequestOk
         /\ Subs' = Subs
         /\ \A G, m, j : RightPacket(G, m, j)' <=> RightPacket(G, m, j)
         /\ \A i, g, G : GoOk(i, g, G)' <=> GoOk(i, g, G)
  <1>1. simDesc' = simDesc /\ simReq' = simReq /\ simRandom' = simRandom
    BY DEF simRequest
  <1>2. Subs' = Subs
    BY <1>1 DEF Subs
  <1>3. RequestOk' <=> RequestOk
    BY <1>1, <1>2 DEF RequestOk
  <1>4. WrapLen' = WrapLen
    BY <1>1 DEF WrapLen
  <1>5. \A k : UnitAt(k)' = UnitAt(k) /\ IfdAt(k)' = IfdAt(k)
    BY <1>1 DEF UnitAt, IfdAt
  <1>6. \A m : (IsUnit(m)' <=> IsUnit(m)) /\ Turn(m)' = Turn(m)
    BY <1>1 DEF IsUnit, Turn
  <1>7. ASSUME NEW G, NEW m, NEW j PROVE RightPacket(G, m, j)' <=> RightPacket(G, m, j)
    BY <1>1, <1>4, <1>6 DEF RightPacket
  <1>8. ASSUME NEW i, NEW g, NEW G PROVE GoOk(i, g, G)' <=> GoOk(i, g, G)
    <2>1. \A c : IfaceOk(i, g, G, c)' <=> IfaceOk(i, g, G, c)
      BY <1>4, <1>5 DEF IfaceOk
    <2> QED BY <1>1, <1>7, <2>1 DEF GoOk
  <1> QED BY <1>2, <1>3, <1>7, <1>8

(* A step that neither sends nor changes a goroutine *)
LEMMA SameGot ==
  ASSUME UNCHANGED <<simRequest, simGot>>
  PROVE  /\ GotInOrder => GotInOrder'
         /\ UNCHANGED simGo /\ GosOk => GosOk'
  <1>1. PICK G : G = simGot
    OBVIOUS
  <1>2. /\ Subs' = Subs
        /\ \A m, j : RightPacket(G, m, j)' <=> RightPacket(G, m, j)
        /\ \A x, g : GoOk(x, g, G)' <=> GoOk(x, g, G)
    BY RequestStays
  <1>3. ASSUME GotInOrder, NEW j \in DOMAIN G, G[j].sub # 0 PROVE RightPacket(simGot, simGot[j], j)'
    <2>1. PICK m : m = G[j]
      OBVIOUS
    <2>2. RightPacket(G, m, j)
      BY <1>1, <1>3, <2>1 DEF GotInOrder
    <2>3. RightPacket(G, m, j)'
      BY <1>2, <2>2
    <2> QED BY <1>1, <2>1, <2>3
  <1>4. ASSUME UNCHANGED simGo, GosOk, NEW x \in Subs PROVE GoOk(x, simGo[x], simGot)'
    <2>1. PICK g : g = simGo[x]
      OBVIOUS
    <2>2. GoOk(x, g, G)
      BY <1>1, <1>4, <2>1 DEF GosOk
    <2>3. GoOk(x, g, G)'
      BY <1>2, <2>2
    <2> QED BY <1>1, <1>4, <2>1, <2>3
  <1>5. GotInOrder => GotInOrder'
    BY <1>1, <1>3 DEF GotInOrder
  <1>6. UNCHANGED simGo /\ GosOk => GosOk'
    BY <1>2, <1>4 DEF GosOk
  <1> QED BY <1>5, <1>6

-----------------------------------------------------------------------------
(* A step of one goroutine that sends nothing *)
LEMMA OneGo ==
  ASSUME SimInv, UNCHANGED <<simRequest, simGot, simPc>>, NEW i \in Subs, simPc # "recv",
         DOMAIN simGo' = DOMAIN simGo, \A x \in Subs : x # i => simGo'[x] = simGo[x],
         simPc # "returned" => GoOk(i, simGo'[i], simGot)
  PROVE  SimInv'
  <1>1. PICK G : G = simGot
    OBVIOUS
  <1>2. /\ RequestOk' <=> RequestOk
        /\ Subs' = Subs
        /\ \A x, g : GoOk(x, g, G)' <=> GoOk(x, g, G)
    BY RequestStays
  <1>3. simPc # "returned" => GosOk'
    <2> SUFFICES ASSUME simPc # "returned", NEW x \in Subs PROVE GoOk(x, simGo[x], simGot)'
      BY <1>2 DEF GosOk
    <2>1. PICK g : g = simGo'[x]
      OBVIOUS
    <2>2. GoOk(x, g, G)
      BY <1>1, <2>1 DEF SimInv, GosOk
    <2>3. GoOk(x, g, G)'
      BY <1>2, <2>2
    <2> QED BY <1>1, <2>1, <2>3
  <1>4. GotInOrder'
    BY SameGot DEF SimInv
  <1> QED BY <1>2, <1>3, <1>4 DEF SimInv

LEMMA FirstPlace ==
  ASSUME RequestOk
  PROVE  UnitAt(0) = -1
  <1>1. PICK d \in Nat : d = 1 + simDesc.logical /\ d > 0
    BY DEF RequestOk
  <1>2. 0 = d * 0 + 0
    OBVIOUS
  <1>3. (0 % d) = 0
    BY <1>1, <1>2, DivUnique
  <1> QED BY <1>1, <1>3 DEF UnitAt

LEMMA LenGot ==
  ASSUME SimInv
  PROVE  /\ Len(simGot) \in Nat /\ DOMAIN simGot = 1 .. Len(simGot)
         /\ \A i : Before(simGot, i, Len(simGot) + 1) \in Nat
  <1>1. PICK G : G = simGot
    OBVIOUS
  <1>2. Len(G) \in Nat /\ DOMAIN G = 1 .. Len(G)
    BY <1>1, PathIs DEF SimInv
  <1>3. \A i : Before(G, i, Len(G) + 1) \in Nat
    BY <1>2, BeforeIs
  <1> QED BY <1>1, <1>2, <1>3

LEMMA StartStep ==
  ASSUME SimInv, NEW i \in Subs, SimStart(i)
  PROVE  SimInv'
  <1>1. PICK g, h, W, C : /\ g = simGo[i] /\ h = simGo'[i] /\ W = WrapLen
                          /\ C = [k \in 0 .. W - 1 |-> <<0, 0>>]
    OBVIOUS
  <1>2. /\ simPc # "recv" /\ UNCHANGED <<simRequest, simGot, simPc>> /\ g.st = "start"
        /\ DOMAIN simGo' = DOMAIN simGo /\ \A x \in Subs : x # i => simGo'[x] = simGo[x]
    BY <1>1 DEF SimStart, SimInv
  <1>3. ASSUME simPc # "returned" PROVE GoOk(i, h, simGot)
    <2>1. GoOk(i, g, simGot)
      BY <1>1, <1>3 DEF SimInv, GosOk
    <2>2. h = [st |-> "run", k |-> g.k, seq |-> g.seq, hdr |-> g.hdr, ctr |-> C, msg |-> g.msg]
      <3>1. simGo' = [simGo EXCEPT ![i].st = "run", ![i].ctr = C] /\ i \in DOMAIN simGo
        BY <1>1 DEF SimStart, SimInv
      <3>2. IsGo(g)
        BY <2>1 DEF GoOk
      <3> QED BY <1>1, <3>1, <3>2 DEF IsGo
    <2>3. g.k = 0 /\ g.seq = 0 /\ Before(simGot, i, Len(simGot) + 1) = 0
      BY <1>2, <2>1 DEF GoOk, Started
    <2>4. W \in Nat /\ UnitAt(0) = -1
      BY <1>1, WrapIs, FirstPlace DEF SimInv
    <2>5. \E w \in Nat : 0 = w * W + 0
      <3>1. 0 = 0 * W + 0
        BY <2>4
      <3> QED BY <3>1
    <2>6. IfaceOk(i, h, simGot, 0)
      BY <1>1, <2>2, <2>3, <2>4, <2>5 DEF IfaceOk
    <2>7. SmallOk(h, 0)
      BY <2>2, <2>3 DEF SmallOk
    <2> QED BY <2>2, <2>3, <2>6, <2>7 DEF GoOk, IsGo, Started
  <1> QED BY <1>1, <1>2, <1>3, OneGo

LEMMA PanicStep ==
  ASSUME SimInv, NEW i \in Subs, SimPanic(i)
  PROVE  SimInv'
  <1>1. simPc # "recv" /\ UNCHANGED <<simRequest, simGot, simPc, simGo>>
    BY DEF SimPanic, OnInterfaces, SimInv
  <1>2. simPc # "returned" => GoOk(i, simGo'[i], simGot)
    BY <1>1 DEF SimInv, GosOk
  <1> QED BY <1>1, <1>2, OneGo

LEMMA WrapEndsStep ==
  ASSUME SimInv, NEW i \in Subs, SimWrapEnds(i)
  PROVE  SimInv'
  <1>1. PICK g, h, W : g = simGo[i] /\ h = simGo'[i] /\ W = WrapLen
    OBVIOUS
  <1>2. /\ simPc # "recv" /\ UNCHANGED <<simRequest, simGot, simPc>>
        /\ g.st = "run" /\ g.k = W /\ simReq.subs[i].sensor = "/interfaces"
        /\ DOMAIN simGo' = DOMAIN simGo /\ \A x \in Subs : x # i => simGo'[x] = simGo[x]
    BY <1>1 DEF SimWrapEnds, OnInterfaces, SimInv
  <1>3. ASSUME simPc # "returned" PROVE GoOk(i, h, simGot)
    <2>1. GoOk(i, g, simGot)
      BY <1>1, <1>3 DEF SimInv, GosOk
    <2>2. h = [st |-> "run", k |-> 0, seq |-> g.seq, hdr |-> g.hdr, ctr |-> g.ctr, msg |-> g.msg]
      <3>1. simGo' = [simGo EXCEPT ![i].k = 0] /\ i \in DOMAIN simGo
        BY DEF SimWrapEnds, SimInv
      <3>2. IsGo(g)
        BY <2>1 DEF GoOk
      <3> QED BY <1>1, <1>2, <3>1, <3>2 DEF IsGo
    <2>3. PICK c : c = Before(simGot, i, Len(simGot) + 1)
      OBVIOUS
    <2>4. IfaceOk(i, g, simGot, c)
      BY <1>2, <2>1, <2>3 DEF GoOk, Started
    <2>5. W \in Nat /\ UnitAt(0) = -1
      BY <1>1, WrapIs, FirstPlace DEF SimInv
    <2>6. PICK w \in Nat : g.seq = w * W + W
      BY <1>1, <1>2, <2>4 DEF IfaceOk
    <2>7. g.seq = (w + 1) * W + 0 /\ w + 1 \in Nat
      BY <2>5, <2>6
    <2>8. IfaceOk(i, h, simGot, c)
      <3>1. g.seq = c /\ DOMAIN g.ctr = 0 .. W - 1
        BY <1>1, <1>2, <2>4 DEF IfaceOk
      <3>2. \E v \in Nat : h.seq = v * W + h.k
        BY <2>2, <2>7
      <3> QED BY <1>1, <2>2, <2>5, <3>1, <3>2 DEF IfaceOk
    <2> QED BY <1>2, <2>2, <2>3, <2>8 DEF GoOk, IsGo, Started
  <1> QED BY <1>1, <1>2, <1>3, OneGo

LEMMA SmallStep ==
  ASSUME SimInv, NEW i \in Subs, SimSmall(i)
  PROVE  SimInv'
  <1>1. PICK g, h, m : g = simGo[i] /\ h = simGo'[i] /\ m = Packet(i, g.seq, <<>>, -1, SmallKv(i))
    OBVIOUS
  <1>2. /\ simPc # "recv" /\ UNCHANGED <<simRequest, simGot, simPc>>
        /\ g.st = "run" /\ simReq.subs[i].sensor # "/interfaces"
        /\ DOMAIN simGo' = DOMAIN simGo /\ \A x \in Subs : x # i => simGo'[x] = simGo[x]
    BY <1>1 DEF SimSmall, SimInv
  <1>3. ASSUME simPc # "returned" PROVE GoOk(i, h, simGot)
    <2>1. GoOk(i, g, simGot)
      BY <1>1, <1>3 DEF SimInv, GosOk
    <2>2. h = [st |-> "send", k |-> g.k, seq |-> g.seq, hdr |-> g.hdr, ctr |-> g.ctr, msg |-> m]
      <3>1. simGo' = [simGo EXCEPT ![i].st = "send", ![i].msg = m] /\ i \in DOMAIN simGo
        BY <1>1 DEF SimSmall, SimInv
      <3>2. IsGo(g)
        BY <2>1 DEF GoOk
      <3> QED BY <1>1, <3>1, <3>2 DEF IsGo
    <2>3. PICK c : c = Before(simGot, i, Len(simGot) + 1)
      OBVIOUS
    <2>4. g.seq = c
      BY <1>2, <2>1, <2>3 DEF GoOk, Started, SmallOk
    <2>5. m.sub = i /\ m.seq = g.seq /\ m.unit = -1
      BY <1>1 DEF Packet
    <2>6. RightPacket(simGot, m, Len(simGot) + 1)
      BY <1>2, <2>3, <2>4, <2>5 DEF RightPacket
    <2>7. SmallOk(h, c)
      BY <2>2, <2>4 DEF SmallOk
    <2> QED BY <1>2, <2>2, <2>3, <2>5, <2>6, <2>7 DEF GoOk, IsGo, Started
  <1> QED BY <1>1, <1>2, <1>3, OneGo

LEMMA SleepStep ==
  ASSUME SimInv, NEW i \in Subs, SimSleep(i)
  PROVE  SimInv'
  <1>1. PICK g, h : g = simGo[i] /\ h = simGo'[i]
    OBVIOUS
  <1>2. /\ simPc # "recv" /\ UNCHANGED <<simRequest, simGot, simPc>> /\ g.st = "sleep"
        /\ DOMAIN simGo' = DOMAIN simGo /\ \A x \in Subs : x # i => simGo'[x] = simGo[x]
    BY <1>1 DEF SimSleep, SimInv
  <1>3. ASSUME simPc # "returned" PROVE GoOk(i, h, simGot)
    <2>1. GoOk(i, g, simGot)
      BY <1>1, <1>3 DEF SimInv, GosOk
    <2>2. h = [st |-> "run", k |-> g.k, seq |-> g.seq + 1, hdr |-> g.hdr, ctr |-> g.ctr, msg |-> g.msg]
      <3>1. simGo' = [simGo EXCEPT ![i].st = "run", ![i].seq = @ + 1] /\ i \in DOMAIN simGo
        BY DEF SimSleep, SimInv
      <3>2. IsGo(g)
        BY <2>1 DEF GoOk
      <3> QED BY <1>1, <3>1, <3>2 DEF IsGo
    <2>3. PICK c \in Nat : c = Before(simGot, i, Len(simGot) + 1)
      BY LenGot
    <2>4. simReq.subs[i].sensor # "/interfaces"
      BY <1>2, <2>1 DEF GoOk, Started, IfaceOk
    <2>5. g.seq = c - 1
      BY <1>2, <2>1, <2>3, <2>4 DEF GoOk, Started, SmallOk
    <2>6. SmallOk(h, c)
      BY <2>2, <2>5 DEF SmallOk
    <2> QED BY <2>2, <2>3, <2>4, <2>6 DEF GoOk, IsGo, Started
  <1> QED BY <1>1, <1>2, <1>3, OneGo

(* The in-octets leaf is none of those with a value of their own. *)
LEMMA CounterLeaf ==
  ASSUME NEW S, "in-octets" \in S
  PROVE  <<"state", "counters", "in-octets">> \in Counters(S)
  BY DEF Counters

LEMMA IfdOctets ==
  ASSUME NEW n, NEW inp, NEW ino,
         NEW own, own = IfdOwn(n, inp),
         NEW all, DOMAIN all = IfdLeaves, \A l \in IfdLeaves : all[l] = ino, NEW kv, kv = MapMerge(own, all)
  PROVE  kv[<<"state", "counters", "in-octets">>] = ino
  <1>1. PICK o : o = <<"state", "counters", "in-octets">>
    OBVIOUS
  <1>2. o \in IfdLeaves
    BY <1>1, CounterLeaf DEF IfdLeaves, OcIfdLeaves, GnmiIfdCounters
  <1>3. o \notin DOMAIN IfdOwn(n, inp)
    <2>1. DOMAIN IfdOwn(n, inp) = {<<"name">>, <<"state", "oper-status">>, <<"state", "admin-status">>,
                                   <<"state", "counters", "in-pkts">>}
      BY Zenon DEF IfdOwn
    <2>2. o # <<"name">> /\ o # <<"state", "oper-status">> /\ o # <<"state", "admin-status">>
      BY <1>1
    <2>3. o # <<"state", "counters", "in-pkts">>
      BY <1>1
    <2> QED BY <2>1, <2>2, <2>3, Zenon
  <1>4. o \in DOMAIN all /\ o \notin DOMAIN own /\ all[o] = ino
    BY <1>2, <1>3
  <1>5. kv[o] = ino
    BY <1>4 DEF MapMerge
  <1> QED BY <1>1, <1>5

LEMMA IflOctets ==
  ASSUME NEW n, NEW u, NEW inup, NEW inmp, NEW ino,
         NEW own, own = IflOwn(n, u, inup, inmp),
         NEW all, DOMAIN all = IflLeaves, \A l \in IflLeaves : all[l] = ino, NEW kv, kv = MapMerge(own, all)
  PROVE  kv[<<"state", "counters", "in-octets">>] = ino
  <1>1. PICK o : o = <<"state", "counters", "in-octets">>
    OBVIOUS
  <1>2. o \in Counters({"in-octets", "in-pkts", "out-octets", "out-pkts"})
    BY <1>1, CounterLeaf
  <1>3. o \in OcIflState /\ o \in GnmiIflState
    <2>1. o \in OcIflState
      BY <1>2 DEF OcIflState
    <2>2. o \in GnmiIflState
      BY <1>2 DEF GnmiIflState
    <2> QED BY <2>1, <2>2
  <1>4. o \in IflLeaves
    BY <1>3, Zenon DEF IflLeaves
  <1>5. o \notin DOMAIN IflOwn(n, u, inup, inmp)
    <2>1. DOMAIN IflOwn(n, u, inup, inmp) =
             {<<"index">>, <<"state", "name">>, <<"state", "oper-status">>, <<"state", "admin-status">>,
              <<"state", "counters", "in-unicast-pkts">>, <<"state", "counters", "in-multicast-pkts">>}
      BY Zenon DEF IflOwn
    <2>2. /\ o # <<"index">> /\ o # <<"state", "name">>
          /\ o # <<"state", "oper-status">> /\ o # <<"state", "admin-status">>
      BY <1>1
    <2>3. o # <<"state", "counters", "in-unicast-pkts">> /\ o # <<"state", "counters", "in-multicast-pkts">>
      BY <1>1
    <2> QED BY <2>1, <2>2, <2>3, Zenon
  <1>6. o \in DOMAIN all /\ o \notin DOMAIN own /\ all[o] = ino
    BY <1>4, <1>5
  <1>7. kv[o] = ino
    BY <1>6 DEF MapMerge
  <1> QED BY <1>1, <1>7

(* The next packet of a wrap, made in state g: h is the goroutine that offers it. *)
LEMMA Offered ==
  ASSUME SimInv, NEW i \in Subs, simReq.subs[i].sensor = "/interfaces",
         NEW g, GoOk(i, g, simGot), g.st = "run", g.k < WrapLen,
         NEW h, NEW m, NEW ctr, NEW hdr,
         h = [st |-> "send", k |-> g.k + 1, seq |-> g.seq + 1, hdr |-> hdr, ctr |-> ctr, msg |-> m],
         DOMAIN ctr = DOMAIN g.ctr, m.sub = i, m.ifd = IfdAt(g.k), m.unit = UnitAt(g.k),
         UnitAt(g.k) = -1 => /\ hdr = g.seq + 1 /\ m.seq = g.seq /\ InOctets(m) = ctr[g.k][2],
         UnitAt(g.k) >= 0 => /\ hdr = g.hdr /\ m.seq = (IF simReq.rpc = "oc" THEN g.seq ELSE hdr)
                             /\ InOctets(m) = g.ctr[g.k - UnitAt(g.k) - 1][2]
                             /\ ctr[g.k - UnitAt(g.k) - 1] = g.ctr[g.k - UnitAt(g.k) - 1]
  PROVE  GoOk(i, h, simGot)
  <1>1. PICK G, W : G = simGot /\ W = WrapLen
    OBVIOUS
  <1>2. PICK c \in Nat, N \in Nat : c = Before(G, i, Len(G) + 1) /\ N = Len(G)
    BY <1>1, LenGot
  <1>3. IfaceOk(i, g, G, c)
    BY <1>1, <1>2 DEF GoOk, Started
  <1>4. PICK k \in Nat, w \in Nat : g.k = k /\ g.seq = w * W + k /\ k < W /\ W \in Nat /\ g.seq = c
    <2>1. W \in Nat
      BY <1>1, WrapIs DEF SimInv
    <2>2. g.k \in 0 .. W /\ g.k < W /\ g.seq = c /\ \E w \in Nat : g.seq = w * W + g.k
      BY <1>1, <1>3 DEF IfaceOk
    <2> QED BY <2>1, <2>2
  <1>5. PICK u : u = UnitAt(k)
    OBVIOUS
  <1>6. u \in Int /\ u >= -1 /\ k - u - 1 \in 0 .. k /\ IsUnit(m) /\ Turn(m) = k
    <2>1. RequestOk /\ k < WrapLen
      BY <1>1, <1>4 DEF SimInv
    <2>2. /\ UnitAt(k) \in -1 .. simDesc.logical - 1 /\ k - UnitAt(k) - 1 \in 0 .. k
          /\ m.ifd = IfdAt(k) /\ m.unit = UnitAt(k) => IsUnit(m) /\ Turn(m) = k
      BY <2>1, PlaceIs
    <2>3. m.ifd = IfdAt(k) /\ m.unit = UnitAt(k)
      BY <1>4
    <2>4. simDesc.logical \in Nat
      BY <2>1 DEF RequestOk
    <2>5. UnitAt(k) \in Int /\ UnitAt(k) >= -1
      BY <2>2, <2>4
    <2> QED BY <1>5, <2>2, <2>3, <2>5
  <1>7. (c % W) = k
    BY <1>4, PlaceInWrap
  <1>8. u >= 0 =>
           /\ hdr = c - u
           /\ \E x \in 1 .. N : IfdPacket(G, x, i, c - u - 1, IfdAt(k), g.ctr[k - u - 1][2])
    BY <1>1, <1>2, <1>3, <1>4, <1>5 DEF IfaceOk
  <1>9. RightPacket(G, m, N + 1)
    <2>1. m.seq = IF simReq.rpc = "oc" \/ m.unit = -1 THEN c ELSE c - m.unit
      BY <1>4, <1>5, <1>6, <1>8
    <2>2. ASSUME m.unit >= 0
          PROVE  \E x \in 1 .. (N + 1) - 1 : IfdPacket(G, x, i, c - m.unit - 1, m.ifd, InOctets(m))
      <3>1. PICK x \in 1 .. N : IfdPacket(G, x, i, c - u - 1, IfdAt(k), g.ctr[k - u - 1][2])
        BY <1>4, <1>5, <1>8, <2>2
      <3>2. m.unit = u /\ m.ifd = IfdAt(k) /\ InOctets(m) = g.ctr[k - u - 1][2]
        BY <1>4, <1>5, <2>2
      <3>3. x \in 1 .. (N + 1) - 1
        OBVIOUS
      <3> QED BY <3>1, <3>2, <3>3
    <2>3. Before(G, m.sub, N + 1) = c
      BY <1>2
    <2> QED BY <1>1, <1>6, <1>7, <2>1, <2>2, <2>3 DEF RightPacket
  <1>10. IfaceOk(i, h, G, c)
    <2>1. h.st = "send" /\ h.seq = c + 1 /\ h.k = k + 1 /\ h.hdr = hdr /\ h.ctr = ctr /\ h.msg = m
      BY <1>4
    <2>2. k + 1 \in 0 .. W /\ \E v \in Nat : c + 1 = v * W + (k + 1)
      <3>1. c + 1 = w * W + (k + 1)
        <4>1. w * W \in Nat
          BY <1>4
        <4> QED BY <1>4, <4>1
      <3> QED BY <1>4, <3>1
    <2>3. DOMAIN ctr = 0 .. W - 1
      BY <1>1, <1>3 DEF IfaceOk
    <2>4. ASSUME UnitAt(k + 1) >= 0
          PROVE  /\ hdr = (c + 1) - UnitAt(k + 1)
                 /\ IF UnitAt(k + 1) = 0
                    THEN /\ m.ifd = IfdAt(k + 1) /\ m.unit = -1
                         /\ InOctets(m) = ctr[(k + 1) - UnitAt(k + 1) - 1][2]
                    ELSE \E x \in 1 .. Len(G) :
                            IfdPacket(G, x, i, (c + 1) - UnitAt(k + 1) - 1, IfdAt(k + 1),
                                      ctr[(k + 1) - UnitAt(k + 1) - 1][2])
      <3>1. UnitAt(k + 1) = u + 1 /\ IfdAt(k + 1) = IfdAt(k)
        BY <1>5, <2>4, UnitsFollow DEF SimInv
      <3>2. CASE u = -1
        <4>1. UnitAt(k + 1) = 0 /\ (k + 1) - UnitAt(k + 1) - 1 = k
          BY <3>1, <3>2
        <4>2. hdr = c + 1
          BY <1>4, <1>5, <3>2
        <4>3. m.ifd = IfdAt(k) /\ m.unit = -1 /\ InOctets(m) = ctr[k][2]
          BY <1>4, <1>5, <3>2
        <4> QED BY <3>1, <4>1, <4>2, <4>3
      <3>3. CASE u # -1
        <4>1. u >= 0
          BY <1>6, <3>3
        <4>2. /\ UnitAt(k + 1) # 0 /\ (k + 1) - UnitAt(k + 1) - 1 = k - u - 1
              /\ (c + 1) - UnitAt(k + 1) = c - u /\ (c + 1) - UnitAt(k + 1) - 1 = c - u - 1
          BY <1>6, <3>1, <4>1
        <4>3. ctr[k - u - 1] = g.ctr[k - u - 1]
          BY <1>4, <1>5, <4>1
        <4>4. /\ hdr = c - u
              /\ \E x \in 1 .. N : IfdPacket(G, x, i, c - u - 1, IfdAt(k), ctr[k - u - 1][2])
          BY <1>8, <4>1, <4>3
        <4> QED BY <1>2, <3>1, <4>2, <4>4
      <3> QED BY <3>2, <3>3
    <2>5. ASSUME UnitAt(h.k) >= 0
          PROVE  /\ h.hdr = h.seq - UnitAt(h.k)
                 /\ IF h.st = "send" /\ UnitAt(h.k) = 0
                    THEN /\ h.msg.ifd = IfdAt(h.k) /\ h.msg.unit = -1
                         /\ InOctets(h.msg) = h.ctr[h.k - UnitAt(h.k) - 1][2]
                    ELSE \E x \in 1 .. Len(G) :
                            IfdPacket(G, x, i, h.seq - UnitAt(h.k) - 1, IfdAt(h.k),
                                      h.ctr[h.k - UnitAt(h.k) - 1][2])
      BY <2>1, <2>4, <2>5, Zenon
    <2>6. /\ h.st \in {"run", "send"} /\ h.seq = (IF h.st = "send" THEN c + 1 ELSE c)
          /\ h.k \in 0 .. WrapLen /\ \E v \in Nat : h.seq = v * WrapLen + h.k
          /\ DOMAIN h.ctr = 0 .. WrapLen - 1
      BY <1>1, <2>1, <2>2, <2>3
    <2> QED BY <2>5, <2>6, Zenon DEF IfaceOk
  <1>11. IsGo(h) /\ h.st = "send" /\ h.msg = m
    BY DEF IsGo
  <1> QED BY <1>1, <1>2, <1>9, <1>10, <1>11 DEF GoOk, Started

LEMMA IfdStep ==
  ASSUME SimInv, NEW i \in Subs, SimIfd(i)
  PROVE  SimInv'
  <1>1. PICK g, h : g = simGo[i] /\ h = simGo'[i]
    OBVIOUS
  <1>2. PICK n : n = IfdAt(g.k)
    OBVIOUS
  <1>3. /\ OnInterfaces(i) /\ g.k < WrapLen /\ UnitAt(g.k) = -1
        /\ UNCHANGED <<simRequest, simUp, simPc, simGot>>
    BY <1>1 DEF SimIfd
  <1>4. PICK inp, ino : simGo' = [simGo EXCEPT ![i] =
                  [g EXCEPT !.st = "send", !.k = @ + 1, !.seq = @ + 1, !.hdr = g.seq + 1,
                            !.ctr[g.k] = <<inp, ino>>,
                            !.msg = Packet(i, g.seq, n, -1,
                                           MapMerge(IfdOwn(n, inp), [l \in IfdLeaves |-> ino]))]]
    <2>1. PICK r1 \in getRandom(1), r2 \in getRandom(2) :
            LET inp == (simGo[i].ctr[simGo[i].k][1] + Increment(r1, i)) % U64
                ino == (simGo[i].ctr[simGo[i].k][2] + Increment(r2, i)) % U64
                kv == MapMerge(IfdOwn(IfdAt(simGo[i].k), inp), [l \in IfdLeaves |-> ino])
            IN  simGo' = [simGo EXCEPT ![i] =
                  [simGo[i] EXCEPT !.st = "send", !.k = @ + 1, !.seq = @ + 1, !.hdr = simGo[i].seq + 1,
                            !.ctr[simGo[i].k] = <<inp, ino>>,
                            !.msg = Packet(i, simGo[i].seq, IfdAt(simGo[i].k), -1, kv)]]
      BY Zenon DEF SimIfd
    <2>2. PICK a, b : /\ a = (simGo[i].ctr[simGo[i].k][1] + Increment(r1, i)) % U64
                      /\ b = (simGo[i].ctr[simGo[i].k][2] + Increment(r2, i)) % U64
      OBVIOUS
    <2> QED BY <1>1, <1>2, <2>1, <2>2
  <1>5. PICK kv : kv = MapMerge(IfdOwn(n, inp), [l \in IfdLeaves |-> ino])
    OBVIOUS
  <1>6. PICK m, ctr : m = Packet(i, g.seq, n, -1, kv) /\ ctr = [g.ctr EXCEPT ![g.k] = <<inp, ino>>]
    OBVIOUS
  <1>7. simGo' = [simGo EXCEPT ![i] =
                  [g EXCEPT !.st = "send", !.k = @ + 1, !.seq = @ + 1, !.hdr = g.seq + 1, !.ctr = ctr, !.msg = m]]
    BY <1>4, <1>5, <1>6
  <1>8. /\ simPc # "recv" /\ UNCHANGED <<simRequest, simGot, simPc>>
        /\ g.st = "run" /\ simReq.subs[i].sensor = "/interfaces"
        /\ DOMAIN simGo' = DOMAIN simGo /\ \A x \in Subs : x # i => simGo'[x] = simGo[x]
    BY <1>1, <1>3, <1>7 DEF OnInterfaces, SimInv
  <1>9. ASSUME simPc # "returned" PROVE GoOk(i, h, simGot)
    <2>1. GoOk(i, g, simGot)
      BY <1>1, <1>9 DEF SimInv, GosOk
    <2>2. h = [st |-> "send", k |-> g.k + 1, seq |-> g.seq + 1, hdr |-> g.seq + 1, ctr |-> ctr, msg |-> m]
      <3>1. IsGo(g) /\ i \in DOMAIN simGo
        BY <2>1 DEF GoOk, SimInv
      <3> QED BY <1>1, <1>7, <3>1 DEF IsGo
    <2>3. m.sub = i /\ m.ifd = n /\ m.unit = -1 /\ m.seq = g.seq /\ m.kv = kv
      BY <1>6 DEF Packet
    <2>4. InOctets(m) = ino
      <3>1. kv[<<"state", "counters", "in-octets">>] = ino
        <4>1. PICK own, all : own = IfdOwn(n, inp) /\ all = [l \in IfdLeaves |-> ino]
          OBVIOUS
        <4>2. DOMAIN all = IfdLeaves /\ \A l \in IfdLeaves : all[l] = ino
          BY <4>1
        <4>3. kv = MapMerge(own, all)
          BY <1>5, <4>1
        <4> QED BY <4>1, <4>2, <4>3, IfdOctets
      <3> QED BY <2>3, <3>1, Zenon DEF InOctets
    <2>5. g.k \in DOMAIN g.ctr
      <3>1. DOMAIN g.ctr = 0 .. WrapLen - 1 /\ g.k \in 0 .. WrapLen
        BY <1>8, <2>1 DEF GoOk, Started, IfaceOk
      <3>2. WrapLen \in Nat
        BY WrapIs DEF SimInv
      <3> QED BY <1>3, <3>1, <3>2
    <2>6. DOMAIN ctr = DOMAIN g.ctr /\ ctr[g.k][2] = ino
      BY <1>6, <2>5
    <2>7. ~(UnitAt(g.k) >= 0)
      BY <1>3
    <2> QED BY <1>2, <1>3, <1>8, <2>1, <2>2, <2>3, <2>4, <2>6, <2>7, Offered
  <1> QED BY <1>1, <1>8, <1>9, OneGo

LEMMA IflStep ==
  ASSUME SimInv, NEW i \in Subs, SimIfl(i)
  PROVE  SimInv'
  <1>1. PICK g, h : g = simGo[i] /\ h = simGo'[i]
    OBVIOUS
  <1>2. PICK n, u, ino : n = IfdAt(g.k) /\ u = UnitAt(g.k) /\ ino = g.ctr[g.k - u - 1][2]
    OBVIOUS
  <1>3. OnInterfaces(i) /\ g.k < WrapLen /\ u >= 0 /\ UNCHANGED <<simRequest, simUp, simPc, simGot>>
    BY <1>1, <1>2 DEF SimIfl
  <1>4. PICK inup, inmp : simGo' = [simGo EXCEPT ![i] =
                  [g EXCEPT !.st = "send", !.k = @ + 1, !.seq = @ + 1,
                            !.ctr[g.k] = <<inup, inmp>>,
                            !.msg = Packet(i, IflSeq(g), n, u,
                                           MapMerge(IflOwn(n, u, inup, inmp), [l \in IflLeaves |-> ino]))]]
    BY <1>1, <1>2 DEF SimIfl
  <1>5. PICK kv : kv = MapMerge(IflOwn(n, u, inup, inmp), [l \in IflLeaves |-> ino])
    OBVIOUS
  <1>6. PICK m, ctr : m = Packet(i, IflSeq(g), n, u, kv) /\ ctr = [g.ctr EXCEPT ![g.k] = <<inup, inmp>>]
    OBVIOUS
  <1>7. simGo' = [simGo EXCEPT ![i] =
                  [g EXCEPT !.st = "send", !.k = @ + 1, !.seq = @ + 1, !.ctr = ctr, !.msg = m]]
    BY <1>4, <1>5, <1>6
  <1>8. /\ simPc # "recv" /\ UNCHANGED <<simRequest, simGot, simPc>>
        /\ g.st = "run" /\ simReq.subs[i].sensor = "/interfaces"
        /\ DOMAIN simGo' = DOMAIN simGo /\ \A x \in Subs : x # i => simGo'[x] = simGo[x]
    BY <1>1, <1>3, <1>7 DEF OnInterfaces, SimInv
  <1>9. ASSUME simPc # "returned" PROVE GoOk(i, h, simGot)
    <2>1. GoOk(i, g, simGot)
      BY <1>1, <1>9 DEF SimInv, GosOk
    <2>2. h = [st |-> "send", k |-> g.k + 1, seq |-> g.seq + 1, hdr |-> g.hdr, ctr |-> ctr, msg |-> m]
      <3>1. IsGo(g) /\ i \in DOMAIN simGo
        BY <2>1 DEF GoOk, SimInv
      <3> QED BY <1>1, <1>7, <3>1 DEF IsGo
    <2>3. /\ m.sub = i /\ m.ifd = n /\ m.unit = u /\ m.kv = kv
          /\ m.seq = IF simReq.rpc = "oc" THEN g.seq ELSE g.hdr
      BY <1>6 DEF Packet, IflSeq
    <2>4. InOctets(m) = ino
      <3>1. kv[<<"state", "counters", "in-octets">>] = ino
        <4>1. PICK own, all : own = IflOwn(n, u, inup, inmp) /\ all = [l \in IflLeaves |-> ino]
          OBVIOUS
        <4>2. DOMAIN all = IflLeaves /\ \A l \in IflLeaves : all[l] = ino
          BY <4>1
        <4>3. kv = MapMerge(own, all)
          BY <1>5, <4>1
        <4> QED BY <4>1, <4>2, <4>3, IflOctets
      <3> QED BY <2>3, <3>1, Zenon DEF InOctets
    <2>5. g.k \in Nat /\ u \in Int
      <3>1. g.k \in 0 .. WrapLen
        BY <1>8, <2>1 DEF GoOk, Started, IfaceOk
      <3>2. WrapLen \in Nat
        BY WrapIs DEF SimInv
      <3>3. g.k \in Nat
        BY <3>1, <3>2
      <3> QED BY <1>2, <1>3, <3>3, PlaceIs DEF SimInv
    <2>6. DOMAIN ctr = DOMAIN g.ctr /\ ctr[g.k - u - 1] = g.ctr[g.k - u - 1]
      <3>1. g.k - u - 1 # g.k
        BY <1>3, <2>5
      <3>2. PICK y : y = g.k - u - 1
        OBVIOUS
      <3>3. y \in DOMAIN g.ctr
        <4>1. DOMAIN g.ctr = 0 .. WrapLen - 1 /\ WrapLen \in Nat
          BY <1>8, <2>1, WrapIs DEF GoOk, Started, IfaceOk, SimInv
        <4>2. y \in 0 .. g.k
          BY <1>2, <1>3, <2>5, <3>2, PlaceIs DEF SimInv
        <4> QED BY <1>3, <2>5, <4>1, <4>2
      <3> QED BY <1>6, <3>1, <3>2, <3>3
    <2>7. UnitAt(g.k) # -1 /\ UnitAt(g.k) >= 0
      BY <1>2, <1>3, <2>5
    <2> QED BY <1>2, <1>3, <1>8, <2>1, <2>2, <2>3, <2>4, <2>6, <2>7, Offered
  <1> QED BY <1>1, <1>8, <1>9, OneGo

LEMMA SpawnStep ==
  ASSUME SimInv, SimSpawn
  PROVE  SimInv'
  <1>1. UNCHANGED <<simRequest, simGot>> /\ simPc = "spawn"
    BY DEF SimSpawn
  <1>2. CASE simPc' = "serve" /\ UNCHANGED simGo
    <2>1. /\ RequestOk' <=> RequestOk
          /\ Subs' = Subs
      BY <1>1, RequestStays
    <2>2. GosOk' /\ GotInOrder'
      BY <1>1, <1>2, SameGot DEF SimInv
    <2> QED BY <1>1, <1>2, <2>1, <2>2 DEF SimInv
  <1>3. CASE \E i \in Subs : simGo[i].st = "off" /\ simGo' = [simGo EXCEPT ![i].st = "start"] /\ UNCHANGED simPc
    <2>1. PICK i \in Subs : simGo[i].st = "off" /\ simGo' = [simGo EXCEPT ![i].st = "start"] /\ UNCHANGED simPc
      BY <1>3
    <2>2. PICK g, h : g = simGo[i] /\ h = simGo'[i]
      OBVIOUS
    <2>3. GoOk(i, g, simGot) /\ i \in DOMAIN simGo
      BY <1>1, <2>2 DEF SimInv, GosOk
    <2>4. h = [st |-> "start", k |-> g.k, seq |-> g.seq, hdr |-> g.hdr, ctr |-> g.ctr, msg |-> g.msg]
      BY <2>1, <2>2, <2>3 DEF GoOk, IsGo
    <2>5. GoOk(i, h, simGot)
      BY <2>1, <2>2, <2>3, <2>4 DEF GoOk, IsGo, Started
    <2>6. DOMAIN simGo' = DOMAIN simGo /\ \A x \in Subs : x # i => simGo'[x] = simGo[x]
      BY <2>1 DEF SimInv
    <2> QED BY <1>1, <2>1, <2>2, <2>5, <2>6, OneGo
  <1> QED BY <1>2, <1>3 DEF SimSpawn

LEMMA SubscribeStep ==
  ASSUME SimInv, SimSubscribe
  PROVE  SimInv'
  <1>1. /\ UNCHANGED <<simRequest, simGo>> /\ simPc = "recv" /\ simPc' = "spawn"
        /\ simGot' \in {<<SyncResponse>>, <<>>}
    BY DEF SimSubscribe
  <1>2. PICK H : H = simGot'
    OBVIOUS
  <1>3. /\ RequestOk' <=> RequestOk
        /\ Subs' = Subs
        /\ \A m, j : RightPacket(H, m, j)' <=> RightPacket(H, m, j)
        /\ \A x, g : GoOk(x, g, H)' <=> GoOk(x, g, H)
    BY <1>1, RequestStays
  <1>4. RequestOk /\ 0 \notin Subs
    BY DEF SimInv, RequestOk
  <1>5. /\ H = <<>> => IsPath(H) /\ Len(H) = 0 /\ DOMAIN H = {}
        /\ H = <<SyncResponse>> => IsPath(H) /\ Len(H) = 1 /\ DOMAIN H = 1 .. 1 /\ H[1].sub = 0
    <2>1. ASSUME H = <<>> PROVE IsPath(H) /\ Len(H) = 0 /\ DOMAIN H = {}
      <3>1. Len(H) = 0 /\ DOMAIN H = {} /\ H \in Seq({})
        BY <2>1
      <3>2. {H[x] : x \in DOMAIN H} = {}
        BY <3>1
      <3> QED BY <3>1, <3>2 DEF IsPath
    <2>2. ASSUME H = <<SyncResponse>> PROVE IsPath(H) /\ Len(H) = 1 /\ DOMAIN H = 1 .. 1 /\ H[1].sub = 0
      <3>1. PICK s : s = SyncResponse
        OBVIOUS
      <3>5. s.sub = 0
        BY <3>1 DEF SyncResponse, Packet
      <3>2. H = <<s>>
        BY <2>2, <3>1
      <3>3. Len(H) = 1 /\ DOMAIN H = 1 .. 1 /\ H[1] = s /\ H \in Seq({s})
        BY <3>2
      <3>4. {H[x] : x \in DOMAIN H} = {s}
        BY <3>3
      <3> QED BY <3>3, <3>4, <3>5 DEF IsPath
    <2> QED BY <2>1, <2>2
  <1>6. ASSUME NEW i \in Subs PROVE Before(H, i, Len(H) + 1) = 0
    <2>1. Before(H, i, 1) = 0
      BY NoneBefore
    <2>2. CASE H = <<>>
      <3>1. Len(H) + 1 = 1
        BY <1>5, <2>2
      <3> QED BY <2>1, <3>1
    <2>3. CASE H = <<SyncResponse>>
      <3>1. Len(H) + 1 = 1 + 1 /\ H[1].sub # i
        BY <1>4, <1>5, <1>6, <2>3
      <3>2. Before(H, i, 1 + 1) = Before(H, i, 1)
        BY <3>1, BeforeIs
      <3> QED BY <2>1, <3>1, <3>2
    <2> QED BY <1>1, <1>2, <2>2, <2>3
  <1>7. GosOk'
    <2> SUFFICES ASSUME NEW i \in Subs PROVE GoOk(i, simGo[i], simGot)'
      BY <1>3 DEF GosOk
    <2>1. PICK g : g = simGo[i]
      OBVIOUS
    <2>2. GoOk(i, g, simGot) /\ g.st = "off"
      BY <1>1, <2>1 DEF SimInv, GosOk
    <2>3. GoOk(i, g, H)
      BY <1>6, <2>2 DEF GoOk, Started
    <2>4. GoOk(i, g, H)'
      BY <1>3, <2>3
    <2> QED BY <1>1, <1>2, <2>1, <2>4
  <1>8. GotInOrder'
    <2>1. \A j \in DOMAIN H : H[j].sub = 0
      BY <1>1, <1>2, <1>5
    <2> QED BY <1>2, <2>1 DEF GotInOrder
  <1> QED BY <1>1, <1>2, <1>3, <1>4, <1>5, <1>7, <1>8 DEF SimInv

(* What a goroutine has sent or offers stays right when another's packet p is sent. *)
LEMMA OthersStay ==
  ASSUME NEW G, IsPath(G), NEW p, NEW H, H = Append(G, p), NEW i, i # p.sub, NEW g, GoOk(i, g, G)
  PROVE  GoOk(i, g, H)
  <1>1. /\ IsPath(H) /\ Len(G) \in Nat /\ Len(H) = Len(G) + 1
        /\ \A x \in 1 .. Len(G) : H[x] = G[x]
        /\ H[Len(G) + 1] = p
    BY AppendPath
  <1>2. PICK N \in Nat : N = Len(G) + 1 /\ Len(H) = N /\ N # 0
    BY <1>1
  <1>3. \A x \in 1 .. N - 1 : G[x] = H[x]
    BY <1>1, <1>2
  <1>4. PICK c : c = Before(G, i, N)
    OBVIOUS
  <1>5. Before(H, i, N + 1) = c
    <2>1. Before(H, i, N) = c
      BY <1>3, <1>4, BeforeStays
    <2>2. H[N].sub # i
      BY <1>1, <1>2
    <2> QED BY <1>2, <2>1, <2>2, BeforeIs
  <1>6. ASSUME NEW x \in 1 .. N - 1, NEW n, NEW d, NEW o, IfdPacket(G, x, i, n, d, o)
        PROVE  x \in 1 .. N /\ IfdPacket(H, x, i, n, d, o)
    BY <1>3, <1>6, IfdStays
  <1>7. ASSUME g.st = "send" PROVE RightPacket(H, g.msg, N + 1)
    <2>1. PICK m : m = g.msg
      OBVIOUS
    <2>2. m.sub = i /\ RightPacket(G, m, N)
      BY <1>2, <1>7, <2>1 DEF GoOk
    <2>3. /\ m.seq = IF simReq.rpc = "oc" \/ m.unit = -1 THEN c ELSE c - m.unit
          /\ simReq.subs[m.sub].sensor = "/interfaces" =>
                /\ IsUnit(m) /\ Turn(m) = (c % WrapLen)
                /\ m.unit >= 0 => \E x \in 1 .. N - 1 : IfdPacket(G, x, i, c - m.unit - 1, m.ifd, InOctets(m))
      BY <1>4, <2>2, Zenon DEF RightPacket
    <2>4. (N + 1) - 1 = N
      BY <1>2
    <2>5. m.unit >= 0 /\ simReq.subs[m.sub].sensor = "/interfaces" =>
             \E x \in 1 .. (N + 1) - 1 : IfdPacket(H, x, i, c - m.unit - 1, m.ifd, InOctets(m))
      BY <1>6, <2>3, <2>4, Zenon
    <2> QED BY <1>5, <2>1, <2>2, <2>3, <2>5, Zenon DEF RightPacket
  <1>8. IfaceOk(i, g, G, c) => IfaceOk(i, g, H, c)
    <2>1. Len(G) = N - 1 /\ Len(H) = N
      BY <1>1, <1>2
    <2> QED BY <1>6, <2>1, Zenon DEF IfaceOk
  <1> QED BY <1>2, <1>4, <1>5, <1>7, <1>8, Zenon DEF GoOk

(* The goroutine whose packet is sent goes on. *)
LEMMA SenderGoesOn ==
  ASSUME NEW G, IsPath(G), NEW i, NEW g, GoOk(i, g, G), g.st = "send", NEW H, H = Append(G, g.msg),
         NEW h, h = [st |-> IF simReq.subs[i].sensor = "/interfaces" THEN "run" ELSE "sleep",
                     k |-> g.k, seq |-> g.seq, hdr |-> g.hdr, ctr |-> g.ctr, msg |-> g.msg]
  PROVE  GoOk(i, h, H)
  <1>1. PICK m : m = g.msg /\ m.sub = i
    BY DEF GoOk
  <1>2. /\ IsPath(H) /\ Len(G) \in Nat /\ Len(H) = Len(G) + 1
        /\ \A x \in 1 .. Len(G) : H[x] = G[x]
        /\ H[Len(G) + 1] = m
    BY <1>1, AppendPath
  <1>3. PICK N \in Nat : N = Len(G) + 1 /\ Len(H) = N /\ N # 0
    BY <1>2
  <1>4. \A x \in 1 .. N - 1 : G[x] = H[x]
    BY <1>2, <1>3
  <1>5. PICK c \in Nat : c = Before(G, i, N)
    BY <1>3, BeforeIs
  <1>6. Before(H, i, N) = c /\ Before(H, i, N + 1) = c + 1 /\ H[N] = m
    <2>1. Before(H, i, N) = c
      <3>1. Before(G, i, N) = Before(H, i, N)
        BY <1>4, BeforeStays, Zenon
      <3> QED BY <1>5, <3>1
    <2>2. H[N].sub = i /\ H[N] = m
      BY <1>1, <1>2, <1>3
    <2> QED BY <1>3, <2>1, <2>2, BeforeIs
  <1>7. h.k = g.k /\ h.seq = g.seq /\ h.hdr = g.hdr /\ h.ctr = g.ctr /\ IsGo(h)
    BY DEF IsGo
  <1>8. CASE simReq.subs[i].sensor = "/interfaces"
    <2>1. h.st = "run"
      BY <1>8
    <2>2. IfaceOk(i, g, G, c)
      BY <1>3, <1>5, <1>8 DEF GoOk, Started
    <2>3. g.seq = c + 1
      BY <2>2 DEF IfaceOk
    <2>4. ASSUME g.k < WrapLen, UnitAt(g.k) >= 0
          PROVE  \E x \in 1 .. Len(H) :
                     IfdPacket(H, x, i, g.seq - UnitAt(g.k) - 1, IfdAt(g.k), g.ctr[g.k - UnitAt(g.k) - 1][2])
      <3>1. CASE UnitAt(g.k) = 0
        <4>1. m.ifd = IfdAt(g.k) /\ m.unit = -1 /\ InOctets(m) = g.ctr[g.k - UnitAt(g.k) - 1][2]
          BY <1>1, <2>2, <2>4, <3>1, Zenon DEF IfaceOk
        <4>2. g.seq - UnitAt(g.k) - 1 = c
          BY <2>3, <3>1
        <4>3. IfdPacket(H, N, i, g.seq - UnitAt(g.k) - 1, IfdAt(g.k), g.ctr[g.k - UnitAt(g.k) - 1][2])
          BY <1>1, <1>6, <4>1, <4>2, Zenon DEF IfdPacket
        <4>4. N \in 1 .. Len(H)
          BY <1>3
        <4> QED BY <4>3, <4>4
      <3>2. CASE UnitAt(g.k) # 0
        <4>1. PICK x \in 1 .. Len(G) :
                  IfdPacket(G, x, i, g.seq - UnitAt(g.k) - 1, IfdAt(g.k), g.ctr[g.k - UnitAt(g.k) - 1][2])
          BY <2>2, <2>4, <3>2, Zenon DEF IfaceOk
        <4>2. x \in 1 .. N - 1 /\ x \in 1 .. Len(H)
          BY <1>2, <1>3
        <4>3. IfdPacket(H, x, i, g.seq - UnitAt(g.k) - 1, IfdAt(g.k), g.ctr[g.k - UnitAt(g.k) - 1][2])
          <5>1. PICK n, d, o : /\ n = g.seq - UnitAt(g.k) - 1 /\ d = IfdAt(g.k)
                               /\ o = g.ctr[g.k - UnitAt(g.k) - 1][2]
            OBVIOUS
          <5>2. IfdPacket(G, x, i, n, d, o)
            BY <4>1, <5>1
          <5>3. IfdPacket(H, x, i, n, d, o)
            BY <1>4, <4>2, <5>2, IfdStays, Zenon
          <5> QED BY <5>1, <5>3
        <4> QED BY <4>2, <4>3
      <3> QED BY <3>1, <3>2
    <2>5. /\ g.k \in 0 .. WrapLen /\ \E w \in Nat : g.seq = w * WrapLen + g.k
          /\ DOMAIN g.ctr = 0 .. WrapLen - 1
          /\ g.k < WrapLen /\ UnitAt(g.k) >= 0 => g.hdr = g.seq - UnitAt(g.k)
      BY <2>2, Zenon DEF IfaceOk
    <2>6. h.st \in {"run", "send"} /\ h.seq = (IF h.st = "send" THEN (c + 1) + 1 ELSE c + 1) /\ h.st # "send"
      BY <1>7, <2>1, <2>3
    <2>7. IfaceOk(i, h, H, c + 1)
      BY <1>7, <2>4, <2>5, <2>6, Zenon DEF IfaceOk
    <2> QED BY <1>3, <1>6, <1>7, <1>8, <2>1, <2>7 DEF GoOk, Started
  <1>9. CASE simReq.subs[i].sensor # "/interfaces"
    <2>1. h.st = "sleep"
      BY <1>9
    <2>2. g.seq = c
      BY <1>3, <1>5, <1>9 DEF GoOk, Started, SmallOk
    <2>3. SmallOk(h, c + 1)
      BY <1>7, <2>1, <2>2 DEF SmallOk
    <2> QED BY <1>3, <1>6, <1>7, <1>9, <2>1, <2>3 DEF GoOk, Started
  <1> QED BY <1>8, <1>9

LEMMA SendStep ==
  ASSUME SimInv, NEW i \in Subs, SimSend(i)
  PROVE  SimInv'
  <1>1. PICK g, h, G, H : g = simGo[i] /\ h = simGo'[i] /\ G = simGot /\ H = simGot'
    OBVIOUS
  <1>2. UNCHANGED simRequest /\ simPc = "serve" /\ g.st = "send"
    BY <1>1 DEF SimSend
  <1>3. /\ RequestOk' <=> RequestOk
        /\ Subs' = Subs
        /\ \A m, j : RightPacket(H, m, j)' <=> RightPacket(H, m, j)
        /\ \A x, y : GoOk(x, y, H)' <=> GoOk(x, y, H)
    BY <1>2, RequestStays
  <1>4. DOMAIN simGo' = DOMAIN simGo /\ \A x \in Subs : x # i => simGo'[x] = simGo[x]
    BY DEF SimSend, SimInv
  <1>5. CASE simPc' = "returned" /\ UNCHANGED simGot
    <2>1. GotInOrder'
      BY <1>2, <1>5, SameGot DEF SimInv
    <2> QED BY <1>3, <1>4, <1>5, <2>1 DEF SimInv
  <1>6. CASE simGot' = Append(simGot, simGo[i].msg) /\ UNCHANGED simPc
    <2>1. IsPath(G) /\ H = Append(G, g.msg) /\ RequestOk /\ GoOk(i, g, G)
      BY <1>1, <1>2, <1>6 DEF SimInv, GosOk
    <2>2. PICK m : m = g.msg /\ m.sub = i /\ RightPacket(G, m, Len(G) + 1)
      BY <1>2, <2>1 DEF GoOk
    <2>3. /\ IsPath(H) /\ Len(G) \in Nat /\ Len(H) = Len(G) + 1
          /\ DOMAIN G = 1 .. Len(G) /\ DOMAIN H = 1 .. Len(G) + 1
          /\ \A x \in 1 .. Len(G) : H[x] = G[x]
          /\ H[Len(G) + 1] = m
      BY <2>1, <2>2, AppendPath
    <2>4. PICK N \in Nat : N = Len(G) + 1
      BY <2>3
    <2>5. GotInOrder'
      <3> SUFFICES ASSUME NEW j \in DOMAIN H, H[j].sub # 0 PROVE RightPacket(simGot, simGot[j], j)'
        BY <1>1 DEF GotInOrder
      <3>1. PICK y : y = H[j]
        OBVIOUS
      <3>2. RightPacket(G, y, j)
        <4>1. CASE j = N
          BY <2>2, <2>3, <2>4, <3>1, <4>1
        <4>2. CASE j # N
          <5>1. j \in DOMAIN G /\ y = G[j] /\ G[j].sub # 0
            BY <2>3, <2>4, <3>1, <4>2
          <5> QED BY <1>1, <5>1 DEF SimInv, GotInOrder
        <4> QED BY <4>1, <4>2
      <3>3. j \in Nat /\ \A x \in 1 .. j - 1 : G[x] = H[x]
        BY <2>3
      <3>4. RightPacket(H, y, j)
        BY <3>2, <3>3, RightStays
      <3>5. RightPacket(H, y, j)'
        BY <1>3, <3>4
      <3> QED BY <1>1, <3>1, <3>5
    <2>6. GosOk'
      <3> SUFFICES ASSUME NEW x \in Subs PROVE GoOk(x, simGo[x], simGot)'
        BY <1>3 DEF GosOk
      <3>1. PICK y : y = simGo'[x]
        OBVIOUS
      <3>2. CASE x # i
        <4>1. GoOk(x, y, G) /\ x # m.sub
          BY <1>1, <1>2, <1>4, <2>2, <3>1, <3>2 DEF SimInv, GosOk
        <4>2. GoOk(x, y, H)
          BY <2>1, <2>2, <4>1, OthersStay
        <4>3. GoOk(x, y, H)'
          BY <1>3, <4>2
        <4> QED BY <1>1, <3>1, <4>3
      <3>3. CASE x = i
        <4>1. y = [st |-> IF simReq.subs[i].sensor = "/interfaces" THEN "run" ELSE "sleep",
                   k |-> g.k, seq |-> g.seq, hdr |-> g.hdr, ctr |-> g.ctr, msg |-> g.msg]
          <5>1. simGo' = [simGo EXCEPT ![i].st = IF simReq.subs[i].sensor = "/interfaces" THEN "run" ELSE "sleep"]
            BY DEF SimSend
          <5>2. i \in DOMAIN simGo /\ IsGo(g)
            BY <2>1 DEF SimInv, GoOk
          <5> QED BY <1>1, <3>1, <3>3, <5>1, <5>2 DEF IsGo
        <4>2. GoOk(i, y, H)
          BY <1>2, <2>1, <4>1, SenderGoesOn
        <4>3. GoOk(i, y, H)'
          BY <1>3, <4>2
        <4> QED BY <1>1, <3>1, <3>3, <4>3
      <3> QED BY <3>2, <3>3
    <2> QED BY <1>1, <1>2, <1>3, <1>4, <1>6, <2>1, <2>3, <2>5, <2>6 DEF SimInv
  <1> QED BY <1>5, <1>6 DEF SimSend

LEMMA SimInductive == SimSpec => []SimInv
  <1>1. SimInit => SimInv
    <2> SUFFICES ASSUME SimInit PROVE SimInv
      OBVIOUS
    <2>1. PICK c \in SimCases : simDesc = c.desc /\ simReq = c.req
      BY DEF SimInit
    <2>2. simPc = "recv" /\ simGo = [i \in Subs |-> Idle] /\ simGot = <<>>
      BY DEF SimInit
    <2>3. {c.desc.fpc, c.desc.pic, c.desc.port, c.desc.logical} \subseteq Nat
      BY JtiSimAssumption
    <2>4. 0 \notin Subs
      <3>1. c.req.subs \in Seq({c.req.subs[i] : i \in DOMAIN c.req.subs})
        BY JtiSimAssumption
      <3>2. DOMAIN c.req.subs = 1 .. Len(c.req.subs)
        BY <3>1, LenProperties
      <3> QED BY <2>1, <3>2 DEF Subs
    <2>5. RequestOk
      BY <2>1, <2>3, <2>4 DEF RequestOk
    <2>6. Len(simGot) = 0 /\ DOMAIN simGot = {} /\ IsPath(simGot)
      <3>1. Len(simGot) = 0 /\ DOMAIN simGot = {} /\ simGot \in Seq({})
        BY <2>2
      <3>2. {simGot[x] : x \in DOMAIN simGot} = {}
        BY <3>1
      <3> QED BY <3>1, <3>2 DEF IsPath
    <2>7. GosOk
      <3> SUFFICES ASSUME NEW i \in Subs PROVE GoOk(i, simGo[i], simGot)
        BY DEF GosOk
      <3>1. PICK G : G = simGot
        OBVIOUS
      <3>2. Before(G, i, 1) = 0
        BY NoneBefore
      <3>3. Before(simGot, i, Len(simGot) + 1) = 0
        <4>1. Len(simGot) + 1 = 1
          BY <2>6
        <4> QED BY <3>1, <3>2, <4>1
      <3>4. PICK g : g = simGo[i]
        OBVIOUS
      <3>5. IsGo(g) /\ g.st = "off" /\ g.k = 0 /\ g.seq = 0
        BY <2>2, <3>4 DEF Idle, IsGo
      <3> QED BY <3>3, <3>4, <3>5 DEF GoOk, Started
    <2>8. \A i \in Subs : simGo[i].st = "off"
      BY <2>2 DEF Idle
    <2> QED BY <2>2, <2>5, <2>6, <2>7, <2>8 DEF SimInv, GotInOrder
  <1>2. SimInv /\ [SimNext]_simVars => SimInv'
    <2> SUFFICES ASSUME SimInv, [SimNext]_simVars PROVE SimInv'
      OBVIOUS
    <2>1. ASSUME UNCHANGED <<simRequest, simGo, simGot>>, simPc' = simPc \/ simPc' = "returned" PROVE SimInv'
      <3>1. /\ RequestOk' <=> RequestOk
            /\ Subs' = Subs
        BY <2>1, RequestStays
      <3>2. GotInOrder'
        BY <2>1, SameGot DEF SimInv
      <3>3. simPc # "returned" => GosOk'
        BY <2>1, SameGot DEF SimInv
      <3> QED BY <2>1, <3>1, <3>2, <3>3 DEF SimInv
    <2>2. CASE SimDone
      BY <2>1, <2>2 DEF SimDone
    <2>3. CASE UNCHANGED simVars
      BY <2>1, <2>3 DEF simVars, simRequest
    <2>4. CASE SimSubscribe \/ SimSpawn
      BY <2>4, SubscribeStep, SpawnStep
    <2>5. ASSUME NEW i \in Subs,
                 \/ SimStart(i) \/ SimPanic(i) \/ SimIfd(i) \/ SimIfl(i) \/ SimWrapEnds(i)
                 \/ SimSmall(i) \/ SimSleep(i) \/ SimSend(i)
          PROVE  SimInv'
      BY <2>5, StartStep, PanicStep, IfdStep, IflStep, WrapEndsStep, SmallStep, SleepStep, SendStep
    <2> QED BY <2>2, <2>3, <2>4, <2>5 DEF SimNext
  <1> QED BY <1>1, <1>2, PTL DEF SimSpec

(* However the sensors take turns on the channel, every packet the client gets of one of
   them is of the interface or unit whose turn it is, has the number of its place
   (over gNMI a unit's has that after its interface's), and a unit's repeats the in-octets
   of its interface's, which went before (jtisim/interfaces.go:137-277, 602).  For any
   number of subscriptions, interfaces and units, and streams of any length. *)
THEOREM SensorsKeepOrder == SimSpec => []SensorsAreInOrder
  <1>1. SimInv => SensorsAreInOrder
    BY OrderIs DEF SimInv
  <1> QED BY <1>1, SimInductive, PTL

=============================================================================
