----------------------- MODULE DeductionServerProofs -----------------------
(***************************************************************************)
(* Proofs about DeductionServer, for all messages, sizes, workloads and    *)
(* ways to cut reads and writes, and for any number of runners and cores:  *)
(* client and server agree where a message begins, the job keeps its       *)
(* runners under control and tells the client the truth about them, and    *)
(* the axiom sets are staged exactly as often as they are counted.         *)
(***************************************************************************)
EXTENDS DeductionServer, FiniteSetTheorems, TLAPS

Byte     == Texts \X Nat
AtEnd(b) == b[2] = MsgLen(b[1])

(* The message being received *)
Current  == in_header[1][1]

(* The byte that stands d places behind b, as long as its message lasts *)
Ahead(b, d) == <<b[1], b[2] + d>>

TypeInv ==
    /\ workload \in DOMAIN Workloads
    /\ out \in Seq(Texts) /\ out_count \in Nat
    /\ wire \in Seq(Byte)
    /\ in_len \in Int /\ in_count \in Nat /\ in_header \in Seq(Byte)

(* What a client that has left was sending is lost.  transmission_count is *)
(* short of the length of the message at hand.                             *)
SenderInv ==
    /\ gone => out = <<>>
    /\ out = <<>> => out_count = 0
    /\ out # <<>> => out_count < MsgLen(Head(out))

ReceiverInv ==
    /\ in_count = 0 => in_header = <<>>
    /\ in_count > 0 => in_header # <<>> /\ in_count < MsgLen(Current)
    /\ in_count >= HeaderSize => in_len = MsgLen(Current)

(* The wire carries whole runs of a message: from any byte the message     *)
(* goes on to its end, and another one begins there.                       *)
WireInv ==
    /\ \A i \in 1..Len(wire), j \in 1..Len(wire) :
         i <= j /\ wire[i][2] + (j - i) <= MsgLen(wire[i][1])
            => wire[j] = Ahead(wire[i], j - i)
    /\ \A i \in 1..Len(wire) : AtEnd(wire[i]) /\ i < Len(wire) => wire[i + 1][2] = 1
    /\ \A i \in 1..Len(wire) : wire[i][2] <= MsgLen(wire[i][1])

(* The first byte on the wire is what the receiver waits for, the last one *)
(* is what the sender wrote last.                                          *)
FirstByteInv ==
    wire # <<>> => /\ wire[1][2] = in_count + 1
                   /\ in_count > 0 => wire[1][1] = Current

LastByteInv ==
    wire # <<>> => IF out_count > 0 THEN wire[Len(wire)] = <<Head(out), out_count>>
                                    ELSE gone \/ AtEnd(wire[Len(wire)])

EmptyWireInv ==
    wire = <<>> => \/ gone
                   \/ out_count = in_count /\ (in_count > 0 => Head(out) = Current)

StreamInv == TypeInv /\ SenderInv /\ ReceiverInv /\ WireInv
             /\ FirstByteInv /\ LastByteInv /\ EmptyWireInv

----------------------------------------------------------------------------
(* Numbers and pieces of streams *)

LEMMA MinOfTwo ==
    ASSUME NEW a \in Int, NEW b \in Int
    PROVE  Min({a, b}) \in Int /\ Min({a, b}) <= a /\ Min({a, b}) <= b
<1>1. \E x \in {a, b} : \A y \in {a, b} : x =< y
  <2>1. CASE a <= b
    BY <2>1
  <2>2. CASE ~ (a <= b)
    BY <2>2
  <2> QED
    BY <2>1, <2>2
<1>2. /\ Min({a, b}) \in {a, b}
      /\ \A y \in {a, b} : Min({a, b}) =< y
  BY <1>1 DEF Min
<1> QED
  BY <1>2

LEMMA UpToMin ==
    ASSUME NEW a \in Int, NEW b \in Int, NEW k \in 1..Min({a, b})
    PROVE  k \in Nat /\ k > 0 /\ k <= a /\ k <= b
<1> DEFINE least == Min({a, b})
<1>1. least \in Int /\ least <= a /\ least <= b
  BY MinOfTwo, Zenon
<1>2. k \in 1..least
  OBVIOUS
<1> HIDE DEF least
<1> QED
  BY <1>1, <1>2

LEMMA Lengths ==
    ASSUME NEW m \in Texts
    PROVE  MsgLen(m) \in Nat /\ MsgLen(m) > HeaderSize /\ HeaderSize \in Nat /\ HeaderSize > 0
BY SizesAssumption DEF MsgLen

LEMMA BytesType ==
    ASSUME NEW m \in Texts, NEW from \in Nat, NEW k \in Nat
    PROVE  /\ BytesOf(m, from + 1, from + k) \in Seq(Byte)
           /\ Len(BytesOf(m, from + 1, from + k)) = k
           /\ \A i \in 1..k : BytesOf(m, from + 1, from + k)[i] = <<m, from + i>>
<1> DEFINE B == BytesOf(m, from + 1, from + k)
<1>1. B = [i \in 1..k |-> <<m, from + i>>]
  BY DEF BytesOf
<1>2. \A i \in 1..k : <<m, from + i>> \in Byte
  BY DEF Byte
<1>3. B \in [1..k -> Byte]
  BY <1>1, <1>2
<1>4. B \in Seq(Byte)
  BY <1>3
<1>5. Len(B) = k
  BY <1>3, <1>4
<1> QED
  BY <1>1, <1>4, <1>5

LEMMA RestType ==
    ASSUME NEW s \in Seq(Byte), NEW k \in 1..Len(s)
    PROVE  /\ After(k, s) \in Seq(Byte)
           /\ Len(After(k, s)) = Len(s) - k
           /\ \A i \in 1..(Len(s) - k) : After(k, s)[i] = s[i + k]
           /\ Upto(k, s) \in Seq(Byte)
           /\ Len(Upto(k, s)) = k
           /\ Upto(k, s)[1] = s[1]
BY DEF After, Upto

(* A byte is the pair of its message and its position. *)
LEMMA ByteOnWire ==
    ASSUME TypeInv, NEW i \in 1..Len(wire)
    PROVE  /\ wire[i] = <<wire[i][1], wire[i][2]>>
           /\ wire[i][1] \in Texts /\ wire[i][2] \in Nat
<1>1. wire[i] \in Byte
  BY DEF TypeInv
<1> QED
  BY <1>1 DEF Byte

LEMMA MessageReceived ==
    ASSUME TypeInv, ReceiverInv, in_count > 0
    PROVE  Current \in Texts
<1>1. in_header \in Seq(Byte) /\ in_header # <<>>
  BY DEF TypeInv, ReceiverInv
<1>2. in_header[1] \in Byte
  BY <1>1
<1> QED
  BY <1>2 DEF Byte, Current

----------------------------------------------------------------------------
(* A write appends a run that goes on where the last one ended. *)

LEMMA WriteKeepsStream ==
    ASSUME StreamInv, ~gone, TCPMsgWrite, UNCHANGED <<workload, gone>>
    PROVE  StreamInv'
<1> DEFINE m == Head(out)
           n == Len(wire)
<1>1. /\ out # <<>> /\ out \in Seq(Texts) /\ m \in Texts /\ out_count \in Nat
      /\ MsgLen(m) \in Nat /\ out_count < MsgLen(m)
      /\ wire \in Seq(Byte) /\ n \in Nat /\ WireCapacity \in Nat
  BY Lengths, SizesAssumption DEF TCPMsgWrite, StreamInv, TypeInv, SenderInv
<1>2. PICK k \in 1..Min({MsgLen(m) - out_count, WireCapacity - n}) :
         /\ wire' = wire \o BytesOf(m, out_count + 1, out_count + k)
         /\ IF out_count + k = MsgLen(m)
            THEN out' = Tail(out) /\ out_count' = 0
            ELSE out_count' = out_count + k /\ UNCHANGED out
  BY DEF TCPMsgWrite
<1>3. k \in Nat /\ k > 0 /\ out_count + k <= MsgLen(m)
  <2>1. MsgLen(m) - out_count \in Int /\ WireCapacity - n \in Int
    BY <1>1
  <2>2. k \in Nat /\ k > 0 /\ k <= MsgLen(m) - out_count
    BY <1>2, <2>1, UpToMin, Zenon
  <2> QED
    BY <1>1, <2>2
<1>4. /\ UNCHANGED <<in_len, in_count, in_header, in_content, workload, gone>>
  BY DEF TCPMsgWrite, receiver
<1>5. /\ wire' \in Seq(Byte) /\ Len(wire') = n + k
      /\ \A i \in 1..n : wire'[i] = wire[i]
      /\ \A i \in 1..k : wire'[n + i] = <<m, out_count + i>>
  <2> DEFINE B == BytesOf(m, out_count + 1, out_count + k)
  <2>1. B \in Seq(Byte) /\ Len(B) = k /\ \A i \in 1..k : B[i] = <<m, out_count + i>>
    BY <1>1, <1>3, BytesType
  <2> HIDE DEF B
  <2> QED
    <3>1. wire' = wire \o B
      BY <1>2 DEF B
    <3> QED
      BY <1>1, <1>3, <2>1, <3>1
<1> HIDE DEF m, n
<1>6. /\ out_count + k = MsgLen(m) => out' = Tail(out) /\ out_count' = 0
      /\ out_count + k # MsgLen(m) => out' = out /\ out_count' = out_count + k
  BY <1>2, Zenon
<1>7. Tail(out) \in Seq(Texts)
  BY <1>1
<1>8. TypeInv'
  <2>1. out' \in Seq(Texts) /\ out_count' \in Nat
    <3>1. CASE out_count + k = MsgLen(m)
      BY <1>6, <1>7, <3>1
    <3>2. CASE out_count + k # MsgLen(m)
      BY <1>1, <1>3, <1>6, <3>2
    <3> QED
      BY <3>1, <3>2
  <2> QED
    BY <1>4, <1>5, <2>1 DEF StreamInv, TypeInv, Byte
<1>9. SenderInv'
  <2>1. CASE out_count + k = MsgLen(m)
    <3>1. out' \in Seq(Texts) /\ out_count' = 0
      BY <1>6, <1>7, <2>1
    <3>2. out' # <<>> => MsgLen(Head(out')) > 0
      BY <3>1, Lengths, SizesAssumption
    <3> QED
      BY <1>4, <3>1, <3>2, Lengths DEF SenderInv, MsgLen
  <2>2. CASE out_count + k # MsgLen(m)
    <3>1. out' = out /\ out_count' = out_count + k /\ out_count' < MsgLen(m)
      BY <1>1, <1>3, <1>6, <2>2
    <3> QED
      BY <1>1, <1>4, <3>1 DEF StreamInv, SenderInv, MsgLen, m
  <2> QED
    BY <2>1, <2>2
<1>10. ReceiverInv'
  BY <1>4 DEF StreamInv, ReceiverInv, Current, MsgLen
<1>11. n > 0 => IF out_count > 0 THEN wire[n] = <<m, out_count>> ELSE AtEnd(wire[n])
  BY <1>1 DEF StreamInv, LastByteInv, m, n
<1>12. WireInv'
  <2>1. ASSUME NEW i \in 1..(n + k), NEW j \in 1..(n + k), i <= j,
               wire'[i][2] + (j - i) <= MsgLen(wire'[i][1])
        PROVE  wire'[j] = Ahead(wire'[i], j - i)
    <3>1. CASE j <= n
      <4>1. i \in 1..n /\ j \in 1..n
        BY <1>1, <2>1, <3>1
      <4>2. wire[i][2] + (j - i) <= MsgLen(wire[i][1])
        BY <1>5, <2>1, <4>1
      <4> QED
        BY <1>5, <2>1, <4>1, <4>2 DEF StreamInv, WireInv, Ahead, n
    <3>2. CASE n < i
      <4>1. PICK d \in 1..k : i = n + d
        BY <1>1, <1>3, <3>2
      <4>2. PICK e \in 1..k : j = n + e
        BY <1>1, <1>3, <2>1, <3>2
      <4>3. wire'[i] = <<m, out_count + d>> /\ wire'[j] = <<m, out_count + e>>
        BY <1>5, <4>1, <4>2
      <4>4. out_count + d + (j - i) = out_count + e
        BY <1>1, <4>1, <4>2
      <4> QED
        BY <4>3, <4>4 DEF Ahead
    <3>3. CASE i <= n /\ n < j
      <4>1. i \in 1..n /\ n \in 1..n /\ n > 0
        BY <1>1, <3>3
      <4>2. PICK e \in 1..k : j = n + e
        BY <1>1, <1>3, <3>3
      <4>3. wire'[i] = wire[i] /\ wire[i] = <<wire[i][1], wire[i][2]>>
            /\ wire[i][1] \in Texts /\ wire[i][2] \in Nat
        BY <1>5, <4>1, ByteOnWire DEF StreamInv, n
      <4>4. MsgLen(wire[i][1]) \in Nat /\ wire[i][2] + (n - i) < MsgLen(wire[i][1])
        BY <1>1, <2>1, <4>1, <4>2, <4>3, Lengths
      <4>5. wire[n] = <<wire[i][1], wire[i][2] + (n - i)>>
        <5>1. wire[i][2] + (n - i) <= MsgLen(wire[i][1])
          BY <1>1, <4>1, <4>3, <4>4
        <5>2. wire[n] = Ahead(wire[i], n - i)
          BY <3>3, <4>1, <5>1 DEF StreamInv, WireInv, n
        <5> QED
          BY <5>2 DEF Ahead
      <4>6. ~AtEnd(wire[n])
        BY <1>1, <4>1, <4>3, <4>4, <4>5 DEF AtEnd
      <4>7. wire[n] = <<m, out_count>>
        BY <1>11, <4>1, <4>6
      <4>8. wire[i][1] = m /\ wire[i][2] + (n - i) = out_count
        BY <4>5, <4>7
      <4>9. wire'[j] = <<m, out_count + e>>
        BY <1>5, <4>2
      <4>10. out_count + e = wire[i][2] + (j - i)
        <5>1. i \in Nat /\ n \in Nat /\ e \in Nat /\ wire[i][2] \in Nat
          BY <1>1, <4>1, <4>2, <4>3
        <5>2. (wire[i][2] + (n - i)) + e = wire[i][2] + ((n + e) - i)
          <6>1. PICK w \in Nat, a \in Nat, b \in Nat, c \in Nat :
                  w = wire[i][2] /\ a = n /\ b = i /\ c = e
            BY <5>1, Zenon
          <6>2. (w + (a - b)) + c = w + ((a + c) - b)
            BY <6>1
          <6> QED
            BY <6>1, <6>2, Zenon
        <5> QED
          BY <4>2, <4>8, <5>2, Zenon
      <4> QED
        BY <4>3, <4>8, <4>9, <4>10 DEF Ahead
    <3> QED
      BY <1>1, <3>1, <3>2, <3>3
  <2>2. ASSUME NEW i \in 1..(n + k), AtEnd(wire'[i]), i < n + k
        PROVE  wire'[i + 1][2] = 1
    <3>1. CASE i < n
      <4>1. i \in 1..n /\ i + 1 \in 1..n
        BY <1>1, <3>1
      <4> QED
        BY <1>5, <2>2, <3>1, <4>1 DEF StreamInv, WireInv, AtEnd, n
    <3>2. CASE i = n
      <4>1. n > 0 /\ AtEnd(wire[n])
        BY <1>1, <1>5, <2>2, <3>2 DEF AtEnd
      <4>2. out_count = 0
        BY <1>1, <1>11, <4>1 DEF AtEnd
      <4> QED
        BY <1>3, <1>5, <3>2, <4>2
    <3>3. CASE n < i
      <4>1. PICK d \in 1..k : i = n + d /\ d < k
        BY <1>1, <1>3, <2>2, <3>3
      <4>2. wire'[i] = <<m, out_count + d>>
        BY <1>5, <4>1
      <4>3. out_count + d = MsgLen(m)
        BY <2>2, <4>2 DEF AtEnd
      <4> QED
        BY <1>1, <1>3, <4>1, <4>3
    <3> QED
      BY <1>1, <3>1, <3>2, <3>3
  <2>3. ASSUME NEW i \in 1..(n + k)
        PROVE  wire'[i][2] <= MsgLen(wire'[i][1])
    <3>1. CASE i <= n
      <4>1. i \in 1..n
        BY <1>1, <3>1
      <4> QED
        BY <1>5, <4>1 DEF StreamInv, WireInv, n
    <3>2. CASE n < i
      <4>1. PICK d \in 1..k : i = n + d
        BY <1>1, <1>3, <3>2
      <4>2. wire'[i] = <<m, out_count + d>>
        BY <1>5, <4>1
      <4> QED
        BY <1>1, <1>3, <4>1, <4>2
    <3> QED
      BY <1>1, <3>1, <3>2
  <2> QED
    BY <1>5, <2>1, <2>2, <2>3 DEF WireInv, Ahead, AtEnd, MsgLen
<1>13. FirstByteInv'
  <2>1. CASE n > 0
    BY <1>1, <1>4, <1>5, <2>1 DEF StreamInv, FirstByteInv, Current, n
  <2>2. CASE n = 0
    <3>1. wire = <<>>
      BY <1>1, <2>2 DEF n
    <3>2. out_count = in_count /\ (in_count > 0 => m = Current)
      BY <3>1 DEF StreamInv, EmptyWireInv, m
    <3>3. wire'[1] = <<m, out_count + 1>>
      BY <1>3, <1>5, <2>2
    <3> QED
      BY <1>4, <3>2, <3>3 DEF FirstByteInv, Current
  <2> QED
    BY <1>1, <2>1, <2>2
<1>14. wire'[n + k] = <<m, out_count + k>>
  BY <1>3, <1>5
<1>15. LastByteInv'
  <2>1. CASE out_count + k = MsgLen(m)
    BY <1>5, <1>14, <1>6, <2>1 DEF LastByteInv, AtEnd, MsgLen
  <2>2. CASE out_count + k # MsgLen(m)
    <3>1. out' = out /\ out_count' = out_count + k /\ out_count' > 0
      BY <1>1, <1>3, <1>6, <2>2
    <3>2. wire'[Len(wire')] = <<Head(out'), out_count'>>
      BY <1>5, <1>14, <3>1 DEF m
    <3> QED
      BY <3>1, <3>2 DEF LastByteInv
  <2> QED
    BY <2>1, <2>2
<1>16. EmptyWireInv'
  <2>1. wire' # <<>>
    BY <1>1, <1>3, <1>5
  <2> QED
    BY <2>1 DEF EmptyWireInv
<1> QED
  BY <1>8, <1>9, <1>10, <1>12, <1>13, <1>15, <1>16 DEF StreamInv

----------------------------------------------------------------------------
(* A read takes a piece of the run at hand, and never more than its rest. *)

LEMMA AfterRead ==
    ASSUME StreamInv, NEW k \in 1..Len(wire),
           in_count + k <= MsgLen(wire[1][1])
    PROVE  LET m == wire[1][1] rest == After(k, wire) IN
           /\ m \in Texts
           /\ in_count > 0 => m = Current
           /\ \A i \in 1..Len(rest), j \in 1..Len(rest) :
                i <= j /\ rest[i][2] + (j - i) <= MsgLen(rest[i][1])
                   => rest[j] = Ahead(rest[i], j - i)
           /\ \A i \in 1..Len(rest) : AtEnd(rest[i]) /\ i < Len(rest) => rest[i + 1][2] = 1
           /\ \A i \in 1..Len(rest) : rest[i][2] <= MsgLen(rest[i][1])
           /\ rest # <<>> /\ in_count + k < MsgLen(m) => rest[1] = <<m, in_count + k + 1>>
           /\ rest # <<>> /\ in_count + k = MsgLen(m) => rest[1][2] = 1
           /\ rest # <<>> => IF out_count > 0 THEN rest[Len(rest)] = <<Head(out), out_count>>
                                              ELSE gone \/ AtEnd(rest[Len(rest)])
           /\ rest = <<>> =>
                \/ gone
                \/ in_count + k < MsgLen(m) /\ out_count = in_count + k /\ Head(out) = m
                \/ in_count + k = MsgLen(m) /\ out_count = 0
<1> DEFINE m == wire[1][1]
           n == Len(wire)
           rest == After(k, wire)
<1>1. /\ wire \in Seq(Byte) /\ n \in Nat /\ wire # <<>> /\ k \in 1..n
      /\ in_count \in Nat /\ out \in Seq(Texts) /\ out_count \in Nat
  BY DEF StreamInv, TypeInv
<1>2. /\ m \in Texts /\ wire[1] = <<m, in_count + 1>>
      /\ in_count > 0 => m = Current
  BY <1>1, ByteOnWire DEF StreamInv, FirstByteInv
<1>3. MsgLen(m) \in Nat /\ MsgLen(m) > 0
  BY <1>2, Lengths
<1>4. /\ rest \in Seq(Byte) /\ Len(rest) = n - k
      /\ \A i \in 1..(n - k) : rest[i] = wire[i + k]
  BY <1>1, RestType
<1>5. \A j \in 1..n : in_count + j <= MsgLen(m) => wire[j] = <<m, in_count + j>>
  <2> SUFFICES ASSUME NEW j \in 1..n, in_count + j <= MsgLen(m)
               PROVE  wire[j] = <<m, in_count + j>>
    OBVIOUS
  <2>1. wire[1][2] + (j - 1) <= MsgLen(wire[1][1])
    BY <1>1, <1>2
  <2>2. wire[j] = Ahead(wire[1], j - 1)
    <3>1. 1 \in 1..Len(wire) /\ j \in 1..Len(wire) /\ 1 <= j
      BY <1>1 DEF n
    <3> QED
      BY <2>1, <3>1 DEF StreamInv, WireInv
  <2>3. in_count + 1 + (j - 1) = in_count + j
    BY <1>1
  <2> QED
    BY <1>2, <2>2, <2>3 DEF Ahead
<1>6. in_count + k <= MsgLen(m)
  OBVIOUS
<1> HIDE DEF m, n, rest
<1>7. wire[k] = <<m, in_count + k>>
  BY <1>1, <1>5, <1>6
<1>8. ASSUME NEW i \in 1..(n - k), NEW j \in 1..(n - k), i <= j,
             rest[i][2] + (j - i) <= MsgLen(rest[i][1])
      PROVE  rest[j] = Ahead(rest[i], j - i)
  <2>1. i + k \in 1..n /\ j + k \in 1..n /\ i + k <= j + k /\ (j + k) - (i + k) = j - i
    BY <1>1, <1>8
  <2>2. wire[i + k][2] + ((j + k) - (i + k)) <= MsgLen(wire[i + k][1])
    BY <1>4, <1>8, <2>1
  <2>3. wire[j + k] = Ahead(wire[i + k], (j + k) - (i + k))
    BY <2>1, <2>2 DEF StreamInv, WireInv, n
  <2> QED
    BY <1>4, <2>1, <2>3
<1>9. ASSUME NEW i \in 1..(n - k), AtEnd(rest[i]), i < n - k
      PROVE  rest[i + 1][2] = 1
  <2>1. i + k \in 1..n /\ i + k < n /\ i + 1 \in 1..(n - k) /\ (i + 1) + k = (i + k) + 1
    BY <1>1, <1>9
  <2>2. AtEnd(wire[i + k])
    BY <1>4, <1>9
  <2>3. wire[(i + k) + 1][2] = 1
    BY <2>1, <2>2 DEF StreamInv, WireInv, n
  <2> QED
    BY <1>4, <2>1, <2>3
<1>10. rest # <<>> => k < n /\ rest[1] = wire[k + 1] /\ k + 1 \in 1..n
                      /\ rest[n - k] = wire[n]
  BY <1>1, <1>4
<1>11. rest # <<>> /\ in_count + k < MsgLen(m) => rest[1] = <<m, in_count + k + 1>>
  <2> SUFFICES ASSUME rest # <<>>, in_count + k < MsgLen(m)
               PROVE  rest[1] = <<m, in_count + k + 1>>
    OBVIOUS
  <2>1. in_count + (k + 1) <= MsgLen(m) /\ in_count + (k + 1) = in_count + k + 1
    BY <1>1, <1>3
  <2> QED
    BY <1>5, <1>10, <2>1
<1>12. rest # <<>> /\ in_count + k = MsgLen(m) => rest[1][2] = 1
  <2> SUFFICES ASSUME rest # <<>>, in_count + k = MsgLen(m)
               PROVE  rest[1][2] = 1
    OBVIOUS
  <2>1. AtEnd(wire[k]) /\ k < Len(wire)
    BY <1>7, <1>10 DEF AtEnd, n
  <2> QED
    BY <1>1, <1>10, <2>1 DEF StreamInv, WireInv, n
<1>13. IF out_count > 0 THEN wire[n] = <<Head(out), out_count>> ELSE gone \/ AtEnd(wire[n])
  BY <1>1 DEF StreamInv, LastByteInv, n
<1>14. rest = <<>> =>
         \/ gone
         \/ in_count + k < MsgLen(m) /\ out_count = in_count + k /\ Head(out) = m
         \/ in_count + k = MsgLen(m) /\ out_count = 0
  <2> SUFFICES ASSUME rest = <<>>, ~gone
               PROVE  \/ in_count + k < MsgLen(m) /\ out_count = in_count + k /\ Head(out) = m
                      \/ in_count + k = MsgLen(m) /\ out_count = 0
    OBVIOUS
  <2>1. wire[n] = <<m, in_count + k>>
    BY <1>1, <1>4, <1>7
  <2>2. CASE out_count > 0
    <3>1. Head(out) = m /\ out_count = in_count + k
      BY <1>13, <2>1, <2>2
    <3>2. out_count < MsgLen(m)
      BY <1>1, <2>2, <3>1 DEF StreamInv, SenderInv
    <3> QED
      BY <3>1, <3>2
  <2>3. CASE out_count = 0
    BY <1>13, <2>1, <2>3 DEF AtEnd
  <2> QED
    BY <1>1, <2>2, <2>3
<1>15. \A i \in 1..(n - k) : rest[i][2] <= MsgLen(rest[i][1])
  <2> SUFFICES ASSUME NEW i \in 1..(n - k)
               PROVE  rest[i][2] <= MsgLen(rest[i][1])
    OBVIOUS
  <2>1. i + k \in 1..n
    BY <1>1
  <2> QED
    BY <1>4, <2>1 DEF StreamInv, WireInv, n
<1> QED
  BY <1>1, <1>2, <1>4, <1>8, <1>9, <1>10, <1>11, <1>12, <1>13, <1>14, <1>15 DEF m, rest

LEMMA ReadHeaderKeepsStream ==
    ASSUME StreamInv, ReadHeader, UNCHANGED <<workload, gone>>
    PROVE  StreamInv'
<1> DEFINE m == wire[1][1]
<1>1. PICK k \in 1..Min({HeaderSize - in_count, Len(wire)}) :
         /\ in_count'  = in_count + k
         /\ in_header' = in_header \o Upto(k, wire)
         /\ wire'      = After(k, wire)
         /\ in_len'    = IF in_count + k = HeaderSize
                         THEN MsgLen(in_header'[1][1]) ELSE in_len
  BY DEF ReadHeader
<1>2. /\ UNCHANGED <<out, out_count, in_content, workload, gone>>
  BY DEF ReadHeader, sender
<1>3. /\ wire \in Seq(Byte) /\ Len(wire) \in Nat /\ in_header \in Seq(Byte)
      /\ in_count \in Nat /\ in_count < HeaderSize /\ HeaderSize \in Nat
  BY SizesAssumption DEF StreamInv, TypeInv, ReadHeader
<1>4. k \in Nat /\ k > 0 /\ in_count + k <= HeaderSize /\ k \in 1..Len(wire)
  <2>1. HeaderSize - in_count \in Int /\ Len(wire) \in Int
    BY <1>3
  <2>2. k \in Nat /\ k > 0 /\ k <= HeaderSize - in_count /\ k <= Len(wire)
    BY <1>1, <2>1, UpToMin, Zenon
  <2> QED
    BY <1>3, <2>2
<1>5. /\ m \in Texts /\ MsgLen(m) \in Nat /\ in_count + k < MsgLen(m)
  <2>1. m \in Texts
    BY <1>3, <1>4, ByteOnWire DEF StreamInv
  <2> QED
    BY <1>3, <1>4, <2>1, Lengths
<1>6. /\ in_count > 0 => m = Current
      /\ \A i \in 1..Len(wire'), j \in 1..Len(wire') :
           i <= j /\ wire'[i][2] + (j - i) <= MsgLen(wire'[i][1])
              => wire'[j] = Ahead(wire'[i], j - i)
      /\ \A i \in 1..Len(wire') : AtEnd(wire'[i]) /\ i < Len(wire') => wire'[i + 1][2] = 1
      /\ \A i \in 1..Len(wire') : wire'[i][2] <= MsgLen(wire'[i][1])
      /\ wire' # <<>> => wire'[1] = <<m, in_count + k + 1>>
      /\ wire' # <<>> => IF out_count > 0 THEN wire'[Len(wire')] = <<Head(out), out_count>>
                                          ELSE gone \/ AtEnd(wire'[Len(wire')])
      /\ wire' = <<>> => gone \/ (out_count = in_count + k /\ Head(out) = m)
  <2>1. in_count + k <= MsgLen(m) /\ in_count + k # MsgLen(m)
    BY <1>3, <1>4, <1>5
  <2> QED
    BY <1>1, <1>4, <1>5, <2>1, AfterRead
<1>7. /\ in_header' \in Seq(Byte) /\ in_header' # <<>> /\ in_header'[1][1] = m
  <2>1. Upto(k, wire) \in Seq(Byte) /\ Len(Upto(k, wire)) = k /\ Upto(k, wire)[1] = wire[1]
    BY <1>3, <1>4, RestType
  <2>2. CASE in_count = 0
    <3>1. in_header = <<>>
      BY <2>2 DEF StreamInv, ReceiverInv
    <3>2. in_header' = Upto(k, wire)
      BY <1>1, <2>1, <3>1
    <3> QED
      BY <1>4, <2>1, <3>2
  <2>3. CASE in_count > 0
    <3>1. in_header # <<>> /\ in_header[1][1] = m
      BY <1>6, <2>3 DEF StreamInv, ReceiverInv, Current
    <3> QED
      BY <1>1, <1>3, <2>1, <3>1
  <2> QED
    BY <1>3, <2>2, <2>3
<1>8. wire' \in Seq(Byte) /\ in_count' = in_count + k
  BY <1>1, <1>3, <1>4, RestType
<1>9. in_len' \in Int /\ (in_count' >= HeaderSize => in_len' = MsgLen(m))
  <2>1. in_len \in Int
    BY DEF StreamInv, TypeInv
  <2>2. CASE in_count + k = HeaderSize
    BY <1>1, <1>5, <1>7, <2>2
  <2>3. CASE in_count + k # HeaderSize
    BY <1>1, <1>3, <1>4, <2>1, <2>3
  <2> QED
    BY <2>2, <2>3
<1> HIDE DEF m
<1>10. TypeInv'
  BY <1>2, <1>3, <1>4, <1>7, <1>8, <1>9 DEF StreamInv, TypeInv, Byte
<1>11. SenderInv'
  BY <1>2 DEF StreamInv, SenderInv, MsgLen
<1>12. ReceiverInv'
  BY <1>3, <1>4, <1>5, <1>7, <1>8, <1>9 DEF ReceiverInv, Current, MsgLen
<1>13. WireInv'
  BY <1>6 DEF WireInv, Ahead, AtEnd, MsgLen
<1>14. FirstByteInv'
  BY <1>6, <1>7, <1>8 DEF FirstByteInv, Current
<1>15. LastByteInv'
  BY <1>2, <1>6 DEF LastByteInv, AtEnd, MsgLen
<1>16. EmptyWireInv'
  BY <1>2, <1>6, <1>7, <1>8 DEF EmptyWireInv, Current
<1> QED
  BY <1>10, <1>11, <1>12, <1>13, <1>14, <1>15, <1>16 DEF StreamInv

LEMMA ReadRestKeepsStream ==
    ASSUME StreamInv, NEW t, ReadRest(t), UNCHANGED <<workload, gone>>
    PROVE  StreamInv'
<1> DEFINE m   == wire[1][1]
           len == Min({BufferSize, in_len - in_count})
<1>1. /\ wire \in Seq(Byte) /\ Len(wire) \in Nat /\ in_header \in Seq(Byte)
      /\ in_count \in Nat /\ in_count >= HeaderSize /\ HeaderSize \in Nat /\ HeaderSize > 0
      /\ BufferSize \in Nat /\ in_len \in Int
  BY SizesAssumption DEF StreamInv, TypeInv, ReadRest
<1>2. PICK k \in 1..Min({len, Len(wire)}) :
         /\ wire' = After(k, wire)
         /\ IF in_count + k = in_len
            THEN FreshMsg
            ELSE in_count' = in_count + k /\ UNCHANGED <<in_len, in_header>>
  BY DEF ReadRest, Transmitted
<1>3. UNCHANGED <<out, out_count, workload, gone>>
  BY DEF ReadRest, sender
<1>4. k \in 1..Len(wire) /\ in_count + k <= in_len
  <2>1. BufferSize \in Int /\ in_len - in_count \in Int
    BY <1>1
  <2>2. len \in Int /\ len <= in_len - in_count
    BY <2>1, MinOfTwo, Zenon
  <2>3. Len(wire) \in Int
    BY <1>1
  <2>4. k \in Nat /\ k > 0 /\ k <= len /\ k <= Len(wire)
    BY <1>2, <2>2, <2>3, UpToMin, Zenon
  <2> HIDE DEF len
  <2> QED
    BY <1>1, <2>2, <2>4
<1>5. m \in Texts /\ m = Current /\ in_len = MsgLen(m) /\ in_header # <<>> /\ MsgLen(m) \in Nat
  <2>1. in_count > 0 /\ wire # <<>>
    BY <1>1, <1>4
  <2>2. m = Current /\ in_len = MsgLen(Current) /\ in_header # <<>>
    BY <1>1, <2>1 DEF StreamInv, FirstByteInv, ReceiverInv
  <2>3. m \in Texts
    BY <2>1, <2>2, MessageReceived DEF StreamInv
  <2> QED
    BY <2>2, <2>3, Lengths
<1>6. /\ \A i \in 1..Len(wire'), j \in 1..Len(wire') :
           i <= j /\ wire'[i][2] + (j - i) <= MsgLen(wire'[i][1])
              => wire'[j] = Ahead(wire'[i], j - i)
      /\ \A i \in 1..Len(wire') : AtEnd(wire'[i]) /\ i < Len(wire') => wire'[i + 1][2] = 1
      /\ \A i \in 1..Len(wire') : wire'[i][2] <= MsgLen(wire'[i][1])
      /\ wire' # <<>> /\ in_count + k < MsgLen(m) => wire'[1] = <<m, in_count + k + 1>>
      /\ wire' # <<>> /\ in_count + k = MsgLen(m) => wire'[1][2] = 1
      /\ wire' # <<>> => IF out_count > 0 THEN wire'[Len(wire')] = <<Head(out), out_count>>
                                          ELSE gone \/ AtEnd(wire'[Len(wire')])
      /\ wire' = <<>> => \/ gone
                         \/ in_count + k < MsgLen(m) /\ out_count = in_count + k /\ Head(out) = m
                         \/ in_count + k = MsgLen(m) /\ out_count = 0
  BY <1>1, <1>2, <1>4, <1>5, AfterRead
<1>7. wire' \in Seq(Byte)
  BY <1>1, <1>2, <1>4, RestType
<1>8. /\ WireInv' /\ SenderInv' /\ LastByteInv'
  <2>1. WireInv'
    BY <1>6 DEF WireInv, Ahead, AtEnd, MsgLen
  <2>2. SenderInv'
    BY <1>3 DEF StreamInv, SenderInv, MsgLen
  <2>3. LastByteInv'
    BY <1>3, <1>6 DEF LastByteInv, AtEnd, MsgLen
  <2> QED
    BY <2>1, <2>2, <2>3
<1> HIDE DEF m, len
<1>9. CASE in_count + k = MsgLen(m)
  <2>1. in_len' = -1 /\ in_count' = 0 /\ in_header' = <<>>
    BY <1>2, <1>5, <1>9 DEF FreshMsg
  <2>2. TypeInv'
    BY <1>3, <1>7, <2>1 DEF StreamInv, TypeInv, Byte
  <2>3. ReceiverInv'
    BY <1>1, <2>1 DEF ReceiverInv, MsgLen
  <2>4. FirstByteInv'
    BY <1>6, <1>9, <2>1 DEF FirstByteInv
  <2>5. EmptyWireInv'
    BY <1>3, <1>5, <1>6, <1>9, <2>1 DEF EmptyWireInv
  <2> QED
    BY <1>8, <2>2, <2>3, <2>4, <2>5 DEF StreamInv
<1>10. CASE in_count + k # MsgLen(m)
  <2>1. in_len' = in_len /\ in_header' = in_header /\ in_count' = in_count + k
    BY <1>2, <1>5, <1>10
  <2>2. in_count + k < MsgLen(m) /\ in_count + k \in Nat
    BY <1>1, <1>4, <1>5, <1>10
  <2>3. TypeInv'
    BY <1>3, <1>7, <2>1, <2>2 DEF StreamInv, TypeInv, Byte
  <2>4. ReceiverInv'
    BY <1>1, <1>4, <1>5, <2>1, <2>2 DEF ReceiverInv, Current, MsgLen
  <2>5. FirstByteInv'
    BY <1>5, <1>6, <2>1, <2>2 DEF FirstByteInv, Current
  <2>6. EmptyWireInv'
    BY <1>3, <1>5, <1>6, <2>1, <2>2 DEF EmptyWireInv, Current
  <2> QED
    BY <1>8, <2>3, <2>4, <2>5, <2>6 DEF StreamInv
<1> QED
  BY <1>9, <1>10

----------------------------------------------------------------------------
(* The steps of the session *)

LEMMA StreamUnchanged ==
    ASSUME StreamInv, UNCHANGED <<connection, workload, gone>>
    PROVE  StreamInv'
BY DEF StreamInv, TypeInv, SenderInv, ReceiverInv, WireInv, FirstByteInv, LastByteInv,
       EmptyWireInv, Current, Ahead, AtEnd, MsgLen, Byte, connection, sender, receiver

LEMMA ClientSendsKeepsStream ==
    ASSUME StreamInv, ClientSends
    PROVE  StreamInv'
<1>1. /\ out = <<>> /\ out_count = 0 /\ out_count' = 0 /\ ~gone /\ ~gone'
      /\ UNCHANGED <<wire, in_len, in_count, in_header, workload>>
  BY DEF ClientSends, StreamInv, SenderInv, receiver
<1>2. PICK m \in Workloads[workload][sent + 1] :
        out' \in (IF m[1] \in {"ADD", "RUN"}
                  THEN {<<m, text, Go>> : text \in {Good, Bad}} ELSE {<<m>>})
  BY DEF ClientSends
<1>3. m \in Texts
  <2>1. Workloads[workload] \in Seq(SUBSET Texts)
    BY BoundsAssumption DEF StreamInv, TypeInv
  <2>2. sent + 1 \in DOMAIN Workloads[workload]
    BY DEF ClientSends
  <2>3. Workloads[workload][sent + 1] \in SUBSET Texts
    BY <2>1, <2>2
  <2> QED
    BY <1>2, <2>3
<1>4. Go \in Texts /\ Good \in Texts /\ Bad \in Texts
  BY BlocksAssumption
<1>5. out' \in Seq(Texts) /\ out' # <<>>
  <2>1. CASE m[1] \in {"ADD", "RUN"}
    <3>1. PICK text \in {Good, Bad} : out' = <<m, text, Go>>
      BY <1>2, <2>1
    <3> QED
      BY <1>3, <1>4, <3>1
  <2>2. CASE m[1] \notin {"ADD", "RUN"}
    <3>1. out' = <<m>>
      BY <1>2, <2>2
    <3> QED
      BY <1>3, <3>1
  <2> QED
    BY <2>1, <2>2
<1>6. MsgLen(Head(out')) > 0
  <2>1. Head(out') \in Texts
    BY <1>5
  <2> QED
    BY <2>1, Lengths
<1>7. TypeInv'
  BY <1>1, <1>5 DEF StreamInv, TypeInv, Byte
<1>8. SenderInv'
  BY <1>1, <1>5, <1>6 DEF SenderInv, MsgLen
<1>9. ReceiverInv' /\ WireInv' /\ FirstByteInv'
  BY <1>1 DEF StreamInv, ReceiverInv, WireInv, FirstByteInv, Current, Ahead, AtEnd, MsgLen
<1>10. LastByteInv'
  BY <1>1 DEF StreamInv, LastByteInv, AtEnd, MsgLen
<1>11. EmptyWireInv'
  BY <1>1 DEF StreamInv, EmptyWireInv, Current
<1> QED
  BY <1>7, <1>8, <1>9, <1>10, <1>11 DEF StreamInv

LEMMA ClientClosesKeepsStream ==
    ASSUME StreamInv, ClientCloses
    PROVE  StreamInv'
<1>1. /\ out' = <<>> /\ out_count' = 0 /\ gone'
      /\ UNCHANGED <<wire, in_len, in_count, in_header, workload>>
  BY DEF ClientCloses, receiver
<1>2. TypeInv'
  BY <1>1 DEF StreamInv, TypeInv, Byte
<1>3. SenderInv'
  BY <1>1 DEF SenderInv
<1>4. ReceiverInv' /\ WireInv' /\ FirstByteInv'
  BY <1>1 DEF StreamInv, ReceiverInv, WireInv, FirstByteInv, Current, Ahead, AtEnd, MsgLen
<1>5. LastByteInv' /\ EmptyWireInv'
  BY <1>1 DEF LastByteInv, EmptyWireInv
<1> QED
  BY <1>2, <1>3, <1>4, <1>5 DEF StreamInv

LEMMA StreamInit ==
    ASSUME Init
    PROVE  StreamInv
<1>1. /\ out = <<>> /\ out_count = 0 /\ wire = <<>> /\ in_len = -1 /\ in_count = 0
      /\ in_header = <<>> /\ gone = FALSE /\ workload \in DOMAIN Workloads
  BY DEF Init, ConnectionInit
<1>2. HeaderSize \in Nat \ {0}
  BY SizesAssumption
<1> QED
  BY <1>1, <1>2 DEF StreamInv, TypeInv, SenderInv, ReceiverInv, WireInv, FirstByteInv,
                    LastByteInv, EmptyWireInv

LEMMA StreamStep ==
    ASSUME StreamInv, [Next]_vars
    PROVE  StreamInv'
<1> USE DEF client, session, job, runners
<1>1. CASE ClientSends
  BY <1>1, ClientSendsKeepsStream
<1>2. CASE ClientWrites
  BY <1>2, WriteKeepsStream DEF ClientWrites
<1>3. CASE ClientCloses
  BY <1>3, ClientClosesKeepsStream
<1>4. CASE ServerReadsHeader
  BY <1>4, ReadHeaderKeepsStream DEF ServerReadsHeader
<1>5. CASE ServerReadsRest
  <2>1. PICK t : ReadRest(t)
    BY <1>5 DEF ServerReadsRest
  <2>2. UNCHANGED <<workload, gone>>
    BY <1>5 DEF ServerReadsRest
  <2> QED
    BY <2>1, <2>2, ReadRestKeepsStream
<1>6. ASSUME \/ ServerLosesClient \/ AddCommand \/ LoadCommand \/ StageCommand
             \/ UnstageCommand \/ RemoveCommand \/ ReportCommand \/ QuitCommand
             \/ RunCommand \/ WaitForJob
      PROVE  UNCHANGED <<connection, workload, gone>>
  <2>1. CASE ServerLosesClient
    BY <2>1 DEF ServerLosesClient
  <2>2. CASE AddCommand
    BY <2>2 DEF AddCommand, RestUnchanged
  <2>3. CASE LoadCommand
    BY <2>3 DEF LoadCommand, RestUnchanged
  <2>4. CASE StageCommand
    BY <2>4 DEF StageCommand, RestUnchanged
  <2>5. CASE UnstageCommand
    BY <2>5 DEF UnstageCommand, RestUnchanged
  <2>6. CASE RemoveCommand
    BY <2>6 DEF RemoveCommand, RestUnchanged
  <2>7. CASE ReportCommand
    BY <2>7 DEF ReportCommand, RestUnchanged
  <2>8. CASE QuitCommand
    BY <2>8 DEF QuitCommand, RestUnchanged
  <2>9. CASE RunCommand
    BY <2>9 DEF RunCommand
  <2>10. CASE WaitForJob
    BY <2>10 DEF WaitForJob
  <2> QED
    BY <1>6, <2>1, <2>2, <2>3, <2>4, <2>5, <2>6, <2>7, <2>8, <2>9, <2>10
<1>7. ASSUME Job
      PROVE  UNCHANGED <<connection, workload, gone>>
  BY <1>7 DEF Job, JobStarts, ParseJob, TestTime, CreateRunner, ReadPid, Select, ReadLine,
              GetResult, EndOfRound, ReportJob, CleanupRunner, JobFinishes, Idle
<1>8. ASSUME \/ TimePasses \/ Over \/ \E r \in Runners : RunnerWorks(r) \/ RunnerEnds(r)
      PROVE  UNCHANGED <<connection, workload, gone>>
  BY <1>8 DEF TimePasses, Over, RunnerWorks, RunnerEnds, Idle, vars
<1>9. CASE UNCHANGED vars
  BY <1>9, StreamUnchanged DEF vars
<1> QED
  BY <1>1, <1>2, <1>3, <1>4, <1>5, <1>6, <1>7, <1>8, <1>9, StreamUnchanged
  DEF Next, Client, Session

LEMMA StreamMeansSync ==
    ASSUME StreamInv
    PROVE  InSync
<1>1. wire \in Seq(Byte) /\ Len(wire) \in Nat /\ in_count \in Nat
  BY DEF StreamInv, TypeInv
<1>2. wire # <<>> => wire[1][2] = in_count + 1
  BY DEF StreamInv, FirstByteInv
<1>3. ASSUME NEW i \in 1..(Len(wire) - 1)
      PROVE  \/ wire[i][1] = wire[i + 1][1] /\ wire[i + 1][2] = wire[i][2] + 1
             \/ wire[i][2] = MsgLen(wire[i][1]) /\ wire[i + 1][2] = 1
  <2>1. i \in 1..Len(wire) /\ i + 1 \in 1..Len(wire) /\ i < Len(wire) /\ i <= i + 1
        /\ (i + 1) - i = 1
    BY <1>1, <1>3
  <2>2. wire[i][1] \in Texts /\ wire[i][2] \in Nat /\ MsgLen(wire[i][1]) \in Nat
    BY <2>1, ByteOnWire, Lengths DEF StreamInv
  <2>3. CASE wire[i][2] + 1 <= MsgLen(wire[i][1])
    <3>1. wire[i + 1] = <<wire[i][1], wire[i][2] + 1>>
      BY <2>1, <2>3 DEF StreamInv, WireInv, Ahead
    <3> QED
      BY <3>1
  <2>4. CASE wire[i][2] = MsgLen(wire[i][1])
    BY <2>1, <2>4 DEF StreamInv, WireInv, AtEnd
  <2>5. wire[i][2] <= MsgLen(wire[i][1])
    BY <2>1 DEF StreamInv, WireInv
  <2> QED
    BY <2>2, <2>3, <2>4, <2>5
<1>4. wire = <<>> /\ out # <<>> => out_count = in_count
  BY DEF StreamInv, EmptyWireInv, SenderInv
<1>5. wire # <<>> /\ out_count > 0 => wire[Len(wire)] = <<Head(out), out_count>>
  BY DEF StreamInv, LastByteInv
<1> QED
  BY <1>2, <1>3, <1>4, <1>5 DEF InSync

(* Client and server agree where a message begins, however reads and       *)
(* writes are cut, whatever is sent and whenever the client leaves: no     *)
(* length that TCPMsgRead believes is taken from the middle of a text.     *)
THEOREM StreamInSync == Spec => []InSync
<1>1. Init => StreamInv
  BY StreamInit
<1>2. StreamInv /\ [Next]_vars => StreamInv'
  BY StreamStep
<1>3. StreamInv => InSync
  BY StreamMeansSync
<1> QED
  BY <1>1, <1>2, <1>3, PTL DEF Spec

----------------------------------------------------------------------------
(* The job and its runners *)

Failed == {"error", "sigpipe"}

JobInv ==
    /\ jpc \in {"none", "started", "parse", "loop", "start", "boot", "read", "report",
                "free", "done"} \cup Failed
    /\ pc # "wait" => jpc = "none"
    /\ next \in 1..(NumFilters + 1)
    /\ runner \in [Runners -> {"none", "boot", "search", "proving", "finished", "dead"}]

(* Runners start in the order of the filters, and one that is no longer in *)
(* the EPCtrlSet is dead.                                                  *)
ControlInv ==
    /\ procs \subseteq 1..(next - 1) /\ todo \subseteq procs
    /\ jpc # "read" => todo = {}
    /\ \A r \in Runners : r > next \/ (r = next /\ jpc # "boot") => runner[r] = "none"
    /\ \A r \in Runners : r < next => r \in procs \/ runner[r] = "dead"
    /\ jpc \in {"none", "started", "parse"} => next = 1 /\ procs = {}
    /\ jpc = "done" => procs = {}
    /\ jpc = "boot" => next <= NumFilters

RoomInv ==
    /\ Cardinality(procs) <= MaxCores
    /\ jpc = "boot" => Cardinality(procs) < MaxCores

(* A job that has failed is left alone until WaitForJob clears it away. *)
RunnerInv == JobInv /\ (jpc \notin Failed => ControlInv /\ RoomInv)

LEMMA FilterCount == NumFilters \in Nat /\ NumFilters > 0 /\ MaxCores \in Nat /\ MaxCores > 0
BY BoundsAssumption

LEMMA ProcsFinite ==
    ASSUME RunnerInv, jpc \notin Failed
    PROVE  procs \subseteq Runners /\ IsFiniteSet(procs) /\ Cardinality(procs) \in Nat
<1>1. procs \subseteq Runners
  BY FilterCount DEF RunnerInv, JobInv, ControlInv, Runners
<1>2. IsFiniteSet(Runners)
  BY FilterCount, FS_Interval DEF Runners
<1>3. IsFiniteSet(procs)
  BY <1>1, <1>2, FS_Subset
<1> QED
  BY <1>1, <1>3, FS_CardinalityType

LEMMA RunnersUnchanged ==
    ASSUME RunnerInv, UNCHANGED <<jpc, next, procs, todo, runner>>,
           pc' = "wait" \/ pc # "wait" \/ pc' = pc
    PROVE  RunnerInv'
<1>1. JobInv' /\ (jpc' \in Failed <=> jpc \in Failed)
  BY DEF RunnerInv, JobInv, Failed
<1>2. ASSUME jpc' \notin Failed
      PROVE  ControlInv' /\ RoomInv'
  <2>1. ControlInv /\ RoomInv
    BY <1>1, <1>2 DEF RunnerInv
  <2> QED
    BY <2>1 DEF ControlInv, RoomInv
<1> QED
  BY <1>1, <1>2 DEF RunnerInv, Failed

(* The session touches the job only when it starts one and when it has     *)
(* waited for its end.                                                     *)
LEMMA SessionKeepsControl ==
    ASSUME RunnerInv, Session
    PROVE  RunnerInv'
<1> USE DEF job, runners
<1>1. CASE RunCommand
  <2>1. pc = "exec" /\ jpc' = "started" /\ pc' = "wait" /\ UNCHANGED <<next, procs, todo, runner>>
    BY <1>1 DEF RunCommand, Exec
  <2>2. jpc = "none"
    BY <2>1 DEF RunnerInv, JobInv
  <2>3. JobInv'
    BY <2>1 DEF RunnerInv, JobInv
  <2>4. ControlInv /\ RoomInv
    BY <2>2 DEF RunnerInv, Failed
  <2>5. ControlInv' /\ RoomInv'
    BY <2>1, <2>2, <2>4 DEF ControlInv, RoomInv
  <2> QED
    BY <2>3, <2>5 DEF RunnerInv
<1>2. CASE WaitForJob
  <2>1. /\ jpc' = "none" /\ next' = 1 /\ procs' = {} /\ todo' = {}
        /\ runner' = [r \in Runners |-> "none"]
    BY <1>2 DEF WaitForJob
  <2>2. JobInv' /\ ControlInv'
    BY <2>1, FilterCount DEF JobInv, ControlInv, Runners
  <2>3. RoomInv'
    BY <2>1, FilterCount, FS_EmptySet DEF RoomInv
  <2> QED
    BY <2>2, <2>3 DEF RunnerInv
<1>3. ASSUME \/ ServerReadsHeader \/ ServerReadsRest \/ ServerLosesClient \/ AddCommand
             \/ LoadCommand \/ StageCommand \/ UnstageCommand \/ RemoveCommand
             \/ ReportCommand \/ QuitCommand
      PROVE  pc # "wait" /\ UNCHANGED <<jpc, next, procs, todo, runner>>
  <2>1. CASE ServerReadsHeader \/ ServerReadsRest \/ ServerLosesClient
    BY <2>1 DEF ServerReadsHeader, ServerReadsRest, ServerLosesClient, Reading
  <2>2. CASE AddCommand
    BY <2>2 DEF AddCommand, Exec, RestUnchanged
  <2>3. CASE LoadCommand
    BY <2>3 DEF LoadCommand, Exec, RestUnchanged
  <2>4. CASE StageCommand
    BY <2>4 DEF StageCommand, Exec, RestUnchanged
  <2>5. CASE UnstageCommand
    BY <2>5 DEF UnstageCommand, Exec, RestUnchanged
  <2>6. CASE RemoveCommand
    BY <2>6 DEF RemoveCommand, Exec, RestUnchanged
  <2>7. CASE ReportCommand
    BY <2>7 DEF ReportCommand, Exec, RestUnchanged
  <2>8. CASE QuitCommand
    BY <2>8 DEF QuitCommand, Exec, RestUnchanged
  <2> QED
    BY <1>3, <2>1, <2>2, <2>3, <2>4, <2>5, <2>6, <2>7, <2>8
<1> QED
  BY <1>1, <1>2, <1>3, RunnersUnchanged DEF Session

(* A job step that moves on without touching the runners or their set. *)
LEMMA JobMovesOn ==
    ASSUME RunnerInv, jpc \notin Failed \cup {"none"},
           pc' = pc, UNCHANGED <<next, procs, runner>>, todo' \subseteq procs,
           jpc # "boot" /\ jpc' # "boot",
           jpc' \in {"parse", "loop", "start", "read", "report", "free", "done"} \cup Failed,
           jpc' = "parse" => jpc = "started", jpc' # "read" => todo' = {},
           jpc' = "done" => procs = {}
    PROVE  RunnerInv'
<1>1. ControlInv /\ RoomInv /\ JobInv
  BY DEF RunnerInv
<1>2. JobInv'
  BY <1>1 DEF JobInv
<1>3. ControlInv'
  BY <1>1 DEF ControlInv, Failed
<1>4. RoomInv'
  BY <1>1 DEF RoomInv
<1> QED
  BY <1>2, <1>3, <1>4 DEF RunnerInv

(* A job step that takes a dead runner out of the set. *)
LEMMA DeadRunnerLeaves ==
    ASSUME RunnerInv, jpc \in {"read", "free"}, NEW r \in procs, runner[r] = "dead",
           procs' = procs \ {r}, todo' \subseteq todo \ {r},
           UNCHANGED <<pc, jpc, next, runner>>
    PROVE  RunnerInv'
<1>1. ControlInv /\ RoomInv /\ JobInv /\ jpc \notin Failed
  BY DEF RunnerInv, Failed
<1>2. JobInv'
  BY <1>1 DEF JobInv
<1>3. ControlInv'
  <2>1. procs' \subseteq 1..(next' - 1) /\ todo' \subseteq procs'
    BY <1>1 DEF ControlInv
  <2>2. \A x \in Runners : x < next' => x \in procs' \/ runner'[x] = "dead"
    BY <1>1 DEF ControlInv
  <2>3. jpc' # "read" => todo' = {}
    BY <1>1 DEF ControlInv
  <2>4. \A x \in Runners : x > next' \/ (x = next' /\ jpc' # "boot") => runner'[x] = "none"
    BY <1>1 DEF ControlInv
  <2> QED
    BY <2>1, <2>2, <2>3, <2>4 DEF ControlInv
<1>4. RoomInv'
  <2>1. IsFiniteSet(procs) /\ Cardinality(procs) \in Nat
    BY <1>1, ProcsFinite
  <2>2. Cardinality(procs \ {r}) = Cardinality(procs) - 1
    BY <2>1, FS_RemoveElement
  <2> QED
    BY <1>1, <2>1, <2>2, FilterCount DEF RoomInv
<1> QED
  BY <1>1, <1>2, <1>3, <1>4 DEF RunnerInv

LEMMA JobKeepsControl ==
    ASSUME RunnerInv, Job
    PROVE  RunnerInv'
<1> USE DEF runners, Idle, session
<1>1. CASE JobStarts
  BY <1>1, JobMovesOn DEF JobStarts, JobSends, Failed, RunnerInv, ControlInv
<1>2. CASE ParseJob
  BY <1>2, JobMovesOn DEF ParseJob, Failed, RunnerInv, ControlInv
<1>3. CASE TestTime
  BY <1>3, JobMovesOn DEF TestTime, Failed, RunnerInv, ControlInv
<1>4. CASE CreateRunner
  <2>1. /\ jpc = "start" /\ jpc' = "boot" /\ runner' = [runner EXCEPT ![next] = "boot"]
        /\ next <= NumFilters /\ Cardinality(procs) < MaxCores
        /\ UNCHANGED <<pc, next, procs, todo>>
    BY <1>4 DEF CreateRunner, CanCreate
  <2>2. ControlInv /\ RoomInv /\ JobInv
    BY <2>1 DEF RunnerInv, Failed
  <2>3. next \in Runners
    BY <2>1, <2>2, FilterCount DEF JobInv, Runners
  <2>4. JobInv'
    BY <2>1, <2>2, <2>3 DEF JobInv
  <2>5. ControlInv'
    BY <2>1, <2>2, <2>3, FilterCount DEF ControlInv, JobInv, Runners
  <2>6. RoomInv'
    BY <2>1, <2>2 DEF RoomInv
  <2> QED
    BY <2>4, <2>5, <2>6 DEF RunnerInv
<1>5. CASE ReadPid
  <2>1. jpc = "boot" /\ jpc \notin Failed /\ UNCHANGED <<pc, todo, runner>>
    BY <1>5 DEF ReadPid, GetLine, Failed
  <2>2. ControlInv /\ RoomInv /\ JobInv
    BY <2>1 DEF RunnerInv, Failed
  <2>3. CASE jpc' = "error"
    <3>1. UNCHANGED <<next>>
      BY <1>5, <2>3 DEF ReadPid
    <3>2. JobInv'
      BY <2>1, <2>2, <2>3, <3>1 DEF JobInv, Failed
    <3> QED
      BY <2>3, <3>2 DEF RunnerInv, Failed
  <2>4. CASE jpc' = "start" /\ procs' = procs \cup {next} /\ next' = next + 1
    <3>1. next \in 1..NumFilters
      BY <2>1, <2>2, FilterCount DEF JobInv, ControlInv
    <3>2. JobInv'
      BY <2>1, <2>2, <2>4, <3>1, FilterCount DEF JobInv
    <3>3. ControlInv'
      BY <2>1, <2>2, <2>4, <3>1, FilterCount DEF ControlInv, Runners
    <3>4. RoomInv'
      <4>1. IsFiniteSet(procs) /\ Cardinality(procs) \in Nat
        BY <2>1, ProcsFinite
      <4>2. Cardinality(procs \cup {next}) <= Cardinality(procs) + 1
        BY <4>1, FS_AddElement
      <4>3. Cardinality(procs \cup {next}) \in Nat
        BY <4>1, FS_AddElement, FS_CardinalityType
      <4> QED
        BY <2>1, <2>2, <2>4, <4>1, <4>2, <4>3, FilterCount DEF RoomInv
    <3> QED
      BY <3>2, <3>3, <3>4 DEF RunnerInv
  <2> QED
    BY <1>5, <2>3, <2>4 DEF ReadPid
<1>6. CASE Select
  BY <1>6, JobMovesOn DEF Select, Failed
<1>7. CASE \E r \in Runners : ReadLine(r)
  <2>1. PICK r \in Runners : ReadLine(r)
    BY <1>7
  <2>2. /\ jpc = "read" /\ jpc' = "read" /\ todo' \subseteq todo
        /\ UNCHANGED <<pc, next, procs, runner>>
    BY <2>1 DEF ReadLine, GetLine
  <2>3. todo' \subseteq procs
    BY <2>2 DEF RunnerInv, ControlInv, Failed
  <2> QED
    BY <2>2, <2>3, JobMovesOn DEF Failed
<1>8. CASE \E r \in Runners : GetResult(r)
  <2>1. PICK r \in Runners : GetResult(r)
    BY <1>8
  <2>2. /\ jpc = "read" /\ r \in todo /\ runner[r] = "dead" /\ todo' = todo \ {r}
        /\ procs' = procs \/ procs' = procs \ {r}
        /\ UNCHANGED <<pc, jpc, next, runner>>
    BY <2>1 DEF GetResult, Eof
  <2>3. todo \subseteq procs
    BY <2>2 DEF RunnerInv, ControlInv, Failed
  <2>4. CASE procs' = procs
    BY <2>2, <2>3, <2>4, JobMovesOn DEF Failed
  <2>5. CASE procs' = procs \ {r}
    BY <2>2, <2>3, <2>5, DeadRunnerLeaves
  <2> QED
    BY <2>2, <2>4, <2>5
<1>9. CASE EndOfRound
  BY <1>9, JobMovesOn DEF EndOfRound, Failed, RunnerInv, ControlInv
<1>10. CASE ReportJob
  BY <1>10, JobMovesOn DEF ReportJob, JobSends, Failed, RunnerInv, ControlInv
<1>11. CASE \E r \in Runners : CleanupRunner(r)
  <2>1. PICK r \in Runners : CleanupRunner(r)
    BY <1>11
  <2>2. /\ jpc = "free" /\ r \in procs /\ runner[r] = "dead" /\ procs' = procs \ {r}
        /\ UNCHANGED <<pc, jpc, next, todo, runner>>
    BY <2>1 DEF CleanupRunner
  <2> QED
    <3>1. todo = {}
      BY <2>2 DEF RunnerInv, ControlInv, Failed
    <3> QED
      BY <2>2, <3>1, DeadRunnerLeaves
<1>12. CASE JobFinishes
  BY <1>12, JobMovesOn DEF JobFinishes, JobSends, Failed, RunnerInv, ControlInv
<1> QED
  BY <1>1, <1>2, <1>3, <1>4, <1>5, <1>6, <1>7, <1>8, <1>9, <1>10, <1>11, <1>12 DEF Job

LEMMA RunnerKeepsControl ==
    ASSUME RunnerInv, NEW r \in Runners, RunnerWorks(r) \/ RunnerEnds(r)
    PROVE  RunnerInv'
<1>1. /\ runner[r] \notin {"none", "dead"}
      /\ \E to \in {"search", "proving", "finished", "dead"} :
           runner' = [runner EXCEPT ![r] = to]
      /\ UNCHANGED <<pc, jpc, next, procs, todo>>
  BY DEF RunnerWorks, RunnerEnds, Prints, Idle, session, job
<1>2. JobInv'
  BY <1>1 DEF RunnerInv, JobInv
<1>3. ASSUME jpc \notin Failed
      PROVE  ControlInv' /\ RoomInv'
  BY <1>1, <1>3 DEF RunnerInv, JobInv, ControlInv, RoomInv
<1> QED
  BY <1>1, <1>2, <1>3 DEF RunnerInv, Failed

LEMMA ControlInit ==
    ASSUME Init
    PROVE  RunnerInv
<1>1. /\ pc = "recv" /\ jpc = "none" /\ next = 1 /\ procs = {} /\ todo = {}
      /\ runner = [r \in Runners |-> "none"]
  BY DEF Init
<1> QED
  BY <1>1, FilterCount, FS_EmptySet DEF RunnerInv, JobInv, ControlInv, RoomInv, Runners

LEMMA ControlStep ==
    ASSUME RunnerInv, [Next]_vars
    PROVE  RunnerInv'
<1>1. CASE Client
  <2>1. UNCHANGED <<pc, jpc, next, procs, todo, runner>>
    BY <1>1 DEF Client, ClientSends, ClientWrites, ClientCloses, session, job, runners
  <2> QED
    BY <2>1, RunnersUnchanged
<1>2. CASE Session
  BY <1>2, SessionKeepsControl
<1>3. CASE Job
  BY <1>3, JobKeepsControl
<1>4. CASE TimePasses \/ Over \/ UNCHANGED vars
  <2>1. UNCHANGED <<pc, jpc, next, procs, todo, runner>>
    BY <1>4 DEF TimePasses, Over, Idle, vars, session, job, runners
  <2> QED
    BY <2>1, RunnersUnchanged
<1>5. CASE \E r \in Runners : RunnerWorks(r) \/ RunnerEnds(r)
  BY <1>5, RunnerKeepsControl
<1> QED
  BY <1>1, <1>2, <1>3, <1>4, <1>5 DEF Next

LEMMA ControlMeansControlled ==
    ASSUME RunnerInv
    PROVE  RunnersAreControlled
<1> SUFFICES ASSUME jpc \notin Failed
             PROVE  LET active == {r \in Runners : runner[r] \notin {"none", "dead"}} IN
                    /\ Cardinality(active) <= MaxCores
                    /\ active \subseteq procs \cup (IF jpc = "boot" THEN {next} ELSE {})
                    /\ jpc = "done" => active = {}
  BY DEF RunnersAreControlled, Failed
<1> DEFINE active  == {r \in Runners : runner[r] \notin {"none", "dead"}}
           allowed == procs \cup (IF jpc = "boot" THEN {next} ELSE {})
<1>1. ControlInv /\ RoomInv /\ JobInv
  BY DEF RunnerInv
<1>2. active \subseteq allowed
  <2> SUFFICES ASSUME NEW r \in Runners, runner[r] \notin {"none", "dead"}
               PROVE  r \in allowed
    OBVIOUS
  <2>1. ~ (r > next \/ (r = next /\ jpc # "boot"))
    BY <1>1 DEF ControlInv
  <2>2. r < next => r \in procs
    BY <1>1 DEF ControlInv
  <2>3. r \in Int /\ next \in Int
    BY <1>1, FilterCount DEF JobInv, Runners
  <2> QED
    BY <2>1, <2>2, <2>3
<1>3. IsFiniteSet(procs) /\ Cardinality(procs) \in Nat
  BY ProcsFinite
<1>4. IsFiniteSet(allowed) /\ Cardinality(allowed) <= MaxCores
  <2>1. CASE jpc = "boot"
    <3>1. allowed = procs \cup {next}
      BY <2>1
    <3>2. Cardinality(procs) + 1 <= MaxCores
      BY <1>1, <1>3, <2>1, FilterCount DEF RoomInv
    <3>3. IsFiniteSet(procs \cup {next}) /\ Cardinality(procs \cup {next}) <= Cardinality(procs) + 1
      <4>1. /\ IsFiniteSet(procs \cup {next})
            /\ Cardinality(procs \cup {next})
                 = IF next \in procs THEN Cardinality(procs) ELSE Cardinality(procs) + 1
        BY <1>3, FS_AddElement
      <4> QED
        BY <1>3, <4>1
    <3>4. Cardinality(procs \cup {next}) \in Nat
      BY <3>3, FS_CardinalityType
    <3> QED
      BY <1>3, <3>1, <3>2, <3>3, <3>4, FilterCount
  <2>2. CASE jpc # "boot"
    <3>1. allowed = procs
      BY <2>2
    <3> QED
      BY <1>1, <1>3, <3>1 DEF RoomInv
  <2> QED
    BY <2>1, <2>2
<1>5. Cardinality(active) <= MaxCores
  <2> HIDE DEF active, allowed
  <2>1. IsFiniteSet(active) /\ Cardinality(active) <= Cardinality(allowed)
    BY <1>2, <1>4, FS_Subset
  <2>2. Cardinality(active) \in Nat /\ Cardinality(allowed) \in Nat
    BY <1>4, <2>1, FS_CardinalityType
  <2> QED
    BY <1>4, <2>1, <2>2, FilterCount
<1>6. jpc = "done" => active = {}
  <2> SUFFICES ASSUME jpc = "done"
               PROVE  active = {}
    OBVIOUS
  <2>1. allowed = {}
    BY <1>1 DEF ControlInv
  <2> QED
    BY <1>2, <2>1
<1> QED
  BY <1>2, <1>5, <1>6

(* For any number of filters and cores: there are never more runners at    *)
(* work than MAX_CORES, BatchProcessProblem has all of them under control, *)
(* and none is at work when the job has ended in order.                    *)
THEOREM RunnersControlled == Spec => []RunnersAreControlled
<1>1. Init => RunnerInv
  BY ControlInit
<1>2. RunnerInv /\ [Next]_vars => RunnerInv'
  BY ControlStep
<1>3. RunnerInv => RunnersAreControlled
  BY ControlMeansControlled
<1> QED
  BY <1>1, <1>2, <1>3, PTL DEF Spec

----------------------------------------------------------------------------
(* What the client is told *)

Replies == {"200", "201", "202", "203", "204", "205", "206", "401", "403", "404", "405", "406",
            "407", "408"}
Codes   == Replies \cup {"connected", "started", "solved", "gave_up", "finished"}

Verdicts == {"solved", "gave_up"}

(* A runner that is the answer has ended, nothing of its output is on the  *)
(* way, and a proof is in it.                                              *)
ResultInv ==
    /\ answers \in Seq(Codes)
    /\ DOMAIN output = Runners /\ DOMAIN pipe = Runners /\ DOMAIN stdio = Runners
    /\ answer # 0 => /\ answer \in Runners /\ runner[answer] = "dead"
                     /\ HasProof(answer) /\ pipe[answer] = <<>> /\ stdio[answer] = <<>>
                     /\ jpc \in {"read", "report", "free", "done"} \cup Failed
    /\ jpc = "report" /\ answer = 0 => late

(* An action that sends no verdict *)
NoVerdict == /\ answers' \in Seq(Codes)
             /\ \A v \in Verdicts : answers' # Append(answers, v)

LEMMA TellsNoVerdict ==
    ASSUME answers \in Seq(Codes), NEW c \in Codes \ Verdicts,
           answers' = Append(answers, c) \/ answers' = answers \/ answers' = <<>>
    PROVE  NoVerdict
<1>1. answers' \in Seq(Codes)
  <2>1. Append(answers, c) \in Seq(Codes) /\ <<>> \in Seq(Codes)
    OBVIOUS
  <2> QED
    BY <2>1
<1>2. ASSUME NEW v \in Verdicts
      PROVE  answers' # Append(answers, v)
  <2>1. v \in Codes /\ v # c
    BY DEF Verdicts, Codes
  <2>2. /\ Len(Append(answers, v)) = Len(answers) + 1
        /\ Append(answers, v)[Len(answers) + 1] = v
        /\ Append(answers, c)[Len(answers) + 1] = c
        /\ Len(answers) \in Nat
    BY <2>1
  <2>3. CASE answers' = Append(answers, c)
    BY <2>1, <2>2, <2>3
  <2>4. CASE answers' = answers
    BY <2>2, <2>4
  <2>5. CASE answers' = <<>>
    BY <2>2, <2>5
  <2> QED
    BY <2>3, <2>4, <2>5
<1> QED
  BY <1>1, <1>2 DEF NoVerdict

LEMMA ReplyIsNoVerdict ==
    ASSUME answers \in Seq(Codes), NEW c \in Replies, Reply(c)
    PROVE  NoVerdict
<1>1. c \in Codes \ Verdicts
  BY DEF Codes, Replies, Verdicts
<1>2. answers' = Append(answers, c) \/ answers' = answers
  BY DEF Reply
<1> QED
  BY <1>1, <1>2, TellsNoVerdict

LEMMA SilenceIsNoVerdict ==
    ASSUME answers \in Seq(Codes), answers' = answers \/ answers' = <<>>
    PROVE  NoVerdict
<1>1. "200" \in Codes \ Verdicts
  BY DEF Codes, Replies, Verdicts
<1> QED
  BY <1>1, TellsNoVerdict

LEMMA SessionTells ==
    ASSUME ResultInv, RunnerInv, Session
    PROVE  /\ NoVerdict
           /\ \/ UNCHANGED <<jpc, answer, late, runner, pipe, stdio, output>>
              \/ jpc = "none" /\ jpc' = "started" /\ UNCHANGED <<answer, late, runners>>
              \/ /\ jpc' = "none" /\ answer' = 0
                 /\ pipe' = NoLines /\ stdio' = NoLines /\ output' = NoLines
<1>0. answers \in Seq(Codes)
  BY DEF ResultInv
<1>1. CASE ServerReadsHeader \/ ServerReadsRest \/ ServerLosesClient
  BY <1>0, <1>1, SilenceIsNoVerdict
     DEF ServerReadsHeader, ServerReadsRest, ServerLosesClient, job, runners
<1>2. ASSUME NEW n, NEW ok \in Replies, AddSet(n, ok)
      PROVE  NoVerdict
  <2>1. "401" \in Replies
    BY DEF Replies
  <2> QED
    BY <1>0, <1>2, <2>1, ReplyIsNoVerdict DEF AddSet
<1>3. CASE AddCommand
  <2>1. "205" \in Replies
    BY DEF Replies
  <2> QED
    BY <1>0, <1>2, <1>3, <2>1, SilenceIsNoVerdict DEF AddCommand, RestUnchanged, job, runners
<1>4. CASE LoadCommand
  <2>1. {"206", "404", "408"} \subseteq Replies
    BY DEF Replies
  <2>2. Reply("408") \/ Reply("404") \/ AddSet(cmd[2], "206")
    BY <1>4 DEF LoadCommand
  <2>3. NoVerdict
    BY <1>0, <1>2, <2>1, <2>2, ReplyIsNoVerdict
  <2> QED
    BY <1>4, <2>3 DEF LoadCommand, RestUnchanged, job, runners
<1>5. CASE StageCommand
  <2>1. {"404", "405", "201"} \subseteq Replies
    BY DEF Replies
  <2>2. \E c \in {"404", "405", "201"} : Reply(c)
    BY <1>5 DEF StageCommand
  <2> QED
    BY <1>0, <1>5, <2>1, <2>2, ReplyIsNoVerdict DEF StageCommand, RestUnchanged, job, runners
<1>6. CASE UnstageCommand
  <2>1. {"404", "406", "202"} \subseteq Replies
    BY DEF Replies
  <2>2. \E c \in {"404", "406", "202"} : Reply(c)
    BY <1>6 DEF UnstageCommand
  <2> QED
    BY <1>0, <1>6, <2>1, <2>2, ReplyIsNoVerdict DEF UnstageCommand, RestUnchanged, job, runners
<1>7. CASE RemoveCommand
  <2>1. {"404", "403", "203"} \subseteq Replies
    BY DEF Replies
  <2>2. \E c \in {"404", "403", "203"} : Reply(c)
    BY <1>7 DEF RemoveCommand
  <2> QED
    BY <1>0, <1>7, <2>1, <2>2, ReplyIsNoVerdict DEF RemoveCommand, RestUnchanged, job, runners
<1>8. CASE ReportCommand
  <2>1. {"404", "204", "200", "407"} \subseteq Replies
    BY DEF Replies
  <2>2. \E c \in {"404", "204", "200", "407"} : Reply(c)
    BY <1>8 DEF ReportCommand
  <2> QED
    BY <1>0, <1>8, <2>1, <2>2, ReplyIsNoVerdict DEF ReportCommand, RestUnchanged, job, runners
<1>9. CASE QuitCommand
  BY <1>0, <1>9, SilenceIsNoVerdict DEF QuitCommand, RestUnchanged, job, runners
<1>10. CASE RunCommand
  <2>1. jpc = "none"
    BY <1>10 DEF RunCommand, Exec, RunnerInv, JobInv
  <2> QED
    BY <1>0, <1>10, <2>1, SilenceIsNoVerdict DEF RunCommand
<1>11. CASE WaitForJob
  <2>1. "200" \in Replies
    BY DEF Replies
  <2> QED
    BY <1>0, <1>11, <2>1, ReplyIsNoVerdict DEF WaitForJob
<1> QED
  BY <1>1, <1>3, <1>4, <1>5, <1>6, <1>7, <1>8, <1>9, <1>10, <1>11 DEF Session

LEMMA SessionKeepsResult ==
    ASSUME ResultInv, RunnerInv, Session
    PROVE  ResultInv' /\ NoVerdict
<1>1. NoVerdict /\ answers' \in Seq(Codes)
  BY SessionTells DEF NoVerdict
<1>2. CASE UNCHANGED <<jpc, answer, late, runner, pipe, stdio, output>>
  BY <1>1, <1>2 DEF ResultInv, HasProof
<1>3. CASE jpc = "none" /\ jpc' = "started" /\ UNCHANGED <<answer, late, runners>>
  <2>1. answer = 0
    BY <1>3 DEF ResultInv, Failed
  <2> QED
    BY <1>1, <1>3, <2>1 DEF ResultInv, runners
<1>4. CASE /\ jpc' = "none" /\ answer' = 0
           /\ pipe' = NoLines /\ stdio' = NoLines /\ output' = NoLines
  BY <1>1, <1>4 DEF ResultInv, NoLines
<1> QED
  BY <1>1, <1>2, <1>3, <1>4, SessionTells

(* What the job reports *)
LEMMA ReportIsRight ==
    ASSUME ResultInv, ReportJob
    PROVE  /\ ResultInv'
           /\ answers' = Append(answers, "solved") =>
                HasProof(answer) /\ pipe[answer] = <<>> /\ stdio[answer] = <<>>
           /\ answers' = Append(answers, "gave_up") => late
<1>1. /\ jpc = "report" /\ UNCHANGED <<answer, late, runner, pipe, stdio, output>>
      /\ jpc' \in {"free", "sigpipe"}
      /\ \/ answers' = answers
         \/ answers' = Append(answers, IF answer # 0 THEN "solved" ELSE "gave_up")
  BY DEF ReportJob, JobSends, runners
<1>2. answers \in Seq(Codes) /\ {"solved", "gave_up"} \subseteq Codes
  BY DEF ResultInv, Codes
<1>3. answers' \in Seq(Codes)
  BY <1>1, <1>2
<1>4. Append(answers, "solved") # Append(answers, "gave_up")
  <2>1. /\ Append(answers, "solved")[Len(answers) + 1] = "solved"
        /\ Append(answers, "gave_up")[Len(answers) + 1] = "gave_up"
    BY <1>2
  <2> QED
    BY <2>1
<1>5. answers # Append(answers, "solved") /\ answers # Append(answers, "gave_up")
  <2>1. /\ Len(Append(answers, "solved")) = Len(answers) + 1
        /\ Len(Append(answers, "gave_up")) = Len(answers) + 1 /\ Len(answers) \in Nat
    BY <1>2
  <2> QED
    BY <2>1
<1>6. ResultInv'
  BY <1>1, <1>3 DEF ResultInv, HasProof, Failed
<1>7. CASE answer # 0
  BY <1>1, <1>4, <1>5, <1>6, <1>7 DEF ResultInv
<1>8. CASE answer = 0
  BY <1>1, <1>4, <1>5, <1>6, <1>8 DEF ResultInv
<1> QED
  BY <1>7, <1>8

LEMMA GetLineKeepsResult ==
    ASSUME ResultInv, NEW r \in Runners, GetLine(r), UNCHANGED <<answer, late, answers>>,
           jpc' = jpc \/ (answer = 0 /\ jpc' # "report")
    PROVE  ResultInv'
<1>1. /\ stdio[r] # <<>> \/ pipe[r] # <<>>
      /\ output' = [output EXCEPT ![r] = output'[r]]
      /\ stdio'  = [stdio EXCEPT ![r] = stdio'[r]]
      /\ pipe' = pipe \/ pipe' = [pipe EXCEPT ![r] = <<>>]
      /\ UNCHANGED runner
  BY DEF GetLine, ResultInv
<1>2. CASE answer # 0
  <2>1. answer \in Runners /\ answer # r
    BY <1>1, <1>2 DEF ResultInv
  <2>2. output'[answer] = output[answer] /\ stdio'[answer] = stdio[answer]
        /\ pipe'[answer] = pipe[answer]
    BY <1>1, <2>1 DEF ResultInv
  <2>3. DOMAIN output' = Runners /\ DOMAIN pipe' = Runners /\ DOMAIN stdio' = Runners
    BY <1>1 DEF ResultInv
  <2> QED
    BY <1>1, <1>2, <2>1, <2>2, <2>3 DEF ResultInv, HasProof
<1>3. CASE answer = 0
  <2>1. DOMAIN output' = Runners /\ DOMAIN pipe' = Runners /\ DOMAIN stdio' = Runners
    BY <1>1 DEF ResultInv
  <2> QED
    BY <1>1, <1>3, <2>1 DEF ResultInv
<1> QED
  BY <1>2, <1>3

LEMMA JobKeepsResult ==
    ASSUME ResultInv, RunnerInv, Job, ~ReportJob
    PROVE  ResultInv' /\ NoVerdict
<1> USE DEF runners
<1>0. answers \in Seq(Codes) /\ {"started", "finished"} \subseteq Codes \ Verdicts
  BY DEF ResultInv, Codes, Verdicts
<1>1. NoVerdict
  <2>1. CASE JobStarts
    BY <1>0, <2>1, TellsNoVerdict DEF JobStarts, JobSends
  <2>2. CASE JobFinishes
    BY <1>0, <2>2, TellsNoVerdict DEF JobFinishes, JobSends
  <2>3. CASE ~JobStarts /\ ~JobFinishes
    <3>1. answers' = answers
      BY <2>3 DEF Job, ParseJob, TestTime, CreateRunner, ReadPid, Select, ReadLine, GetResult,
                  EndOfRound, CleanupRunner
    <3> QED
      BY <1>0, <3>1, SilenceIsNoVerdict
  <2> QED
    BY <2>1, <2>2, <2>3
<1>2. answers' \in Seq(Codes)
  BY <1>1 DEF NoVerdict
<1>3. CASE \/ JobStarts \/ ParseJob \/ TestTime \/ Select \/ EndOfRound \/ JobFinishes
           \/ \E r \in Runners : CleanupRunner(r)
  <2>1. /\ UNCHANGED <<answer, late, runner, pipe, stdio, output>>
        /\ answer # 0 => jpc' \in {"read", "report", "free", "done"} \cup Failed
        /\ jpc' = "report" /\ answer = 0 => late
    <3>1. CASE JobStarts \/ ParseJob
      <4>1. answer = 0
        BY <3>1 DEF JobStarts, ParseJob, ResultInv, Failed
      <4> QED
        BY <3>1, <4>1 DEF JobStarts, ParseJob, JobSends
    <3>2. CASE TestTime \/ Select
      <4>1. answer = 0
        BY <3>2 DEF TestTime, Select, ResultInv, Failed
      <4> QED
        BY <3>2, <4>1 DEF TestTime, Select
    <3>3. CASE EndOfRound
      BY <3>3 DEF EndOfRound
    <3>4. CASE JobFinishes
      BY <3>4 DEF JobFinishes, JobSends, Failed
    <3>5. CASE \E r \in Runners : CleanupRunner(r)
      BY <3>5 DEF CleanupRunner
    <3> QED
      BY <1>3, <3>1, <3>2, <3>3, <3>4, <3>5
  <2> QED
    BY <1>1, <1>2, <2>1 DEF ResultInv, HasProof
<1>4. CASE CreateRunner
  <2>1. answer = 0 /\ jpc' = "boot" /\ UNCHANGED <<answer, pipe, stdio, output>>
    BY <1>4 DEF CreateRunner, ResultInv, Failed
  <2> QED
    BY <1>1, <1>2, <2>1 DEF ResultInv
<1>5. CASE ReadPid
  <2>1. answer = 0 /\ jpc' \in {"start", "error"} /\ UNCHANGED <<answer, late, answers>>
    BY <1>5 DEF ReadPid, ResultInv, Failed
  <2>2. CASE UNCHANGED runners
    BY <1>1, <1>2, <2>1, <2>2 DEF ResultInv
  <2>3. CASE GetLine(next)
    <3>1. next \in Runners
      BY <1>5, FilterCount DEF ReadPid, RunnerInv, ControlInv, JobInv, Failed, Runners
    <3> QED
      BY <1>1, <2>1, <2>3, <3>1, GetLineKeepsResult
  <2> QED
    BY <1>5, <2>2, <2>3 DEF ReadPid
<1>6. CASE \E r \in Runners : ReadLine(r)
  <2>1. PICK r \in Runners : ReadLine(r)
    BY <1>6
  <2>2. GetLine(r) /\ UNCHANGED <<jpc, answer, late, answers>>
    BY <2>1 DEF ReadLine
  <2> QED
    BY <1>1, <2>2, GetLineKeepsResult
<1>7. CASE \E r \in Runners : GetResult(r)
  <2>1. PICK r \in Runners : GetResult(r)
    BY <1>7
  <2>2. /\ jpc = "read" /\ stdio[r] = <<>> /\ runner[r] = "dead" /\ pipe[r] = <<>>
        /\ (HasProof(r) /\ answer' = r) \/ answer' = answer
        /\ UNCHANGED <<jpc, late, runner, pipe, stdio, output>>
    BY <2>1 DEF GetResult, Eof
  <2> QED
    BY <1>1, <1>2, <2>2 DEF ResultInv, HasProof
<1> QED
  BY <1>3, <1>4, <1>5, <1>6, <1>7 DEF Job

LEMMA RunnerKeepsResult ==
    ASSUME ResultInv, RunnerInv, NEW r \in Runners, RunnerWorks(r) \/ RunnerEnds(r)
    PROVE  ResultInv' /\ NoVerdict
<1>1. /\ runner[r] # "dead"
      /\ runner' = [runner EXCEPT ![r] = runner'[r]]
      /\ pipe' = pipe \/ pipe' = [pipe EXCEPT ![r] = pipe'[r]]
      /\ UNCHANGED <<stdio, output, jpc, answer, late, answers>>
  BY DEF RunnerWorks, RunnerEnds, Prints, job, ResultInv
<1>2. NoVerdict /\ answers' \in Seq(Codes)
  BY <1>1, SilenceIsNoVerdict DEF ResultInv
<1>3. ASSUME answer # 0
      PROVE  runner'[answer] = runner[answer] /\ pipe'[answer] = pipe[answer]
  <2>1. answer # r /\ answer \in Runners
    BY <1>1, <1>3 DEF ResultInv
  <2> QED
    BY <1>1, <2>1 DEF ResultInv, RunnerInv, JobInv
<1>4. DOMAIN pipe' = Runners
  BY <1>1 DEF ResultInv
<1> QED
  BY <1>1, <1>2, <1>3, <1>4 DEF ResultInv, HasProof

LEMMA ResultInit ==
    ASSUME Init
    PROVE  ResultInv
<1>1. /\ answers = <<"connected">> /\ jpc = "none" /\ answer = 0
      /\ pipe = NoLines /\ stdio = NoLines /\ output = NoLines
  BY DEF Init
<1> QED
  BY <1>1 DEF ResultInv, NoLines, Codes

LEMMA ResultStep ==
    ASSUME ResultInv, RunnerInv, [Next]_vars
    PROVE  /\ ResultInv'
           /\ answers' = Append(answers, "solved") =>
                HasProof(answer) /\ pipe[answer] = <<>> /\ stdio[answer] = <<>>
           /\ answers' = Append(answers, "gave_up") => late
<1>1. CASE ReportJob
  BY <1>1, ReportIsRight
<1>2. CASE ~ReportJob
  <2>0. answers \in Seq(Codes)
    BY DEF ResultInv
  <2>1. CASE Client
    <3>1. UNCHANGED <<jpc, answer, late, runner, pipe, stdio, output>>
          /\ (answers' = answers \/ answers' = <<>>)
      BY <2>1 DEF Client, ClientSends, ClientWrites, ClientCloses, job, runners
    <3>2. NoVerdict
      BY <2>0, <3>1, SilenceIsNoVerdict
    <3> QED
      BY <3>1, <3>2 DEF ResultInv, HasProof, NoVerdict, Verdicts
  <2>2. CASE Session
    BY <2>2, SessionKeepsResult DEF NoVerdict, Verdicts
  <2>3. CASE Job
    BY <1>2, <2>3, JobKeepsResult DEF NoVerdict, Verdicts
  <2>4. CASE TimePasses \/ Over \/ UNCHANGED vars
    <3>1. /\ UNCHANGED <<jpc, answer, runner, pipe, stdio, output>>
          /\ answers' = answers /\ (late => late')
      BY <2>4 DEF TimePasses, Over, vars, job, runners
    <3>2. NoVerdict
      <4>1. answers' = answers
        BY <3>1
      <4> QED
        BY <2>0, <4>1, SilenceIsNoVerdict
    <3> QED
      BY <3>1, <3>2 DEF ResultInv, HasProof, NoVerdict, Verdicts
  <2>5. CASE \E r \in Runners : RunnerWorks(r) \/ RunnerEnds(r)
    BY <2>5, RunnerKeepsResult DEF NoVerdict, Verdicts
  <2> QED
    BY <2>1, <2>2, <2>3, <2>4, <2>5 DEF Next
<1> QED
  BY <1>1, <1>2

(* For any number of filters and cores, however the runners end, write and *)
(* are polled: BatchProcessProblem tells the client of a solution only if  *)
(* the output of a runner with a proof has arrived whole, and it gives up  *)
(* only when the time is over.                                             *)
THEOREM AnswersProved == Spec => AnswersAreProofs
<1>1. Init => RunnerInv /\ ResultInv
  BY ControlInit, ResultInit
<1>2. RunnerInv /\ ResultInv /\ [Next]_vars => (RunnerInv /\ ResultInv)'
  BY ControlStep, ResultStep
<1>3. RunnerInv /\ ResultInv /\ [Next]_vars =>
        [ /\ answers' = Append(answers, "solved") =>
               /\ "theorem" \in ToSet(output[answer])
               /\ pipe[answer] = <<>> /\ stdio[answer] = <<>>
          /\ answers' = Append(answers, "gave_up") => late ]_vars
  BY ResultStep DEF HasProof
<1> QED
  BY <1>1, <1>2, <1>3, PTL DEF Spec, AnswersAreProofs

----------------------------------------------------------------------------
(* The axiom sets and the stack of a session.  A set is known by its id.   *)

NameSet == {t[2] : t \in Texts \cup {Garbled}} \cup {"job"}

SetRecord   == [name : NameSet, id : Nat, staged : BOOLEAN]
StackRecord == [name : NameSet, id : Nat]

IsMem(m) ==
    /\ m = [axiom_sets |-> m.axiom_sets, clause_sets |-> m.clause_sets,
            f_distrib |-> m.f_distrib, shared_ax_sp |-> m.shared_ax_sp,
            gc_sets |-> m.gc_sets, freed |-> m.freed]
    /\ m.axiom_sets \in Seq(SetRecord) /\ m.clause_sets \in Seq(StackRecord)
    /\ DOMAIN m.f_distrib \subseteq Nat
    /\ m.f_distrib \in [DOMAIN m.f_distrib -> Nat]

OnStack(i, stack) == \E k \in DOMAIN stack : stack[k].id = i

(* No set is twice on the stack, and of two with the same name the younger *)
(* one is above.                                                           *)
StackInv(stack, n) ==
    /\ \A k \in DOMAIN stack : stack[k].id \in 1..n
    /\ \A k, l \in DOMAIN stack : stack[k].id = stack[l].id => k = l
    /\ \A k, l \in DOMAIN stack :
         k < l /\ stack[k].name = stack[l].name => stack[k].id < stack[l].id

(* No name is listed twice, and what is on the stack under the name of a   *)
(* listed set is that set or an older one, staged when it was removed.     *)
ListInv(sets, stack, n) ==
    /\ \A i \in DOMAIN sets : sets[i].id \in 1..n
    /\ \A i, j \in DOMAIN sets : sets[i].name = sets[j].name \/ sets[i].id = sets[j].id => i = j
    /\ \A i \in DOMAIN sets, k \in DOMAIN stack :
         /\ stack[k].id = sets[i].id => stack[k].name = sets[i].name
         /\ stack[k].name = sets[i].name => stack[k].id <= sets[i].id

StagedInv(sets, stack) == \A i \in DOMAIN sets : sets[i].staged <=> OnStack(sets[i].id, stack)

Counted(stack, f) ==
    /\ \A k, l \in DOMAIN stack : stack[k].id = stack[l].id => k = l
    /\ \A k \in DOMAIN stack : stack[k].id \in DOMAIN f
    /\ \A i \in DOMAIN f : f[i] = IF OnStack(i, stack) THEN 1 ELSE 0

(* The garbage collection finds what is on the stack, and finds it whole.  *)
Kept(m) ==
    \A k \in DOMAIN m.clause_sets :
      m.clause_sets[k].id \in m.gc_sets /\ m.clause_sets[k].id \notin m.freed

SharedInv(m) == m.shared_ax_sp = Len(m.clause_sets) /\ Kept(m)

FreedInv(m, n) ==
    /\ m.freed \subseteq 1..n
    /\ \A i \in DOMAIN m.axiom_sets : m.axiom_sets[i].id \notin m.freed

MemInv(m, n) ==
    /\ IsMem(m) /\ n \in Nat
    /\ StackInv(m.clause_sets, n)
    /\ ListInv(m.axiom_sets, m.clause_sets, n) /\ StagedInv(m.axiom_sets, m.clause_sets)
    /\ Counted(m.clause_sets, m.f_distrib) /\ SharedInv(m) /\ FreedInv(m, n)

(* The job adds its problem on top and takes it down again. *)
WithProblem == {"loop", "start", "boot", "read", "report"}

JobMemInv ==
    /\ IsMem(jmem) /\ Counted(jmem.clause_sets, jmem.f_distrib) /\ Kept(jmem)
    /\ jpc \in {"started", "parse"} => jmem = mem
    /\ jpc \in WithProblem => /\ jmem.clause_sets = Append(mem.clause_sets, JobSet)
                              /\ jmem.shared_ax_sp = Len(mem.clause_sets)
    /\ jpc \in {"free", "done"} => jmem.clause_sets = mem.clause_sets

SpecInv == cmd \in Texts \cup {Garbled} /\ MemInv(mem, ids) /\ JobMemInv

----------------------------------------------------------------------------
(* Pieces of lists *)

(* p is what is left of s when some elements are taken out. *)
IsPart(p, s) ==
    \E h \in [DOMAIN p -> DOMAIN s] :
       /\ \A i \in DOMAIN p : p[i] = s[h[i]]
       /\ \A i, j \in DOMAIN p : i < j => h[i] < h[j]

LEMMA JoinType ==
    ASSUME NEW S, NEW a \in Seq(S), NEW b \in Seq(S)
    PROVE  a \o b \in Seq(S) /\ Len(a \o b) = Len(a) + Len(b)
OBVIOUS

LEMMA RemoveAtType ==
    ASSUME NEW S, NEW s \in Seq(S), NEW k \in DOMAIN s
    PROVE  /\ RemoveAt(s, k) \in Seq(S)
           /\ Len(RemoveAt(s, k)) = Len(s) - 1
           /\ \A i \in 1..(Len(s) - 1) : RemoveAt(s, k)[i] = s[IF i < k THEN i ELSE i + 1]
<1> DEFINE n == Len(s)
           a == SubSeq(s, 1, k - 1)
           b == SubSeq(s, k + 1, n)
<1>1. n \in Nat /\ k \in 1..n
  OBVIOUS
<1>2. a \in Seq(S) /\ Len(a) = k - 1 /\ \A i \in 1..(k - 1) : a[i] = s[i]
  BY <1>1
<1>3. b \in Seq(S) /\ Len(b) = n - k /\ \A i \in 1..(n - k) : b[i] = s[i + k]
  BY <1>1
<1>4. RemoveAt(s, k) = a \o b
  BY DEF RemoveAt
<1> HIDE DEF a, b, n
<1>5. a \o b \in Seq(S) /\ Len(a \o b) = n - 1
  <2>1. a \o b \in Seq(S) /\ Len(a \o b) = Len(a) + Len(b)
    BY <1>2, <1>3, JoinType
  <2>2. (k - 1) + (n - k) = n - 1
    BY <1>1
  <2> QED
    BY <1>2, <1>3, <2>1, <2>2
<1>6. \A i \in 1..(n - 1) : (a \o b)[i] = s[IF i < k THEN i ELSE i + 1]
  <2> SUFFICES ASSUME NEW i \in 1..(n - 1)
               PROVE  (a \o b)[i] = s[IF i < k THEN i ELSE i + 1]
    OBVIOUS
  <2>1. CASE i < k
    <3>1. i \in 1..Len(a)
      BY <1>1, <1>2, <2>1
    <3>2. (a \o b)[i] = a[i]
      BY <1>2, <1>3, <3>1
    <3> QED
      BY <1>1, <1>2, <2>1, <3>1, <3>2
  <2>2. CASE ~ (i < k)
    <3>1. (a \o b)[i] = b[i - (k - 1)]
      BY <1>1, <1>2, <1>3, <2>2
    <3>2. i - (k - 1) \in 1..(n - k) /\ (i - (k - 1)) + k = i + 1
      BY <1>1, <2>2
    <3>3. b[i - (k - 1)] = s[i + 1]
      BY <1>3, <3>2
    <3> QED
      BY <2>2, <3>1, <3>3
  <2> QED
    BY <2>1, <2>2
<1> QED
  BY <1>4, <1>5, <1>6 DEF n

LEMMA RemoveAtIsPart ==
    ASSUME NEW S, NEW s \in Seq(S), NEW k \in DOMAIN s
    PROVE  IsPart(RemoveAt(s, k), s)
<1> DEFINE p == RemoveAt(s, k)
           h == [i \in 1..(Len(s) - 1) |-> IF i < k THEN i ELSE i + 1]
<1>1. p \in Seq(S) /\ Len(p) = Len(s) - 1 /\ \A i \in 1..(Len(s) - 1) : p[i] = s[h[i]]
  BY RemoveAtType
<1>2. DOMAIN p = 1..(Len(s) - 1) /\ DOMAIN s = 1..Len(s) /\ Len(s) \in Nat /\ k \in Nat
  BY <1>1
<1>3. h \in [DOMAIN p -> DOMAIN s]
  BY <1>2
<1>4. \A i, j \in DOMAIN p : i < j => h[i] < h[j]
  BY <1>2
<1> HIDE DEF p, h
<1>5. IsPart(p, s)
  BY <1>1, <1>2, <1>3, <1>4 DEF IsPart
<1> QED
  BY <1>5 DEF p

LEMMA UptoIsPart ==
    ASSUME NEW S, NEW s \in Seq(S), NEW k \in 0..Len(s)
    PROVE  Upto(k, s) \in Seq(S) /\ IsPart(Upto(k, s), s)
<1> DEFINE p == Upto(k, s)
           h == [i \in 1..k |-> i]
<1>1. p \in Seq(S) /\ Len(p) = k /\ \A i \in 1..k : p[i] = s[i]
  BY DEF Upto
<1>2. h \in [1..k -> DOMAIN s]
  OBVIOUS
<1>3. DOMAIN p = 1..k
  BY <1>1
<1>4. \A i \in 1..k : p[i] = s[h[i]]
  BY <1>1
<1>5. \A i, j \in 1..k : i < j => h[i] < h[j]
  OBVIOUS
<1> HIDE DEF p, h
<1>6. IsPart(p, s)
  BY <1>2, <1>3, <1>4, <1>5 DEF IsPart
<1> QED
  BY <1>1, <1>6 DEF p

LEMMA PartOfStack ==
    ASSUME NEW n \in Nat, NEW s, DOMAIN s \subseteq Int, NEW p, DOMAIN p \subseteq Int,
           IsPart(p, s), StackInv(s, n)
    PROVE  StackInv(p, n)
<1>1. PICK h \in [DOMAIN p -> DOMAIN s] :
        /\ \A i \in DOMAIN p : p[i] = s[h[i]]
        /\ \A i, j \in DOMAIN p : i < j => h[i] < h[j]
  BY DEF IsPart
<1>2. \A i, j \in DOMAIN p : h[i] = h[j] => i = j
  <2> SUFFICES ASSUME NEW i \in DOMAIN p, NEW j \in DOMAIN p, h[i] = h[j], i # j
               PROVE  FALSE
    OBVIOUS
  <2>1. i < j \/ j < i
    OBVIOUS
  <2>2. h[i] \in Int /\ h[j] \in Int
    OBVIOUS
  <2> QED
    BY <1>1, <2>1, <2>2
<1>3. \A i \in DOMAIN p : h[i] \in DOMAIN s
  OBVIOUS
<1>4. \A k \in DOMAIN p : p[k].id \in 1..n
  BY <1>1, <1>3 DEF StackInv
<1>5. \A k, l \in DOMAIN p : p[k].id = p[l].id => k = l
  <2> SUFFICES ASSUME NEW k \in DOMAIN p, NEW l \in DOMAIN p, p[k].id = p[l].id
               PROVE  k = l
    OBVIOUS
  <2>1. s[h[k]].id = s[h[l]].id
    BY <1>1
  <2>2. h[k] = h[l]
    BY <1>3, <2>1 DEF StackInv
  <2> QED
    BY <1>2, <2>2
<1>6. \A k, l \in DOMAIN p : k < l /\ p[k].name = p[l].name => p[k].id < p[l].id
  <2> SUFFICES ASSUME NEW k \in DOMAIN p, NEW l \in DOMAIN p, k < l, p[k].name = p[l].name
               PROVE  p[k].id < p[l].id
    OBVIOUS
  <2>1. h[k] < h[l] /\ s[h[k]].name = s[h[l]].name
    BY <1>1
  <2>2. s[h[k]].id < s[h[l]].id
    BY <1>3, <2>1 DEF StackInv
  <2> QED
    BY <1>1, <2>2
<1> QED
  BY <1>4, <1>5, <1>6 DEF StackInv

(* A list of sets keeps its invariants when sets or what is on the stack   *)
(* are taken away.                                                         *)
LEMMA PartOfList ==
    ASSUME NEW n \in Nat, NEW sets, DOMAIN sets \subseteq Int, NEW stack,
           NEW p, DOMAIN p \subseteq Int, IsPart(p, sets), NEW q, IsPart(q, stack),
           ListInv(sets, stack, n)
    PROVE  ListInv(p, q, n)
<1>1. PICK h \in [DOMAIN p -> DOMAIN sets] :
        /\ \A i \in DOMAIN p : p[i] = sets[h[i]]
        /\ \A i, j \in DOMAIN p : i < j => h[i] < h[j]
  BY DEF IsPart
<1>2. PICK g \in [DOMAIN q -> DOMAIN stack] : \A k \in DOMAIN q : q[k] = stack[g[k]]
  BY DEF IsPart
<1>3. \A i, j \in DOMAIN p : h[i] = h[j] => i = j
  <2> SUFFICES ASSUME NEW i \in DOMAIN p, NEW j \in DOMAIN p, h[i] = h[j], i # j
               PROVE  FALSE
    OBVIOUS
  <2>1. i < j \/ j < i
    OBVIOUS
  <2>2. h[i] \in Int /\ h[j] \in Int
    OBVIOUS
  <2> QED
    BY <1>1, <2>1, <2>2
<1>4. \A i \in DOMAIN p : h[i] \in DOMAIN sets
  OBVIOUS
<1>5. \A k \in DOMAIN q : g[k] \in DOMAIN stack
  OBVIOUS
<1>6. \A i \in DOMAIN p : p[i].id \in 1..n
  BY <1>1, <1>4 DEF ListInv
<1>7. \A i, j \in DOMAIN p : p[i].name = p[j].name \/ p[i].id = p[j].id => i = j
  <2> SUFFICES ASSUME NEW i \in DOMAIN p, NEW j \in DOMAIN p,
                      p[i].name = p[j].name \/ p[i].id = p[j].id
               PROVE  i = j
    OBVIOUS
  <2>1. sets[h[i]].name = sets[h[j]].name \/ sets[h[i]].id = sets[h[j]].id
    BY <1>1
  <2>2. h[i] = h[j]
    BY <1>4, <2>1 DEF ListInv
  <2> QED
    BY <1>3, <2>2
<1>8. \A i \in DOMAIN p, k \in DOMAIN q :
        /\ q[k].id = p[i].id => q[k].name = p[i].name
        /\ q[k].name = p[i].name => q[k].id <= p[i].id
  <2> SUFFICES ASSUME NEW i \in DOMAIN p, NEW k \in DOMAIN q
               PROVE  /\ q[k].id = p[i].id => q[k].name = p[i].name
                      /\ q[k].name = p[i].name => q[k].id <= p[i].id
    OBVIOUS
  <2>1. p[i] = sets[h[i]] /\ q[k] = stack[g[k]]
    BY <1>1, <1>2
  <2>2. h[i] \in DOMAIN sets /\ g[k] \in DOMAIN stack
    BY <1>4, <1>5
  <2> QED
    BY <2>1, <2>2 DEF ListInv
<1> QED
  BY <1>6, <1>7, <1>8 DEF ListInv

LEMMA IsPartOfItself ==
    ASSUME NEW s, DOMAIN s \subseteq Int
    PROVE  IsPart(s, s)
<1> DEFINE h == [i \in DOMAIN s |-> i]
<1>1. h \in [DOMAIN s -> DOMAIN s] /\ \A i \in DOMAIN s : h[i] = i
  OBVIOUS
<1> HIDE DEF h
<1> QED
  BY <1>1 DEF IsPart

----------------------------------------------------------------------------
(* What the operations do to the sets, the stack and the counts *)

LEMMA LeastOf ==
    ASSUME NEW T, T \subseteq Nat, T # {}
    PROVE  \E n \in T : \A k \in T : n <= k
<1>1. IsWellFoundedOn(OpToRel(<, Nat), Nat)
  BY NatLessThanWellFounded
<1>2. PICK n \in T : \A k \in T : <<k, n>> \notin OpToRel(<, Nat)
  BY <1>1, WFMin, Zenon
<1>3. \A k \in T : ~ (k < n)
  BY <1>2 DEF OpToRel
<1> QED
  BY <1>3

LEMMA GreatestOf ==
    ASSUME NEW n \in Nat, NEW T, T \subseteq 1..n, T # {}
    PROVE  Max(T) \in T /\ \A k \in T : k <= Max(T)
<1> DEFINE D == {n - k : k \in T}
<1>1. D \subseteq Nat /\ D # {}
  <2>1. \A k \in T : k \in Nat /\ n - k \in Nat
    OBVIOUS
  <2>2. D \subseteq Nat
    BY <2>1
  <2> QED
    BY <2>2
<1>2. PICK d \in D : \A e \in D : d <= e
  BY <1>1, LeastOf
<1>3. \E x \in T : \A y \in T : x >= y
  <2>1. PICK x \in T : d = n - x
    OBVIOUS
  <2>2. \A y \in T : n - y \in D
    OBVIOUS
  <2>3. \A y \in T : x >= y
    <3> SUFFICES ASSUME NEW y \in T
                 PROVE  x >= y
      OBVIOUS
    <3>1. n - x <= n - y
      BY <1>2, <2>1, <2>2
    <3>2. x \in Nat /\ y \in Nat
      OBVIOUS
    <3> HIDE DEF D
    <3> QED
      BY <3>1, <3>2
  <2> QED
    BY <2>3
<1>4. Max(T) \in T /\ \A y \in T : Max(T) >= y
  BY <1>3 DEF Max
<1> QED
  BY <1>4

LEMMA TopOf ==
    ASSUME NEW S, NEW stack \in Seq(S), NEW n, IndicesOf(n, stack) # {}
    PROVE  LET top == Max(IndicesOf(n, stack)) IN
           /\ top \in DOMAIN stack /\ stack[top].name = n
           /\ \A k \in DOMAIN stack : stack[k].name = n => k <= top
<1>1. IndicesOf(n, stack) \subseteq 1..Len(stack) /\ Len(stack) \in Nat
  BY DEF IndicesOf
<1> DEFINE T == IndicesOf(n, stack)
<1>2. Max(T) \in T /\ \A k \in T : k <= Max(T)
  BY <1>1, GreatestOf
<1> QED
  BY <1>2 DEF IndicesOf

LEMMA AddProblem ==
    ASSUME NEW m, IsMem(m), NEW s \in StackRecord,
           Counted(m.clause_sets, m.f_distrib), ~ OnStack(s.id, m.clause_sets)
    PROVE  LET added == StructFOFSpecAddProblem(m, s) IN
           /\ IsMem(added)
           /\ Counted(added.clause_sets, added.f_distrib)
           /\ added.axiom_sets = m.axiom_sets
           /\ added.clause_sets = Append(m.clause_sets, s)
           /\ added.shared_ax_sp = m.shared_ax_sp
           /\ added.gc_sets = m.gc_sets \cup {s.id} /\ added.freed = m.freed
<1> DEFINE added == StructFOFSpecAddProblem(m, s)
           f == m.f_distrib
           stack == m.clause_sets
           i == s.id
           adjusted == GenDistribSizeAdjust(f, i)
<1>1. i \in Nat /\ stack \in Seq(StackRecord) /\ DOMAIN f \subseteq Nat /\ f \in [DOMAIN f -> Nat]
  BY DEF IsMem, StackRecord
<1>2. added = [axiom_sets |-> m.axiom_sets, clause_sets |-> Append(stack, s),
               f_distrib |-> [adjusted EXCEPT ![i] = @ + 1],
               shared_ax_sp |-> m.shared_ax_sp, gc_sets |-> m.gc_sets \cup {i},
               freed |-> m.freed]
  <2>1. m = [axiom_sets |-> m.axiom_sets, clause_sets |-> m.clause_sets,
            f_distrib |-> m.f_distrib, shared_ax_sp |-> m.shared_ax_sp,
            gc_sets |-> m.gc_sets, freed |-> m.freed]
    BY DEF IsMem
  <2>2. added = [m EXCEPT !.clause_sets = Append(@, s), !.gc_sets = @ \cup {s.id},
                          !.f_distrib = [adjusted EXCEPT ![s.id] = @ + 1]]
    BY DEF StructFOFSpecAddProblem
  <2> HIDE DEF adjusted, added
  <2> QED
    BY <2>1, <2>2
<1> DEFINE g == added.f_distrib
           up == added.clause_sets
<1>3. /\ added.axiom_sets = m.axiom_sets /\ up = Append(stack, s)
      /\ g = [adjusted EXCEPT ![i] = @ + 1]
      /\ added.shared_ax_sp = m.shared_ax_sp /\ added.gc_sets = m.gc_sets \cup {i}
      /\ added.freed = m.freed
      /\ added = [axiom_sets |-> m.axiom_sets, clause_sets |-> up, f_distrib |-> g,
                  shared_ax_sp |-> m.shared_ax_sp, gc_sets |-> m.gc_sets \cup {i},
                  freed |-> m.freed]
  BY <1>2
<1> HIDE DEF added
<1>4. adjusted = [k \in DOMAIN f \cup 0..i |-> IF k \in DOMAIN f THEN f[k] ELSE 0]
  BY DEF GenDistribSizeAdjust
<1> HIDE DEF adjusted
<1>5. g = [k \in DOMAIN f \cup 0..i |-> IF k = i THEN adjusted[i] + 1 ELSE adjusted[k]]
  BY <1>3, <1>4
<1>6. i \in DOMAIN f => f[i] = 0
  BY DEF Counted
<1>7. adjusted[i] = 0
  BY <1>1, <1>4, <1>6
<1>8. \A k \in DOMAIN f \cup 0..i :
        g[k] = IF k = i THEN 1 ELSE IF k \in DOMAIN f THEN f[k] ELSE 0
  BY <1>4, <1>5, <1>7
<1>9. DOMAIN g = DOMAIN f \cup 0..i
  BY <1>5
<1>10. g \in [DOMAIN g -> Nat] /\ DOMAIN g \subseteq Nat
  <2>1. \A k \in DOMAIN g : g[k] \in Nat
    BY <1>1, <1>8, <1>9
  <2>2. g = [k \in DOMAIN g |-> g[k]]
    BY <1>5, <1>9
  <2>3. g \in [DOMAIN g -> Nat]
    <3> HIDE DEF g
    <3> QED
      BY <2>1, <2>2
  <2>4. 0..i \subseteq Nat
    BY <1>1
  <2>5. DOMAIN g \subseteq Nat
    BY <1>1, <1>9, <2>4
  <2> QED
    BY <2>3, <2>5
<1> DEFINE n == Len(stack)
<1>11. /\ up \in Seq(StackRecord) /\ n \in Nat
       /\ DOMAIN up = 1..(n + 1) /\ DOMAIN stack = 1..n
       /\ up[n + 1] = s /\ \A k \in 1..n : up[k] = stack[k]
  BY <1>1, <1>3
<1> HIDE DEF n, g, up
<1>12. \A j : OnStack(j, up) <=> j = i \/ OnStack(j, stack)
  <2> SUFFICES ASSUME NEW j
               PROVE  OnStack(j, up) <=> j = i \/ OnStack(j, stack)
    OBVIOUS
  <2>1. ASSUME OnStack(j, up)
        PROVE  j = i \/ OnStack(j, stack)
    <3>1. PICK k \in 1..(n + 1) : up[k].id = j
      BY <1>11, <2>1 DEF OnStack
    <3>2. CASE k = n + 1
      BY <1>11, <3>1, <3>2
    <3>3. CASE k \in 1..n
      BY <1>11, <3>1, <3>3 DEF OnStack
    <3> QED
      BY <1>11, <3>2, <3>3
  <2>2. ASSUME OnStack(j, stack)
        PROVE  OnStack(j, up)
    <3>1. PICK k \in 1..n : stack[k].id = j
      BY <1>11, <2>2 DEF OnStack
    <3>2. k \in 1..(n + 1) /\ up[k].id = j
      BY <1>11, <3>1
    <3> QED
      BY <1>11, <3>2 DEF OnStack
  <2>3. OnStack(i, up)
    <3>1. n + 1 \in 1..(n + 1)
      BY <1>11
    <3> QED
      BY <1>11, <3>1 DEF OnStack
  <2> QED
    BY <2>1, <2>2, <2>3
<1>13. ~ OnStack(i, stack)
  OBVIOUS
<1>14. \A k, l \in DOMAIN up : up[k].id = up[l].id => k = l
  <2>1. \A k, l \in 1..n : stack[k].id = stack[l].id => k = l
    BY <1>11 DEF Counted
  <2>2. \A k \in 1..n : stack[k].id # i
    BY <1>11, <1>13 DEF OnStack
  <2> SUFFICES ASSUME NEW k \in 1..(n + 1), NEW l \in 1..(n + 1), up[k].id = up[l].id
               PROVE  k = l
    BY <1>11
  <2>3. CASE k \in 1..n /\ l \in 1..n
    BY <1>11, <2>1, <2>3
  <2>4. CASE k = n + 1 /\ l \in 1..n
    BY <1>11, <2>2, <2>4
  <2>5. CASE k \in 1..n /\ l = n + 1
    BY <1>11, <2>2, <2>5
  <2>6. (k \in 1..n \/ k = n + 1) /\ (l \in 1..n \/ l = n + 1)
    BY <1>11
  <2> QED
    BY <2>3, <2>4, <2>5, <2>6
<1>15. \A k \in DOMAIN up : up[k].id \in DOMAIN g
  <2> SUFFICES ASSUME NEW k \in 1..(n + 1)
               PROVE  up[k].id \in DOMAIN g
    BY <1>11
  <2>1. CASE k \in 1..n
    <3>1. stack[k].id \in DOMAIN f
      BY <1>11, <2>1 DEF Counted
    <3> QED
      BY <1>9, <1>11, <2>1, <3>1
  <2>2. CASE k = n + 1
    <3>1. i \in 0..i
      BY <1>1
    <3> QED
      BY <1>9, <1>11, <2>2, <3>1
  <2> QED
    BY <1>11, <2>1, <2>2
<1>16. \A j \in DOMAIN g : g[j] = IF OnStack(j, up) THEN 1 ELSE 0
  <2> SUFFICES ASSUME NEW j \in DOMAIN g
               PROVE  g[j] = IF OnStack(j, up) THEN 1 ELSE 0
    OBVIOUS
  <2>1. CASE j = i
    BY <1>8, <1>9, <1>12, <2>1
  <2>2. CASE j # i /\ j \in DOMAIN f
    <3>1. f[j] = IF OnStack(j, stack) THEN 1 ELSE 0
      BY <2>2 DEF Counted
    <3>2. g[j] = f[j]
      BY <1>8, <1>9, <2>2
    <3>3. OnStack(j, up) <=> OnStack(j, stack)
      BY <1>12, <2>2
    <3> QED
      BY <3>1, <3>2, <3>3
  <2>3. CASE j # i /\ j \notin DOMAIN f
    <3>1. ~ OnStack(j, stack)
      BY <2>3 DEF OnStack, Counted
    <3>2. g[j] = 0
      BY <1>8, <1>9, <2>3
    <3> QED
      BY <1>12, <2>3, <3>1, <3>2
  <2> QED
    BY <2>1, <2>2, <2>3
<1>17. Counted(up, g)
  BY <1>14, <1>15, <1>16 DEF Counted
<1>18. IsMem(added)
  <2>1. added.clause_sets \in Seq(StackRecord) /\ added.clause_sets = up
    BY <1>11 DEF up
  <2>2. added.axiom_sets \in Seq(SetRecord)
    BY <1>3 DEF IsMem
  <2>3. /\ added.f_distrib \in [DOMAIN added.f_distrib -> Nat]
        /\ DOMAIN added.f_distrib \subseteq Nat
    BY <1>10 DEF g
  <2>4. added = [axiom_sets |-> added.axiom_sets, clause_sets |-> added.clause_sets,
                 f_distrib |-> added.f_distrib, shared_ax_sp |-> added.shared_ax_sp,
                 gc_sets |-> added.gc_sets, freed |-> added.freed]
    BY <1>3 DEF up, g
  <2> QED
    BY <2>1, <2>2, <2>3, <2>4 DEF IsMem
<1> QED
  BY <1>3, <1>17, <1>18 DEF added, up, g

LEMMA OffStack ==
    ASSUME NEW stack \in Seq(StackRecord), NEW f, DOMAIN f \subseteq Nat, f \in [DOMAIN f -> Nat],
           Counted(stack, f), NEW top \in DOMAIN stack
    PROVE  LET i == stack[top].id
               p == RemoveAt(stack, top)
               g == [f EXCEPT ![i] = @ - 1]
           IN  /\ \A j : OnStack(j, p) <=> OnStack(j, stack) /\ j # i
               /\ Counted(p, g)
               /\ g \in [DOMAIN f -> Nat] /\ DOMAIN g = DOMAIN f
<1> DEFINE i == stack[top].id
           p == RemoveAt(stack, top)
           g == [f EXCEPT ![i] = @ - 1]
           n == Len(stack)
<1>1. p \in Seq(StackRecord) /\ Len(p) = n - 1
      /\ \A k \in 1..(n - 1) : p[k] = stack[IF k < top THEN k ELSE k + 1]
  BY RemoveAtType
<1>2. n \in Nat /\ top \in 1..n /\ DOMAIN stack = 1..n /\ DOMAIN p = 1..(n - 1)
  BY <1>1
<1>3. \A k, l \in 1..n : stack[k].id = stack[l].id => k = l
  BY <1>2 DEF Counted
<1> HIDE DEF p, n
<1>4. \A j : OnStack(j, p) <=> OnStack(j, stack) /\ j # i
  <2> SUFFICES ASSUME NEW j
               PROVE  OnStack(j, p) <=> OnStack(j, stack) /\ j # i
    OBVIOUS
  <2>1. ASSUME OnStack(j, p)
        PROVE  OnStack(j, stack) /\ j # i
    <3>1. PICK k \in 1..(n - 1) : p[k].id = j
      BY <1>2, <2>1 DEF OnStack
    <3> DEFINE l == IF k < top THEN k ELSE k + 1
    <3>2. l \in 1..n /\ l # top
      BY <1>2
    <3>3. stack[l].id = j
      BY <1>1, <3>1
    <3> HIDE DEF l
    <3>4. stack[l].id # stack[top].id
      BY <1>2, <1>3, <3>2
    <3> QED
      BY <1>2, <3>2, <3>3, <3>4 DEF OnStack
  <2>2. ASSUME OnStack(j, stack), j # i
        PROVE  OnStack(j, p)
    <3>1. PICK l \in 1..n : stack[l].id = j
      BY <1>2, <2>2 DEF OnStack
    <3>2. l # top
      BY <2>2, <3>1
    <3> DEFINE k == IF l < top THEN l ELSE l - 1
    <3>3. k \in 1..(n - 1) /\ (IF k < top THEN k ELSE k + 1) = l
      BY <1>2, <3>2
    <3>4. p[k].id = j
      BY <1>1, <3>1, <3>3
    <3> HIDE DEF k
    <3> QED
      BY <1>2, <3>3, <3>4 DEF OnStack
  <2> QED
    BY <2>1, <2>2
<1>5. i \in DOMAIN f /\ f[i] = 1
  <2>1. OnStack(i, stack) /\ i \in DOMAIN f
    BY DEF Counted, OnStack
  <2> QED
    BY <2>1 DEF Counted
<1>6. DOMAIN g = DOMAIN f /\ \A j \in DOMAIN f : g[j] = IF j = i THEN 0 ELSE f[j]
  BY <1>5
<1> HIDE DEF g
<1>7. g \in [DOMAIN f -> Nat]
  <2>1. \A j \in DOMAIN f : g[j] \in Nat
    BY <1>6
  <2>2. g = [j \in DOMAIN f |-> g[j]]
    BY <1>6 DEF g
  <2> QED
    BY <2>1, <2>2
<1>8. \A k, l \in DOMAIN p : p[k].id = p[l].id => k = l
  <2> SUFFICES ASSUME NEW k \in 1..(n - 1), NEW l \in 1..(n - 1), p[k].id = p[l].id
               PROVE  k = l
    BY <1>2
  <2> DEFINE a == IF k < top THEN k ELSE k + 1
             b == IF l < top THEN l ELSE l + 1
  <2>1. a \in 1..n /\ b \in 1..n /\ (a = b => k = l)
    BY <1>2
  <2>2. stack[a].id = stack[b].id
    BY <1>1
  <2> HIDE DEF a, b
  <2> QED
    BY <1>3, <2>1, <2>2
<1>9. \A k \in DOMAIN p : p[k].id \in DOMAIN g
  <2> SUFFICES ASSUME NEW k \in DOMAIN p
               PROVE  p[k].id \in DOMAIN f
    BY <1>6
  <2>1. OnStack(p[k].id, p)
    BY DEF OnStack
  <2>2. OnStack(p[k].id, stack)
    BY <1>4, <2>1
  <2> QED
    BY <2>2 DEF OnStack, Counted
<1>10. \A j \in DOMAIN g : g[j] = IF OnStack(j, p) THEN 1 ELSE 0
  <2> SUFFICES ASSUME NEW j \in DOMAIN f
               PROVE  g[j] = IF OnStack(j, p) THEN 1 ELSE 0
    BY <1>6
  <2>1. f[j] = IF OnStack(j, stack) THEN 1 ELSE 0
    BY DEF Counted
  <2> QED
    BY <1>4, <1>6, <2>1
<1>11. Counted(p, g)
  BY <1>8, <1>9, <1>10 DEF Counted
<1> QED
  BY <1>4, <1>6, <1>7, <1>11 DEF p, g

(* What is on the stack stays registered. *)
LEMMA PartIsShared ==
    ASSUME NEW gc, NEW s, NEW p, IsPart(p, s), \A k \in DOMAIN s : s[k].id \in gc
    PROVE  \A k \in DOMAIN p : p[k].id \in gc
<1>1. PICK h \in [DOMAIN p -> DOMAIN s] : \A i \in DOMAIN p : p[i] = s[h[i]]
  BY DEF IsPart
<1>2. \A k \in DOMAIN p : h[k] \in DOMAIN s
  OBVIOUS
<1> QED
  BY <1>1, <1>2

Unstaged(sets, n) ==
    [i \in DOMAIN sets |-> IF sets[i].name = n THEN [sets[i] EXCEPT !.staged = FALSE]
                           ELSE sets[i]]

LEMMA UnstagedType ==
    ASSUME NEW sets \in Seq(SetRecord), NEW n
    PROVE  LET u == Unstaged(sets, n) IN
           /\ u \in Seq(SetRecord) /\ DOMAIN u = DOMAIN sets
           /\ \A i \in DOMAIN sets :
                /\ u[i].name = sets[i].name /\ u[i].id = sets[i].id
                /\ u[i].staged = (sets[i].staged /\ sets[i].name # n)
<1> DEFINE u == Unstaged(sets, n)
<1>1. u = [i \in 1..Len(sets) |-> IF sets[i].name = n THEN [sets[i] EXCEPT !.staged = FALSE]
                                  ELSE sets[i]]
  BY DEF Unstaged
<1>2. Len(sets) \in Nat /\ DOMAIN sets = 1..Len(sets) /\ \A i \in 1..Len(sets) : sets[i] \in SetRecord
  OBVIOUS
<1>3. \A r \in SetRecord : /\ [r EXCEPT !.staged = FALSE] \in SetRecord
                           /\ [r EXCEPT !.staged = FALSE].name = r.name
                           /\ [r EXCEPT !.staged = FALSE].id = r.id
                           /\ [r EXCEPT !.staged = FALSE].staged = FALSE
  BY DEF SetRecord
<1>4. \A i \in 1..Len(sets) : u[i] \in SetRecord
  BY <1>1, <1>2, <1>3
<1>5. DOMAIN u = 1..Len(sets) /\ u \in [1..Len(sets) -> SetRecord]
  BY <1>1, <1>2, <1>3
<1>6. u \in Seq(SetRecord)
  BY <1>2, <1>5
<1>7. \A i \in 1..Len(sets) : sets[i].staged \in BOOLEAN
  BY <1>2 DEF SetRecord
<1>8. ASSUME NEW i \in 1..Len(sets)
      PROVE  /\ u[i].name = sets[i].name /\ u[i].id = sets[i].id
             /\ u[i].staged = (sets[i].staged /\ sets[i].name # n)
  <2>1. CASE sets[i].name = n
    <3>1. u[i] = [sets[i] EXCEPT !.staged = FALSE]
      BY <1>1, <2>1
    <3>2. PICK r \in SetRecord : r = sets[i]
      BY <1>2
    <3>3. u[i] = [r EXCEPT !.staged = FALSE] /\ r.name = n
      BY <2>1, <3>1, <3>2
    <3> QED
      BY <1>3, <3>2, <3>3
  <2>2. CASE sets[i].name # n
    <3>1. u[i] = sets[i]
      BY <1>1, <2>2
    <3> QED
      BY <1>7, <2>2, <3>1
  <2> QED
    BY <2>1, <2>2
<1> QED
  BY <1>2, <1>5, <1>6, <1>8

(* A list whose names and ids are those of another keeps its invariant. *)
LEMMA SameList ==
    ASSUME NEW n, NEW stack, NEW sets, NEW u, DOMAIN u = DOMAIN sets,
           \A i \in DOMAIN sets : u[i].name = sets[i].name /\ u[i].id = sets[i].id,
           ListInv(sets, stack, n)
    PROVE  ListInv(u, stack, n)
BY DEF ListInv

(* unstage_command takes the right set off the stack: the last one of its  *)
(* name, which is the listed one if that is staged.                        *)
LEMMA UnstageKeepsMem ==
    ASSUME NEW n, NEW m, MemInv(m, n), NEW name
    PROVE  MemInv(UnstageSet(m, name), n)
<1> DEFINE sets == m.axiom_sets
           stack == m.clause_sets
           f == m.f_distrib
           u == Unstaged(sets, name)
           new == UnstageSet(m, name)
           found == IndicesOf(name, stack)
           bare == [m EXCEPT !.axiom_sets = u]
<1>1. /\ n \in Nat /\ sets \in Seq(SetRecord) /\ stack \in Seq(StackRecord)
      /\ DOMAIN f \subseteq Nat /\ f \in [DOMAIN f -> Nat]
      /\ m = [axiom_sets |-> sets, clause_sets |-> stack, f_distrib |-> f,
              shared_ax_sp |-> Len(stack), gc_sets |-> m.gc_sets, freed |-> m.freed]
      /\ \A k \in DOMAIN stack : stack[k].id \in m.gc_sets \ m.freed
      /\ m.freed \subseteq 1..n /\ \A i \in DOMAIN sets : sets[i].id \notin m.freed
  BY DEF MemInv, IsMem, SharedInv, Kept, FreedInv
<1>2. /\ StackInv(stack, n) /\ ListInv(sets, stack, n) /\ StagedInv(sets, stack)
      /\ Counted(stack, f)
  BY DEF MemInv
<1>3. /\ u \in Seq(SetRecord) /\ DOMAIN u = DOMAIN sets
      /\ \A i \in DOMAIN sets :
           /\ u[i].name = sets[i].name /\ u[i].id = sets[i].id
           /\ u[i].staged = (sets[i].staged /\ sets[i].name # name)
  BY <1>1, UnstagedType
<1>4. new = PopSet(bare, name)
  BY DEF UnstageSet, Unstaged
<1> HIDE DEF u
<1>5. bare = [axiom_sets |-> u, clause_sets |-> stack, f_distrib |-> f,
              shared_ax_sp |-> Len(stack), gc_sets |-> m.gc_sets, freed |-> m.freed]
  BY <1>1
<1> DEFINE gc == m.gc_sets
           freed == m.freed
<1>6. ListInv(u, stack, n)
  BY <1>2, <1>3, SameList
<1> SUFFICES MemInv(new, n)
  OBVIOUS
<1> HIDE DEF sets, stack, f, gc, freed, bare, new
<1>7. CASE found = {}
  <2>1. new = [axiom_sets |-> u, clause_sets |-> stack, f_distrib |-> f,
               shared_ax_sp |-> Len(stack), gc_sets |-> gc, freed |-> freed]
    BY <1>4, <1>5, <1>7 DEF PopSet, gc, freed
  <2>2. IsMem(new) /\ SharedInv(new) /\ FreedInv(new, n)
    BY <1>1, <1>3, <2>1 DEF IsMem, SharedInv, Kept, FreedInv, gc, freed
  <2>3. \A i \in DOMAIN sets : sets[i].name = name => ~ OnStack(sets[i].id, stack)
    BY <1>2, <1>7 DEF OnStack, ListInv, IndicesOf
  <2>4. StagedInv(u, stack)
    BY <1>2, <1>3, <2>3 DEF StagedInv
  <2>5. new.axiom_sets = u /\ new.clause_sets = stack /\ new.f_distrib = f
    BY <2>1
  <2> QED
    BY <1>1, <1>2, <1>6, <2>2, <2>4, <2>5 DEF MemInv
<1>8. CASE found # {}
  <2> DEFINE top == Max(found)
             j == stack[top].id
             p == RemoveAt(stack, top)
             g == [f EXCEPT ![j] = @ - 1]
  <2>1. top \in DOMAIN stack /\ stack[top].name = name
        /\ \A k \in DOMAIN stack : stack[k].name = name => k <= top
    BY <1>1, <1>8, TopOf
  <2> HIDE DEF top, found
  <2>2. /\ \A i : OnStack(i, p) <=> OnStack(i, stack) /\ i # j
        /\ Counted(p, g) /\ g \in [DOMAIN f -> Nat] /\ DOMAIN g = DOMAIN f
    BY <1>1, <1>2, <2>1, OffStack
  <2>3. p \in Seq(StackRecord) /\ Len(p) = Len(stack) - 1 /\ IsPart(p, stack)
    BY <1>1, <2>1, RemoveAtType, RemoveAtIsPart
  <2>4. new = [axiom_sets |-> u, clause_sets |-> p, f_distrib |-> g,
               shared_ax_sp |-> Len(p), gc_sets |-> gc, freed |-> freed]
    <3>1. new = [bare EXCEPT !.clause_sets = RemoveAt(@, top), !.f_distrib[j] = @ - 1,
                             !.shared_ax_sp = Len(stack) - 1]
      BY <1>4, <1>5, <1>8 DEF PopSet, top, found
    <3> QED
      BY <1>5, <2>3, <3>1 DEF gc, freed
  <2>5. \A k \in DOMAIN p : p[k].id \in gc \ freed
    BY <1>1, <2>3, PartIsShared DEF gc, freed
  <2> HIDE DEF p, g
  <2>6. IsMem(new) /\ SharedInv(new) /\ FreedInv(new, n)
    BY <1>1, <1>3, <2>2, <2>3, <2>4, <2>5 DEF IsMem, SharedInv, Kept, FreedInv, freed
  <2>7. StackInv(p, n)
    <3>1. DOMAIN stack \subseteq Int /\ DOMAIN p \subseteq Int
      BY <1>1, <2>3
    <3> QED
      BY <1>1, <1>2, <2>3, <3>1, PartOfStack
  <2>8. ListInv(u, p, n)
    <3>1. DOMAIN u \subseteq Int
      BY <1>3
    <3>2. IsPart(u, u)
      BY <3>1, IsPartOfItself
    <3> QED
      BY <1>1, <1>6, <2>3, <3>1, <3>2, PartOfList
  <2>9. StagedInv(u, p)
    <3> SUFFICES ASSUME NEW i \in DOMAIN sets
                 PROVE  u[i].staged <=> OnStack(u[i].id, p)
      BY <1>3 DEF StagedInv
    <3>1. sets[i].staged <=> OnStack(sets[i].id, stack)
      BY <1>2 DEF StagedInv
    <3>2. CASE sets[i].name # name
      <4>1. sets[i].id # j
        BY <1>2, <2>1, <3>2 DEF ListInv
      <4> QED
        BY <1>3, <2>2, <3>1, <3>2, <4>1
    <3>3. CASE sets[i].name = name
      <4>1. ASSUME OnStack(sets[i].id, stack)
            PROVE  sets[i].id = j
        <5>1. PICK k \in DOMAIN stack : stack[k].id = sets[i].id
          BY <4>1 DEF OnStack
        <5>2. stack[k].name = name
          BY <1>2, <3>3, <5>1 DEF ListInv
        <5>3. k <= top
          BY <2>1, <5>2
        <5>4. j <= sets[i].id
          BY <1>2, <2>1, <3>3 DEF ListInv
        <5>5. k < top => stack[k].id < j
          BY <1>2, <2>1, <5>2 DEF StackInv
        <5>6. k \in Int /\ top \in Int /\ j \in Int /\ sets[i].id \in Int
          BY <1>1, <1>2, <2>1 DEF StackInv, ListInv
        <5> HIDE DEF j
        <5> QED
          BY <5>1, <5>3, <5>4, <5>5, <5>6 DEF j
      <4>2. ~ OnStack(sets[i].id, p)
        BY <2>2, <4>1
      <4> QED
        BY <1>3, <3>3, <4>2
    <3> QED
      BY <3>2, <3>3
  <2>10. new.axiom_sets = u /\ new.clause_sets = p /\ new.f_distrib = g
    BY <2>4
  <2> QED
    BY <1>1, <2>2, <2>6, <2>7, <2>8, <2>9, <2>10 DEF MemInv
<1> QED
  BY <1>7, <1>8

LEMMA StageKeepsMem ==
    ASSUME NEW n, NEW m, MemInv(m, n), NEW i \in DOMAIN m.axiom_sets, ~ m.axiom_sets[i].staged
    PROVE  MemInv(StageSet(m, i), n)
<1> DEFINE sets == m.axiom_sets
           stack == m.clause_sets
           s == [name |-> sets[i].name, id |-> sets[i].id]
           added == StructFOFSpecAddProblem(m, s)
           up == added.clause_sets
           u == [sets EXCEPT ![i].staged = TRUE]
           new == StageSet(m, i)
<1>1. /\ n \in Nat /\ sets \in Seq(SetRecord) /\ stack \in Seq(StackRecord) /\ IsMem(m)
      /\ StackInv(stack, n) /\ ListInv(sets, stack, n) /\ StagedInv(sets, stack)
      /\ Counted(stack, m.f_distrib) /\ SharedInv(m) /\ FreedInv(m, n)
  BY DEF MemInv, IsMem
<1>2. sets[i] \in SetRecord /\ i \in DOMAIN sets
  BY <1>1
<1>3. s \in StackRecord /\ s.name = sets[i].name /\ s.id = sets[i].id
  BY <1>2 DEF SetRecord, StackRecord
<1>4. ~ OnStack(s.id, stack)
  BY <1>1, <1>2, <1>3 DEF StagedInv
<1> HIDE DEF s
<1>5. /\ IsMem(added) /\ Counted(up, added.f_distrib) /\ added.axiom_sets = sets
      /\ up = Append(stack, s) /\ added.gc_sets = m.gc_sets \cup {s.id}
      /\ added.freed = m.freed
  BY <1>1, <1>3, <1>4, AddProblem
<1>6. /\ u \in Seq(SetRecord) /\ DOMAIN u = DOMAIN sets
      /\ \A j \in DOMAIN sets : /\ u[j].name = sets[j].name /\ u[j].id = sets[j].id
                                /\ u[j].staged = (j = i \/ sets[j].staged)
  <2>1. PICK r \in SetRecord : r = sets[i]
    BY <1>2
  <2>2. u = [sets EXCEPT ![i] = [r EXCEPT !.staged = TRUE]]
    BY <2>1
  <2>3. PICK q \in SetRecord : /\ q = [r EXCEPT !.staged = TRUE]
                               /\ q.name = r.name /\ q.id = r.id /\ q.staged = TRUE
    <3> DEFINE q == [r EXCEPT !.staged = TRUE]
    <3>1. /\ q \in SetRecord
          /\ q.name = r.name /\ q.id = r.id /\ q.staged = TRUE
      BY DEF SetRecord
    <3> QED
      BY <3>1
  <2> HIDE DEF u
  <2>4. u = [sets EXCEPT ![i] = q]
    BY <2>2, <2>3
  <2> HIDE DEF sets
  <2>5. u \in Seq(SetRecord) /\ DOMAIN u = DOMAIN sets
    BY <1>1, <1>2, <2>4
  <2>6. \A j \in DOMAIN sets : sets[j].staged \in BOOLEAN
    <3>1. \A j \in DOMAIN sets : sets[j] \in SetRecord
      BY <1>1
    <3> QED
      BY <3>1 DEF SetRecord
  <2>7. u[i] = q /\ \A j \in DOMAIN sets : j # i => u[j] = sets[j]
    BY <1>2, <2>4
  <2> QED
    BY <2>1, <2>3, <2>5, <2>6, <2>7
<1>7. new = [added EXCEPT !.axiom_sets[i].staged = TRUE, !.shared_ax_sp = Len(up)]
  BY DEF StageSet, s
<1>8. new = [axiom_sets |-> u, clause_sets |-> up, f_distrib |-> added.f_distrib,
             shared_ax_sp |-> Len(up), gc_sets |-> m.gc_sets \cup {s.id},
             freed |-> m.freed]
  <2> DEFINE f == added.f_distrib
             sp == added.shared_ax_sp
             gc == m.gc_sets \cup {s.id}
             freed == m.freed
  <2>1. added = [axiom_sets |-> sets, clause_sets |-> up, f_distrib |-> f,
                 shared_ax_sp |-> sp, gc_sets |-> gc, freed |-> freed]
    BY <1>5 DEF IsMem
  <2> HIDE DEF added, up, new, sets, f, sp, gc, freed
  <2>2. new = [axiom_sets |-> [sets EXCEPT ![i].staged = TRUE], clause_sets |-> up,
               f_distrib |-> f, shared_ax_sp |-> Len(up), gc_sets |-> gc, freed |-> freed]
    BY <1>7, <2>1
  <2> QED
    BY <2>2 DEF f, gc, freed
<1> DEFINE l == Len(stack)
<1>9. /\ up \in Seq(StackRecord) /\ l \in Nat /\ DOMAIN up = 1..(l + 1) /\ DOMAIN stack = 1..l
      /\ up[l + 1] = s /\ \A k \in 1..l : up[k] = stack[k]
  <2> HIDE DEF up, stack
  <2> QED
    BY <1>1, <1>3, <1>5
<1> SUFFICES MemInv(new, n)
  OBVIOUS
<1> HIDE DEF l, up, stack, new, u, sets, added
<1>10. \A k \in 1..(l + 1) : k \in 1..l \/ k = l + 1
  BY <1>9
<1>11. s.id \in 1..n
  BY <1>1, <1>2, <1>3 DEF ListInv
<1>12. \A k \in 1..l : /\ stack[k].id \in 1..n /\ stack[k].id # s.id
                       /\ stack[k].name = s.name => stack[k].id < s.id
  <2> SUFFICES ASSUME NEW k \in 1..l
               PROVE  /\ stack[k].id \in 1..n /\ stack[k].id # s.id
                      /\ stack[k].name = s.name => stack[k].id < s.id
    OBVIOUS
  <2>1. stack[k].id \in 1..n
    BY <1>1, <1>9 DEF StackInv
  <2>2. stack[k].id # s.id
    BY <1>4, <1>9 DEF OnStack
  <2>3. stack[k].name = s.name => stack[k].id <= s.id
    BY <1>1, <1>2, <1>3, <1>9 DEF ListInv
  <2> QED
    BY <1>1, <1>11, <2>1, <2>2, <2>3
<1>13. StackInv(up, n)
  <2>1. \A k \in DOMAIN up : up[k].id \in 1..n
    BY <1>9, <1>10, <1>11, <1>12
  <2>2. \A j, k \in DOMAIN up : up[j].id = up[k].id => j = k
    BY <1>5 DEF Counted
  <2>3. ASSUME NEW j \in DOMAIN up, NEW k \in DOMAIN up, j < k, up[j].name = up[k].name
        PROVE  up[j].id < up[k].id
    <3>1. j \in 1..l
      BY <1>9, <2>3
    <3>2. CASE k \in 1..l
      BY <1>1, <1>9, <2>3, <3>1, <3>2 DEF StackInv
    <3>3. CASE k = l + 1
      BY <1>9, <1>12, <2>3, <3>1, <3>3
    <3> QED
      BY <1>9, <1>10, <3>2, <3>3
  <2> QED
    BY <2>1, <2>2, <2>3 DEF StackInv
<1>14. ListInv(u, stack, n)
  BY <1>1, <1>6, SameList
<1>15. \A j \in DOMAIN sets : sets[j].name = s.name \/ sets[j].id = s.id => j = i
  BY <1>1, <1>2, <1>3 DEF ListInv
<1>16. ListInv(u, up, n)
  <2>1. ASSUME NEW j \in DOMAIN u, NEW k \in DOMAIN up
        PROVE  /\ up[k].id = u[j].id => up[k].name = u[j].name
               /\ up[k].name = u[j].name => up[k].id <= u[j].id
    <3>1. CASE k \in 1..l
      BY <1>9, <1>14, <3>1 DEF ListInv
    <3>2. CASE k = l + 1
      <4>1. up[k] = s /\ s.id \in Int
        BY <1>9, <1>11, <3>2
      <4>2. u[j].name = s.name \/ u[j].id = s.id => u[j].name = s.name /\ u[j].id = s.id
        BY <1>3, <1>6, <1>15
      <4> QED
        BY <4>1, <4>2
    <3> QED
      BY <1>9, <1>10, <3>1, <3>2
  <2> QED
    BY <1>14, <2>1 DEF ListInv
<1>17. StagedInv(u, up)
  <2> SUFFICES ASSUME NEW j \in DOMAIN sets
               PROVE  u[j].staged <=> OnStack(u[j].id, up)
    BY <1>6 DEF StagedInv
  <2>1. CASE j = i
    <3>1. up[l + 1].id = u[j].id /\ l + 1 \in DOMAIN up
      BY <1>3, <1>6, <1>9, <2>1
    <3> QED
      BY <1>6, <2>1, <3>1 DEF OnStack
  <2>2. CASE j # i
    <3>1. u[j].staged <=> OnStack(u[j].id, stack)
      BY <1>1, <1>6, <2>2 DEF StagedInv
    <3>2. u[j].id # s.id
      BY <1>6, <1>15, <2>2
    <3>3. OnStack(u[j].id, up) <=> OnStack(u[j].id, stack)
      BY <1>9, <1>10, <3>2 DEF OnStack
    <3> QED
      BY <3>1, <3>3
  <2> QED
    BY <2>1, <2>2
<1>18. new.axiom_sets = u /\ new.clause_sets = up /\ new.f_distrib = added.f_distrib
       /\ new.shared_ax_sp = Len(up) /\ new.gc_sets = m.gc_sets \cup {s.id}
       /\ new.freed = m.freed
  BY <1>8
<1>19. IsMem(new)
  BY <1>5, <1>6, <1>8, <1>9, <1>18 DEF IsMem
<1>20. \A j \in DOMAIN sets : sets[j].id \notin m.freed
  BY <1>1 DEF FreedInv, sets
<1>21. SharedInv(new)
  <2>1. \A k \in 1..l : stack[k].id \in m.gc_sets /\ stack[k].id \notin m.freed
    BY <1>1, <1>9 DEF SharedInv, Kept, stack
  <2>2. s.id \notin m.freed
    BY <1>2, <1>3, <1>20
  <2>3. \A k \in DOMAIN up : /\ up[k].id \in m.gc_sets \cup {s.id}
                             /\ up[k].id \notin m.freed
    BY <1>9, <1>10, <2>1, <2>2
  <2> QED
    BY <1>18, <2>3 DEF SharedInv, Kept
<1>22. FreedInv(new, n)
  BY <1>1, <1>6, <1>18, <1>20 DEF FreedInv
<1> QED
  BY <1>1, <1>5, <1>13, <1>16, <1>17, <1>18, <1>19, <1>21, <1>22 DEF MemInv

(* A set that is added is younger than all that are known. *)
LEMMA AddKeepsMem ==
    ASSUME NEW n, NEW m, MemInv(m, n), NEW name \in NameSet, IndicesOf(name, m.axiom_sets) = {}
    PROVE  MemInv([m EXCEPT !.axiom_sets =
                     Append(@, [name |-> name, id |-> n + 1, staged |-> FALSE])], n + 1)
<1> DEFINE sets == m.axiom_sets
           stack == m.clause_sets
           r == [name |-> name, id |-> n + 1, staged |-> FALSE]
           u == Append(sets, r)
           new == [m EXCEPT !.axiom_sets = u]
           l == Len(sets)
<1>1. /\ n \in Nat /\ sets \in Seq(SetRecord) /\ stack \in Seq(StackRecord) /\ IsMem(m)
      /\ StackInv(stack, n) /\ ListInv(sets, stack, n) /\ StagedInv(sets, stack)
      /\ Counted(stack, m.f_distrib) /\ SharedInv(m) /\ FreedInv(m, n)
  BY DEF MemInv, IsMem
<1>2. r \in SetRecord /\ r.name = name /\ r.id = n + 1 /\ r.staged = FALSE
  BY <1>1 DEF SetRecord
<1>3. \A i \in DOMAIN sets : sets[i].name # name
  BY DEF IndicesOf
<1> HIDE DEF sets, stack, r
<1>4. /\ u \in Seq(SetRecord) /\ l \in Nat /\ DOMAIN u = 1..(l + 1) /\ DOMAIN sets = 1..l
      /\ u[l + 1] = r /\ \A i \in 1..l : u[i] = sets[i]
  BY <1>1, <1>2
<1>5. new.axiom_sets = u /\ new.clause_sets = stack /\ new.f_distrib = m.f_distrib
      /\ new.shared_ax_sp = m.shared_ax_sp /\ new.gc_sets = m.gc_sets /\ new.freed = m.freed
      /\ new = [axiom_sets |-> u, clause_sets |-> stack, f_distrib |-> m.f_distrib,
                shared_ax_sp |-> m.shared_ax_sp, gc_sets |-> m.gc_sets, freed |-> m.freed]
  <2>1. m = [axiom_sets |-> sets, clause_sets |-> stack, f_distrib |-> m.f_distrib,
             shared_ax_sp |-> m.shared_ax_sp, gc_sets |-> m.gc_sets, freed |-> m.freed]
    BY <1>1 DEF IsMem, sets, stack
  <2> HIDE DEF u
  <2> QED
    BY <2>1
<1> SUFFICES MemInv(new, n + 1)
  BY DEF sets, r
<1> HIDE DEF u, new, l
<1>6. \A i \in 1..(l + 1) : i \in 1..l \/ i = l + 1
  BY <1>4
<1>7. IsMem(new) /\ SharedInv(new)
  BY <1>1, <1>4, <1>5 DEF IsMem, SharedInv, Kept, stack
<1>8. StackInv(stack, n + 1)
  BY <1>1 DEF StackInv
<1>9. \A k \in DOMAIN stack : stack[k].id \in Int /\ stack[k].id < n + 1
  BY <1>1 DEF StackInv
<1>10. \A i \in 1..l : sets[i].id \in Int /\ sets[i].id < n + 1 /\ sets[i].id \in 1..(n + 1)
  BY <1>1, <1>4 DEF ListInv
<1>11. ListInv(u, stack, n + 1)
  <2>1. \A i \in DOMAIN u : u[i].id \in 1..(n + 1)
    BY <1>1, <1>2, <1>4, <1>6, <1>10
  <2>2. ASSUME NEW i \in DOMAIN u, NEW j \in DOMAIN u,
               u[i].name = u[j].name \/ u[i].id = u[j].id
        PROVE  i = j
    <3>1. CASE i \in 1..l /\ j \in 1..l
      BY <1>1, <1>4, <2>2, <3>1 DEF ListInv
    <3>2. CASE i = l + 1 /\ j \in 1..l
      BY <1>2, <1>3, <1>4, <1>10, <2>2, <3>2
    <3>3. CASE i \in 1..l /\ j = l + 1
      BY <1>2, <1>3, <1>4, <1>10, <2>2, <3>3
    <3> QED
      BY <1>4, <1>6, <3>1, <3>2, <3>3
  <2>3. ASSUME NEW i \in DOMAIN u, NEW k \in DOMAIN stack
        PROVE  /\ stack[k].id = u[i].id => stack[k].name = u[i].name
               /\ stack[k].name = u[i].name => stack[k].id <= u[i].id
    <3>1. CASE i \in 1..l
      BY <1>1, <1>4, <3>1 DEF ListInv
    <3>2. CASE i = l + 1
      BY <1>1, <1>2, <1>4, <1>9, <3>2
    <3> QED
      BY <1>4, <1>6, <3>1, <3>2
  <2> QED
    BY <2>1, <2>2, <2>3 DEF ListInv
<1>12. StagedInv(u, stack)
  <2> SUFFICES ASSUME NEW i \in DOMAIN u
               PROVE  u[i].staged <=> OnStack(u[i].id, stack)
    BY DEF StagedInv
  <2>1. CASE i \in 1..l
    BY <1>1, <1>4, <2>1 DEF StagedInv
  <2>2. CASE i = l + 1
    BY <1>1, <1>2, <1>4, <1>9, <2>2 DEF OnStack
  <2> QED
    BY <1>4, <1>6, <2>1, <2>2
<1>13. FreedInv(new, n + 1)
  <2>1. m.freed \subseteq 1..n /\ \A i \in 1..l : sets[i].id \notin m.freed
    BY <1>1, <1>4 DEF FreedInv, sets
  <2>2. m.freed \subseteq 1..(n + 1) /\ n + 1 \notin m.freed
    BY <1>1, <2>1
  <2>3. \A i \in DOMAIN u : u[i].id \notin m.freed
    BY <1>2, <1>4, <1>6, <2>1, <2>2
  <2> QED
    BY <1>5, <2>2, <2>3 DEF FreedInv
<1> QED
  BY <1>1, <1>5, <1>7, <1>8, <1>11, <1>12, <1>13 DEF MemInv

(* remove_command may take any sets from the list. *)
LEMMA RemoveKeepsMem ==
    ASSUME NEW n, NEW m, MemInv(m, n), NEW p \in Seq(SetRecord), IsPart(p, m.axiom_sets)
    PROVE  MemInv([m EXCEPT !.axiom_sets = p], n)
<1> DEFINE sets == m.axiom_sets
           stack == m.clause_sets
           new == [m EXCEPT !.axiom_sets = p]
<1>1. /\ n \in Nat /\ sets \in Seq(SetRecord) /\ stack \in Seq(StackRecord) /\ IsMem(m)
      /\ StackInv(stack, n) /\ ListInv(sets, stack, n) /\ StagedInv(sets, stack)
      /\ Counted(stack, m.f_distrib) /\ SharedInv(m) /\ FreedInv(m, n)
  BY DEF MemInv, IsMem
<1>2. new.axiom_sets = p /\ new.clause_sets = stack /\ new.f_distrib = m.f_distrib
      /\ new.shared_ax_sp = m.shared_ax_sp /\ new.gc_sets = m.gc_sets /\ new.freed = m.freed
      /\ new = [axiom_sets |-> p, clause_sets |-> stack, f_distrib |-> m.f_distrib,
                shared_ax_sp |-> m.shared_ax_sp, gc_sets |-> m.gc_sets, freed |-> m.freed]
  BY <1>1 DEF IsMem
<1>3. IsPart(p, sets)
  OBVIOUS
<1> HIDE DEF sets, stack, new
<1>4. DOMAIN sets \subseteq Int /\ DOMAIN p \subseteq Int /\ DOMAIN stack \subseteq Int
  BY <1>1
<1>5. IsPart(stack, stack)
  BY <1>4, IsPartOfItself
<1>6. ListInv(p, stack, n)
  BY <1>1, <1>3, <1>4, <1>5, PartOfList
<1>7. StagedInv(p, stack)
  <2>1. PICK h \in [DOMAIN p -> DOMAIN sets] : \A i \in DOMAIN p : p[i] = sets[h[i]]
    BY <1>3 DEF IsPart
  <2>2. \A i \in DOMAIN p : h[i] \in DOMAIN sets
    OBVIOUS
  <2> QED
    BY <1>1, <2>1, <2>2 DEF StagedInv
<1>8. IsMem(new) /\ SharedInv(new) /\ FreedInv(new, n)
  <2>1. m.freed \subseteq 1..n /\ \A i \in DOMAIN sets : sets[i].id \notin m.freed
    BY <1>1 DEF FreedInv, sets
  <2>2. PICK h \in [DOMAIN p -> DOMAIN sets] : \A i \in DOMAIN p : p[i] = sets[h[i]]
    BY <1>3 DEF IsPart
  <2>3. \A i \in DOMAIN p : h[i] \in DOMAIN sets
    OBVIOUS
  <2>4. \A i \in DOMAIN p : p[i].id \notin m.freed
    BY <2>1, <2>2, <2>3
  <2> QED
    BY <1>1, <1>2, <2>1, <2>4 DEF IsMem, SharedInv, Kept, FreedInv, stack
<1>9. MemInv(new, n)
  BY <1>1, <1>2, <1>6, <1>7, <1>8 DEF MemInv
<1> QED
  BY <1>9 DEF new

(* What is registered and what is freed may change as long as that leaves  *)
(* out what is listed or on the stack.                                     *)
LEMMA BlocksMayChange ==
    ASSUME NEW n, NEW m, MemInv(m, n), NEW k \in {n, n + 1}, NEW gc, NEW freed,
           freed \subseteq 1..k,
           \A j \in DOMAIN m.clause_sets : /\ m.clause_sets[j].id \in gc
                                           /\ m.clause_sets[j].id \notin freed,
           \A i \in DOMAIN m.axiom_sets : m.axiom_sets[i].id \notin freed
    PROVE  MemInv([m EXCEPT !.gc_sets = gc, !.freed = freed], k)
<1> DEFINE sets == m.axiom_sets
           stack == m.clause_sets
           new == [m EXCEPT !.gc_sets = gc, !.freed = freed]
<1>1. /\ n \in Nat /\ IsMem(m)
      /\ StackInv(stack, n) /\ ListInv(sets, stack, n) /\ StagedInv(sets, stack)
      /\ Counted(stack, m.f_distrib) /\ SharedInv(m)
  BY DEF MemInv
<1>2. new.axiom_sets = sets /\ new.clause_sets = stack /\ new.f_distrib = m.f_distrib
      /\ new.shared_ax_sp = m.shared_ax_sp /\ new.gc_sets = gc /\ new.freed = freed
      /\ new = [axiom_sets |-> sets, clause_sets |-> stack, f_distrib |-> m.f_distrib,
                shared_ax_sp |-> m.shared_ax_sp, gc_sets |-> gc, freed |-> freed]
  <2> DEFINE f == m.f_distrib
             sp == m.shared_ax_sp
             gc_before == m.gc_sets
             freed_before == m.freed
  <2>1. m = [axiom_sets |-> sets, clause_sets |-> stack, f_distrib |-> f, shared_ax_sp |-> sp,
             gc_sets |-> gc_before, freed |-> freed_before]
    BY <1>1 DEF IsMem
  <2>2. new = [m EXCEPT !.gc_sets = gc, !.freed = freed]
    OBVIOUS
  <2> HIDE DEF new, sets, stack, f, sp, gc_before, freed_before
  <2>3. new = [axiom_sets |-> sets, clause_sets |-> stack, f_distrib |-> f, shared_ax_sp |-> sp,
               gc_sets |-> gc, freed |-> freed]
    BY <2>1, <2>2
  <2> QED
    BY <2>3 DEF f, sp
<1> HIDE DEF new
<1>3. IsMem(new) /\ SharedInv(new) /\ FreedInv(new, k)
  BY <1>1, <1>2 DEF IsMem, SharedInv, Kept, FreedInv
<1>4. k \in Nat /\ 1..n \subseteq 1..k
  BY <1>1
<1> HIDE DEF sets, stack
<1>5. StackInv(stack, k)
  BY <1>1, <1>4 DEF StackInv
<1>6. ListInv(sets, stack, k)
  BY <1>1, <1>4 DEF ListInv
<1>7. MemInv(new, k)
  BY <1>1, <1>2, <1>3, <1>4, <1>5, <1>6 DEF MemInv
<1> QED
  BY <1>7 DEF new

(* A block that is reused belonged to a set that is neither listed nor on  *)
(* the stack.                                                              *)
LEMMA AllocKeepsMem ==
    ASSUME NEW n, NEW m, MemInv(m, n), NEW i, NEW new \in ClauseSetAlloc(m, i)
    PROVE  /\ MemInv(new, n) /\ new.axiom_sets = m.axiom_sets
           /\ new.clause_sets = m.clause_sets
<1>1. CASE new = m
  BY <1>1
<1>2. ASSUME NEW old \in m.gc_sets \cap m.freed,
             new = [m EXCEPT !.gc_sets = (@ \ {old}) \cup {i}, !.freed = @ \ {old}]
      PROVE  /\ MemInv(new, n) /\ new.axiom_sets = m.axiom_sets
             /\ new.clause_sets = m.clause_sets
  <2> DEFINE gc == (m.gc_sets \ {old}) \cup {i}
             freed == m.freed \ {old}
  <2>1. new = [m EXCEPT !.gc_sets = gc, !.freed = freed]
    BY <1>2
  <2>2. /\ freed \subseteq 1..n /\ n \in {n, n + 1}
        /\ \A j \in DOMAIN m.clause_sets : /\ m.clause_sets[j].id \in gc
                                            /\ m.clause_sets[j].id \notin freed
        /\ \A j \in DOMAIN m.axiom_sets : m.axiom_sets[j].id \notin freed
    BY DEF MemInv, SharedInv, Kept, FreedInv
  <2> HIDE DEF gc, freed
  <2>3. MemInv(new, n)
    BY <2>1, <2>2, BlocksMayChange
  <2>4. new.axiom_sets = m.axiom_sets /\ new.clause_sets = m.clause_sets
    <3>1. m = [axiom_sets |-> m.axiom_sets, clause_sets |-> m.clause_sets,
               f_distrib |-> m.f_distrib, shared_ax_sp |-> m.shared_ax_sp,
               gc_sets |-> m.gc_sets, freed |-> m.freed]
      BY DEF MemInv, IsMem
    <3> QED
      BY <2>1, <3>1
  <2> QED
    BY <2>3, <2>4
<1> QED
  BY <1>1, <1>2 DEF ClauseSetAlloc

(* A set that is neither listed nor on the stack may be freed. *)
LEMMA FreeKeepsMem ==
    ASSUME NEW n, NEW m, MemInv(m, n), NEW k \in {n, n + 1}, NEW i \in 1..k,
           ~ OnStack(i, m.clause_sets), \A j \in DOMAIN m.axiom_sets : m.axiom_sets[j].id # i
    PROVE  MemInv(AxiomSetFree(m, i), k)
<1> DEFINE gc == m.gc_sets
           freed == m.freed \cup {i}
<1>1. /\ m = [axiom_sets |-> m.axiom_sets, clause_sets |-> m.clause_sets,
              f_distrib |-> m.f_distrib, shared_ax_sp |-> m.shared_ax_sp,
              gc_sets |-> m.gc_sets, freed |-> m.freed]
      /\ n \in Nat /\ Kept(m) /\ FreedInv(m, n)
  BY DEF MemInv, IsMem, SharedInv
<1>2. AxiomSetFree(m, i) = [m EXCEPT !.gc_sets = gc, !.freed = freed]
  BY <1>1 DEF AxiomSetFree
<1>3. 1..n \subseteq 1..k
  BY <1>1
<1>4. /\ freed \subseteq 1..k
      /\ \A j \in DOMAIN m.clause_sets : /\ m.clause_sets[j].id \in gc
                                          /\ m.clause_sets[j].id \notin freed
      /\ \A j \in DOMAIN m.axiom_sets : m.axiom_sets[j].id \notin freed
  BY <1>1, <1>3 DEF Kept, FreedInv, OnStack
<1> HIDE DEF gc, freed
<1>5. MemInv([m EXCEPT !.gc_sets = gc, !.freed = freed], k)
  BY <1>4, BlocksMayChange
<1> QED
  BY <1>2, <1>5

----------------------------------------------------------------------------
(* quit_command unstages what is staged, from the last set on. *)

LEMMA SmallestSubset ==
    ASSUME NEW U, IsFiniteSet(U), NEW T, T \subseteq SUBSET U, T # {}
    PROVE  \E S \in T : \A R \in T : R \subseteq S => R = S
<1>1. FiniteSubsetsOf(U) = SUBSET U
  BY FS_FiniteSubsetsOfFinite
<1>2. IsWellFoundedOn(StrictSubsetOrdering(U), SUBSET U)
  BY <1>1, FS_StrictSubsetOrderingWellFounded
<1>3. PICK S \in T : \A R \in T : <<R, S>> \notin StrictSubsetOrdering(U)
  BY <1>2, WFMin, Zenon
<1> QED
  BY <1>3 DEF StrictSubsetOrdering

Quit(s, m) == IF s.staged THEN UnstageSet(m, s.name) ELSE m

(* The function that FoldRight recurs with *)
IsQuit(f, sets, m, U) ==
    f = [S \in SUBSET U |-> IF S = {} THEN m ELSE Quit(sets[Min(S)], f[S \ {Min(S)}])]

Quits(sets, m) == CHOOSE f : IsQuit(f, sets, m, DOMAIN sets)

LEMMA FoldIsQuit ==
    ASSUME NEW sets, NEW m
    PROVE  FoldRight(LAMBDA s, k : IF s.staged THEN UnstageSet(k, s.name) ELSE k, sets, m)
             = Quits(sets, m)[DOMAIN sets]
BY Zenon DEF FoldRight, MapThenFoldSet, Quits, IsQuit, Quit

LEMMA LeastIsIn ==
    ASSUME NEW S, S \subseteq Nat, S # {}
    PROVE  Min(S) \in S
<1>1. \E x \in S : \A y \in S : x =< y
  BY LeastOf
<1> QED
  BY <1>1 DEF Min

HaveLeast(U) == \A S \in SUBSET U : S # {} => Min(S) \in S

LEMMA QuitRecursion ==
    ASSUME NEW f, NEW sets, NEW m, NEW U, IsQuit(f, sets, m, U), NEW S \in SUBSET U
    PROVE  /\ S = {} => f[S] = m
           /\ S # {} => f[S] = Quit(sets[Min(S)], f[S \ {Min(S)}])
<1>1. f[S] = IF S = {} THEN m ELSE Quit(sets[Min(S)], f[S \ {Min(S)}])
  BY Zenon DEF IsQuit
<1> QED
  BY <1>1

LEMMA QuitsAgree ==
    ASSUME NEW sets, NEW m, NEW U, HaveLeast(U), IsFiniteSet(U), NEW f, IsQuit(f, sets, m, U),
           NEW V, NEW g, IsQuit(g, sets, m, V), NEW S, S \subseteq U, S \subseteq V
    PROVE  f[S] = g[S]
<1> DEFINE Wrong == {R \in SUBSET U : R \subseteq V /\ f[R] # g[R]}
<1> SUFFICES ASSUME Wrong # {} PROVE FALSE
  OBVIOUS
<1>1. PICK R \in Wrong : \A Q \in Wrong : Q \subseteq R => Q = R
  <2>1. Wrong \subseteq SUBSET U /\ Wrong # {}
    OBVIOUS
  <2> HIDE DEF Wrong
  <2> QED
    BY <2>1, SmallestSubset
<1>2. R \in SUBSET U /\ R \in SUBSET V /\ f[R] # g[R]
  OBVIOUS
<1>3. R # {}
  <2>0. R \in SUBSET U /\ R \in SUBSET V
    BY <1>2
  <2> HIDE DEF Wrong
  <2>1. R = {} => f[R] = m
    BY <2>0, QuitRecursion
  <2>2. R = {} => g[R] = m
    BY <2>0, QuitRecursion
  <2> QED
    BY <1>2, <2>1, <2>2
<1>4. Min(R) \in R
  BY <1>2, <1>3 DEF HaveLeast
<1>5. R \ {Min(R)} \notin Wrong
  BY <1>1, <1>4
<1>6. f[R \ {Min(R)}] = g[R \ {Min(R)}]
  BY <1>5
<1>7. f[R] = Quit(sets[Min(R)], f[R \ {Min(R)}]) /\ g[R] = Quit(sets[Min(R)], g[R \ {Min(R)}])
  BY <1>2, <1>3, QuitRecursion
<1> QED
  BY <1>6, <1>7

LEMMA QuitExists ==
    ASSUME NEW sets, NEW m, NEW U, HaveLeast(U), IsFiniteSet(U)
    PROVE  \E f : IsQuit(f, sets, m, U)
<1> DEFINE Wrong == {S \in SUBSET U : ~ \E f : IsQuit(f, sets, m, S)}
<1> SUFFICES ASSUME Wrong # {} PROVE FALSE
  OBVIOUS
<1>1. PICK S \in Wrong : \A R \in Wrong : R \subseteq S => R = S
  <2>1. Wrong \subseteq SUBSET U /\ Wrong # {}
    OBVIOUS
  <2> HIDE DEF Wrong
  <2> QED
    BY <2>1, SmallestSubset
<1> DEFINE part == [R \in SUBSET S |-> CHOOSE f : IsQuit(f, sets, m, R)]
<1>2. \A R \in SUBSET S : R # S => IsQuit(part[R], sets, m, R)
  <2> SUFFICES ASSUME NEW R \in SUBSET S, R # S
               PROVE  IsQuit(part[R], sets, m, R)
    OBVIOUS
  <2>1. \E f : IsQuit(f, sets, m, R)
    BY <1>1
  <2> QED
    BY <2>1
<1> HIDE DEF part
<1>3. \A R \in SUBSET S : IsFiniteSet(R) /\ HaveLeast(R) /\ (R # {} => Min(R) \in R)
  BY FS_Subset DEF HaveLeast
<1>4. PICK whole : whole = [R \in SUBSET S |->
                              IF R = {} THEN m
                              ELSE Quit(sets[Min(R)], part[R \ {Min(R)}][R \ {Min(R)}])]
  OBVIOUS
<1>5. \A R \in SUBSET S : R # S => whole[R] = part[R][R]
  <2> SUFFICES ASSUME NEW R \in SUBSET S, R # S
               PROVE  whole[R] = part[R][R]
    OBVIOUS
  <2>1. IsQuit(part[R], sets, m, R)
    BY <1>2
  <2>2. CASE R = {}
    <3>1. part[R][R] = m
      BY <2>1, <2>2, QuitRecursion
    <3> QED
      BY <1>4, <2>2, <3>1
  <2>3. CASE R # {}
    <3> DEFINE Q == R \ {Min(R)}
    <3>1. Q \in SUBSET R /\ Q \in SUBSET S /\ Q # S
      BY <1>3, <2>3
    <3>2. IsQuit(part[Q], sets, m, Q)
      BY <1>2, <3>1
    <3>3. part[R][Q] = part[Q][Q]
      BY <1>3, <2>1, <3>1, <3>2, QuitsAgree
    <3>4. part[R][R] = Quit(sets[Min(R)], part[R][Q])
      BY <2>1, <2>3, QuitRecursion
    <3>5. whole[R] = Quit(sets[Min(R)], part[Q][Q])
      BY <1>4, <2>3
    <3> QED
      BY <3>3, <3>4, <3>5
  <2> QED
    BY <2>2, <2>3
<1>6. IsQuit(whole, sets, m, S)
  <2>1. \A R \in SUBSET S : R # {} =>
           part[R \ {Min(R)}][R \ {Min(R)}] = whole[R \ {Min(R)}]
    <3> SUFFICES ASSUME NEW R \in SUBSET S, R # {}
                 PROVE  part[R \ {Min(R)}][R \ {Min(R)}] = whole[R \ {Min(R)}]
      OBVIOUS
    <3>1. R \ {Min(R)} \in SUBSET S /\ R \ {Min(R)} # S
      BY <1>3
    <3> QED
      BY <1>5, <3>1
  <2>2. whole = [R \in SUBSET S |-> IF R = {} THEN m
                                   ELSE Quit(sets[Min(R)], whole[R \ {Min(R)}])]
    BY <1>4, <2>1
  <2> QED
    BY <2>2 DEF IsQuit
<1> QED
  BY <1>6

LEMMA QuitKeepsMem ==
    ASSUME NEW n, NEW m, MemInv(m, n)
    PROVE  MemInv(Quits(m.axiom_sets, m)[DOMAIN m.axiom_sets], n)
<1> DEFINE sets == m.axiom_sets
           U == DOMAIN sets
           f == Quits(sets, m)
<1>1. IsFiniteSet(U) /\ HaveLeast(U)
  <2>1. U = 1..Len(sets) /\ Len(sets) \in Nat
    BY DEF MemInv, IsMem
  <2>2. IsFiniteSet(U)
    BY <2>1, FS_Interval
  <2>3. U \subseteq Nat
    BY <2>1
  <2> HIDE DEF U
  <2>4. HaveLeast(U)
    BY <2>3, LeastIsIn DEF HaveLeast
  <2> QED
    BY <2>2, <2>4
<1>2. IsQuit(f, sets, m, U)
  BY <1>1, QuitExists DEF Quits
<1> DEFINE Wrong == {S \in SUBSET U : ~ MemInv(f[S], n)}
<1> HIDE DEF f, sets, U
<1>3. ASSUME Wrong # {}
      PROVE  FALSE
  <2>1. PICK S \in Wrong : \A R \in Wrong : R \subseteq S => R = S
    <3>1. Wrong \subseteq SUBSET U
      OBVIOUS
    <3> HIDE DEF Wrong
    <3> QED
      BY <1>1, <1>3, <3>1, SmallestSubset
  <2>2. S \in SUBSET U /\ ~ MemInv(f[S], n)
    OBVIOUS
  <2>3. S # {}
    BY <1>2, <2>2, QuitRecursion
  <2>4. Min(S) \in S
    BY <1>1, <2>2, <2>3 DEF HaveLeast
  <2> DEFINE R == S \ {Min(S)}
  <2>5. MemInv(f[R], n)
    BY <2>1, <2>4
  <2>6. f[S] = Quit(sets[Min(S)], f[R])
    BY <1>2, <2>2, <2>3, QuitRecursion
  <2>7. MemInv(UnstageSet(f[R], sets[Min(S)].name), n)
    BY <2>5, UnstageKeepsMem
  <2> QED
    BY <2>2, <2>5, <2>6, <2>7 DEF Quit
<1>4. MemInv(f[U], n)
  BY <1>3
<1> QED
  BY <1>4 DEF f, U, sets

----------------------------------------------------------------------------
(* The session *)

LEMMA CommandKeepsMem ==
    ASSUME cmd \in Texts \cup {Garbled}, MemInv(mem, ids),
           AddCommand \/ LoadCommand \/ StageCommand \/ UnstageCommand \/ RemoveCommand
             \/ ReportCommand \/ QuitCommand
    PROVE  MemInv(mem', ids')
<1>1. cmd[2] \in NameSet
  BY DEF NameSet
<1>2. mem.axiom_sets \in Seq(SetRecord)
  BY DEF MemInv, IsMem
<1>3. CASE UNCHANGED <<mem, ids>>
  BY <1>3
<1>4. ASSUME NEW ok, AddSet(cmd[2], ok)
      PROVE  MemInv(mem', ids')
  <2>1. PICK m \in ClauseSetAlloc(mem, ids + 1) :
          IF ListedAs(cmd[2]) = {}
          THEN mem' = [m EXCEPT !.axiom_sets =
                         Append(@, [name |-> cmd[2], id |-> ids + 1, staged |-> FALSE])]
          ELSE mem' = AxiomSetFree(m, ids + 1)
    BY <1>4 DEF AddSet
  <2>2. MemInv(m, ids) /\ m.axiom_sets = mem.axiom_sets /\ ids' = ids + 1
    BY <1>4, <2>1, AllocKeepsMem DEF AddSet
  <2>3. CASE ListedAs(cmd[2]) = {}
    <3>1. IndicesOf(cmd[2], m.axiom_sets) = {}
      BY <2>2, <2>3 DEF ListedAs
    <3> QED
      BY <1>1, <2>1, <2>2, <2>3, <3>1, AddKeepsMem
  <2>4. CASE ListedAs(cmd[2]) # {}
    <3>1. mem' = AxiomSetFree(m, ids + 1)
      BY <2>1, <2>4
    <3>2. ids \in Nat /\ ids + 1 \in 1..(ids + 1) /\ ids + 1 \notin 1..ids
      BY DEF MemInv
    <3>3. ~ OnStack(ids + 1, m.clause_sets)
      BY <2>2, <3>2 DEF MemInv, StackInv, OnStack
    <3>4. \A j \in DOMAIN m.axiom_sets : m.axiom_sets[j].id # ids + 1
      BY <2>2, <3>2 DEF MemInv, ListInv
    <3> QED
      BY <2>2, <3>1, <3>2, <3>3, <3>4, FreeKeepsMem
  <2> QED
    BY <2>3, <2>4
<1>5. CASE AddCommand
  BY <1>3, <1>4, <1>5 DEF AddCommand
<1>6. CASE LoadCommand
  BY <1>3, <1>4, <1>6 DEF LoadCommand
<1>7. CASE StageCommand
  <2> DEFINE i == Min(ListedAs(cmd[2]))
  <2>1. CASE ListedAs(cmd[2]) # {} /\ ~ mem.axiom_sets[i].staged
    <3>1. mem' = StageSet(mem, i) /\ ids' = ids
      BY <1>7, <2>1 DEF StageCommand
    <3>2. ListedAs(cmd[2]) \subseteq DOMAIN mem.axiom_sets /\ DOMAIN mem.axiom_sets \subseteq Nat
      BY <1>2 DEF ListedAs, IndicesOf
    <3>3. i \in DOMAIN mem.axiom_sets
      BY <2>1, <3>2, LeastIsIn
    <3> HIDE DEF i
    <3> QED
      BY <2>1, <3>1, <3>3, StageKeepsMem
  <2>2. CASE ~ (ListedAs(cmd[2]) # {} /\ ~ mem.axiom_sets[i].staged)
    BY <1>3, <1>7, <2>2 DEF StageCommand
  <2> QED
    BY <2>1, <2>2
<1>8. CASE UnstageCommand
  <2>1. MemInv(UnstageSet(mem, cmd[2]), ids)
    BY UnstageKeepsMem
  <2>2. ids' = ids /\ (mem' = mem \/ mem' = UnstageSet(mem, cmd[2]))
    BY <1>8 DEF UnstageCommand
  <2> QED
    BY <2>1, <2>2
<1>9. CASE RemoveCommand
  <2> DEFINE T == ListedAs(cmd[2])
             i == Max(T)
  <2>1. CASE T = {}
    BY <1>3, <1>9, <2>1 DEF RemoveCommand
  <2>2. CASE T # {}
    <3>1. i \in DOMAIN mem.axiom_sets
      BY <1>2, <2>2, TopOf DEF ListedAs
    <3>2. ids' = ids
      BY <1>9 DEF RemoveCommand
    <3> DEFINE r == mem.axiom_sets[i]
               p == RemoveAt(mem.axiom_sets, i)
               rest == [mem EXCEPT !.axiom_sets = p]
    <3>3. \/ mem' = [mem EXCEPT !.axiom_sets = Upto(i - 1, mem.axiom_sets)]
          \/ ~ r.staged /\ mem' = AxiomSetFree(rest, r.id)
      BY <1>9, <2>2 DEF RemoveCommand
    <3> HIDE DEF i
    <3>4. CASE mem' = [mem EXCEPT !.axiom_sets = Upto(i - 1, mem.axiom_sets)]
      <4>1. i - 1 \in 0..Len(mem.axiom_sets)
        BY <1>2, <3>1
      <4>2. /\ Upto(i - 1, mem.axiom_sets) \in Seq(SetRecord)
            /\ IsPart(Upto(i - 1, mem.axiom_sets), mem.axiom_sets)
        BY <1>2, <4>1, UptoIsPart
      <4> QED
        BY <3>2, <3>4, <4>2, RemoveKeepsMem
    <3>5. CASE ~ r.staged /\ mem' = AxiomSetFree(rest, r.id)
      <4> DEFINE l == Len(mem.axiom_sets)
      <4>1. p \in Seq(SetRecord) /\ IsPart(p, mem.axiom_sets) /\ Len(p) = l - 1
            /\ \A j \in 1..(l - 1) : p[j] = mem.axiom_sets[IF j < i THEN j ELSE j + 1]
        BY <1>2, <3>1, RemoveAtType, RemoveAtIsPart
      <4>2. l \in Nat /\ DOMAIN mem.axiom_sets = 1..l /\ DOMAIN p = 1..(l - 1) /\ i \in 1..l
        BY <1>2, <3>1, <4>1
      <4> HIDE DEF p, l
      <4>3. MemInv(rest, ids)
        BY <4>1, RemoveKeepsMem
      <4>4. rest.axiom_sets = p /\ rest.clause_sets = mem.clause_sets
        BY DEF MemInv, IsMem
      <4>5. r.id \in 1..ids /\ ~ OnStack(r.id, mem.clause_sets) /\ ids \in {ids, ids + 1}
        BY <3>1, <3>5 DEF MemInv, ListInv, StagedInv
      <4>6. \A j \in DOMAIN p : p[j].id # r.id
        <5> SUFFICES ASSUME NEW j \in 1..(l - 1), p[j].id = r.id
                     PROVE  FALSE
          BY <4>2
        <5> DEFINE h == IF j < i THEN j ELSE j + 1
        <5>1. h \in 1..l /\ h # i
          BY <4>2
        <5> HIDE DEF h
        <5>2. mem.axiom_sets[h].id = mem.axiom_sets[i].id
          BY <4>1 DEF h
        <5> QED
          BY <4>2, <5>1, <5>2 DEF MemInv, ListInv
      <4> HIDE DEF r, rest
      <4>7. MemInv(AxiomSetFree(rest, r.id), ids)
        BY <4>3, <4>4, <4>5, <4>6, FreeKeepsMem
      <4> QED
        BY <3>2, <3>5, <4>7
    <3> QED
      BY <3>3, <3>4, <3>5
  <2> QED
    BY <2>1, <2>2
<1>10. CASE ReportCommand
  BY <1>3, <1>10 DEF ReportCommand
<1>11. CASE QuitCommand
  <2>1. mem' = Quits(mem.axiom_sets, mem)[DOMAIN mem.axiom_sets] /\ ids' = ids
    BY <1>11, FoldIsQuit, Zenon DEF QuitCommand
  <2> QED
    BY <2>1, QuitKeepsMem
<1> QED
  BY <1>5, <1>6, <1>7, <1>8, <1>9, <1>10, <1>11

(* A session that reads, or waits for a job, leaves its sets alone, and    *)
(* there is no job while it executes a command.                            *)
LEMMA ReadingKeepsSpec ==
    ASSUME SpecInv, UNCHANGED <<mem, ids, jpc, jmem>>, cmd' \in Texts \cup {Garbled}
    PROVE  SpecInv'
<1>1. MemInv(mem, ids)'
  BY DEF SpecInv
<1>2. JobMemInv'
  BY DEF SpecInv, JobMemInv
<1> QED
  BY <1>1, <1>2 DEF SpecInv

LEMMA SessionKeepsSpec ==
    ASSUME SpecInv, RunnerInv, Session
    PROVE  SpecInv'
<1> USE DEF job
<1>0. cmd \in Texts \cup {Garbled} /\ MemInv(mem, ids) /\ JobMemInv
  BY DEF SpecInv
<1>1. CASE ServerReadsHeader \/ ServerLosesClient
  BY <1>0, <1>1, ReadingKeepsSpec DEF ServerReadsHeader, ServerLosesClient, session
<1>2. CASE ServerReadsRest
  <2>1. cmd' \in Texts \cup {Garbled}
    BY <1>0, <1>2 DEF ServerReadsRest, TakeText
  <2> QED
    BY <1>2, <2>1, ReadingKeepsSpec DEF ServerReadsRest
<1>3. ASSUME AddCommand \/ LoadCommand \/ StageCommand \/ UnstageCommand \/ RemoveCommand
               \/ ReportCommand \/ QuitCommand
      PROVE  SpecInv'
  <2>1. MemInv(mem, ids)'
    BY <1>0, <1>3, CommandKeepsMem
  <2>2. pc = "exec" /\ UNCHANGED <<cmd, jpc, jmem>>
    <3>1. CASE AddCommand \/ LoadCommand
      BY <3>1 DEF AddCommand, LoadCommand, Exec, RestUnchanged
    <3>2. CASE StageCommand \/ UnstageCommand
      BY <3>2 DEF StageCommand, UnstageCommand, Exec, RestUnchanged
    <3>3. CASE RemoveCommand
      BY <3>3 DEF RemoveCommand, Exec, RestUnchanged
    <3>4. CASE ReportCommand
      BY <3>4 DEF ReportCommand, Exec, RestUnchanged
    <3>5. CASE QuitCommand
      BY <3>5 DEF QuitCommand, Exec, RestUnchanged
    <3> QED
      BY <1>3, <3>1, <3>2, <3>3, <3>4, <3>5
  <2>3. jpc = "none"
    BY <2>2 DEF RunnerInv, JobInv
  <2>4. JobMemInv'
    BY <1>0, <2>2, <2>3 DEF JobMemInv, WithProblem
  <2> QED
    BY <1>0, <2>1, <2>2, <2>4 DEF SpecInv
<1>4. CASE RunCommand
  <2>1. jpc' = "started" /\ jmem' = mem /\ UNCHANGED <<cmd, mem, ids>>
    BY <1>4 DEF RunCommand
  <2>2. JobMemInv'
    BY <1>0, <2>1 DEF JobMemInv, WithProblem, MemInv, SharedInv
  <2> QED
    BY <1>0, <2>1, <2>2 DEF SpecInv
<1>5. CASE WaitForJob
  <2>1. jpc' = "none" /\ jmem' = EmptyMem /\ UNCHANGED <<cmd, mem, ids>>
    BY <1>5 DEF WaitForJob
  <2>2. IsMem(EmptyMem) /\ Counted(EmptyMem.clause_sets, EmptyMem.f_distrib) /\ Kept(EmptyMem)
    BY DEF EmptyMem, IsMem, Counted, Kept
  <2>3. JobMemInv'
    BY <2>1, <2>2 DEF JobMemInv, WithProblem
  <2> QED
    BY <1>0, <2>1, <2>3 DEF SpecInv
<1> QED
  BY <1>1, <1>2, <1>3, <1>4, <1>5 DEF Session

----------------------------------------------------------------------------
(* The job *)

(* StructFOFSpecBacktrackToSpec takes down what is above shared_ax_sp. *)
LEMMA BacktrackTakesDown ==
    ASSUME NEW m, IsMem(m), NEW stack \in Seq(StackRecord), NEW s \in StackRecord,
           m.clause_sets = Append(stack, s), m.shared_ax_sp = Len(stack),
           Counted(m.clause_sets, m.f_distrib), Kept(m)
    PROVE  LET new == StructFOFSpecBacktrackToSpec(m) IN
           /\ IsMem(new) /\ new.clause_sets = stack
           /\ Counted(new.clause_sets, new.f_distrib) /\ Kept(new)
<1> DEFINE up == m.clause_sets
           f == m.f_distrib
           n == Len(stack)
           new == StructFOFSpecBacktrackToSpec(m)
           g == [i \in DOMAIN f |-> IF i = s.id THEN f[i] - 1 ELSE f[i]]
<1>1. /\ up \in Seq(StackRecord) /\ DOMAIN f \subseteq Nat /\ f \in [DOMAIN f -> Nat]
      /\ m.axiom_sets \in Seq(SetRecord)
      /\ m = [axiom_sets |-> m.axiom_sets, clause_sets |-> up, f_distrib |-> f,
              shared_ax_sp |-> n, gc_sets |-> m.gc_sets, freed |-> m.freed]
      /\ up = Append(stack, s) /\ Counted(up, f)
      /\ \A k \in DOMAIN up : up[k].id \in m.gc_sets /\ up[k].id \notin m.freed
  BY DEF IsMem, Kept
<1>2. /\ n \in Nat /\ DOMAIN stack = 1..n /\ DOMAIN up = 1..(n + 1) /\ Len(up) = n + 1
      /\ up[n + 1] = s /\ \A k \in 1..n : up[k] = stack[k]
  <2> HIDE DEF up
  <2> QED
    BY <1>1
<1> DEFINE extra == After(n, up)
           gone_ids == {t.id : t \in ToSet(extra)}
<1>3. Upto(n, up) = stack
  <2> HIDE DEF up
  <2> QED
    BY <1>1, <1>2 DEF Upto
<1>4. gone_ids = {s.id}
  <2> HIDE DEF up
  <2>1. extra \in Seq(StackRecord) /\ Len(extra) = 1 /\ extra[1] = s
    BY <1>1, <1>2 DEF After
  <2> HIDE DEF extra
  <2>2. DOMAIN extra = 1..1
    BY <2>1
  <2>3. ToSet(extra) = {s}
    BY <2>1, <2>2 DEF ToSet
  <2> QED
    BY <2>3
<1>5. new = [m EXCEPT !.clause_sets = Upto(n, up),
                      !.f_distrib = [i \in DOMAIN f |-> IF i \in gone_ids THEN f[i] - 1 ELSE f[i]],
                      !.gc_sets = @ \ gone_ids, !.freed = @ \cup gone_ids]
  BY DEF StructFOFSpecBacktrackToSpec
<1>6. new = [axiom_sets |-> m.axiom_sets, clause_sets |-> stack, f_distrib |-> g,
             shared_ax_sp |-> n, gc_sets |-> m.gc_sets \ {s.id},
             freed |-> m.freed \cup {s.id}]
  <2>1. [i \in DOMAIN f |-> IF i \in gone_ids THEN f[i] - 1 ELSE f[i]] = g
    BY <1>4
  <2> DEFINE gc == m.gc_sets
             freed == m.freed
             sets == m.axiom_sets
  <2> HIDE DEF g, new, up, f, gone_ids, gc, freed, sets
  <2>2. new = [m EXCEPT !.clause_sets = stack, !.f_distrib = g, !.gc_sets = @ \ {s.id},
                        !.freed = @ \cup {s.id}]
    BY <1>3, <1>4, <1>5, <2>1
  <2> QED
    BY <1>1, <2>2 DEF gc, freed, sets
<1> SUFFICES IsMem(new) /\ new.clause_sets = stack /\ Counted(new.clause_sets, new.f_distrib)
             /\ Kept(new)
  BY DEF new
<1> HIDE DEF new, up, f, n, extra, gone_ids
<1>7. \A k, l \in DOMAIN up : up[k].id = up[l].id => k = l
  BY <1>1 DEF Counted
<1>8. \A k \in 1..n : stack[k].id # s.id
  <2> SUFFICES ASSUME NEW k \in 1..n, stack[k].id = s.id
               PROVE  FALSE
    OBVIOUS
  <2>1. k \in DOMAIN up /\ n + 1 \in DOMAIN up /\ up[k].id = up[n + 1].id
    BY <1>2
  <2>2. k = n + 1
    BY <1>7, <2>1
  <2> QED
    BY <1>2, <2>2
<1>9. \A i : OnStack(i, up) <=> OnStack(i, stack) \/ i = s.id
  <2>1. \A k \in 1..(n + 1) : k \in 1..n \/ k = n + 1
    BY <1>2
  <2>2. \A k \in 1..n : k \in 1..(n + 1)
    BY <1>2
  <2>3. n + 1 \in 1..(n + 1)
    BY <1>2
  <2> QED
    BY <1>2, <2>1, <2>2, <2>3, Zenon DEF OnStack
<1>10. \A i \in DOMAIN f : f[i] = IF OnStack(i, up) THEN 1 ELSE 0
  BY <1>1 DEF Counted
<1>11. ~ OnStack(s.id, stack)
  BY <1>2, <1>8 DEF OnStack
<1>12. DOMAIN g = DOMAIN f /\ \A i \in DOMAIN f : g[i] = IF OnStack(i, stack) THEN 1 ELSE 0
  <2>1. \A i \in DOMAIN f : g[i] = IF i = s.id THEN f[i] - 1 ELSE f[i]
    OBVIOUS
  <2>2. DOMAIN g = DOMAIN f
    OBVIOUS
  <2> HIDE DEF g
  <2> SUFFICES ASSUME NEW i \in DOMAIN f
               PROVE  g[i] = IF OnStack(i, stack) THEN 1 ELSE 0
    BY <2>2
  <2>3. CASE i = s.id
    BY <1>9, <1>10, <1>11, <2>1, <2>3
  <2>4. CASE i # s.id
    BY <1>9, <1>10, <2>1, <2>4
  <2> QED
    BY <2>3, <2>4
<1>13. g \in [DOMAIN g -> Nat]
  <2>1. \A i \in DOMAIN g : g[i] \in Nat
    BY <1>12
  <2>2. g = [i \in DOMAIN g |-> g[i]]
    OBVIOUS
  <2> HIDE DEF g
  <2> QED
    BY <2>1, <2>2
<1> HIDE DEF g
<1>14. Counted(stack, g)
  <2>1. \A k, l \in DOMAIN stack : stack[k].id = stack[l].id => k = l
    <3> SUFFICES ASSUME NEW k \in 1..n, NEW l \in 1..n, stack[k].id = stack[l].id
                 PROVE  k = l
      BY <1>2
    <3>1. k \in DOMAIN up /\ l \in DOMAIN up /\ up[k].id = up[l].id
      BY <1>2
    <3> QED
      BY <1>7, <3>1
  <2>2. \A k \in DOMAIN stack : stack[k].id \in DOMAIN g
    <3> SUFFICES ASSUME NEW k \in 1..n
                 PROVE  stack[k].id \in DOMAIN f
      BY <1>2, <1>12
    <3>1. k \in DOMAIN up /\ up[k] = stack[k]
      BY <1>2
    <3> QED
      BY <1>1, <3>1 DEF Counted
  <2> QED
    BY <1>12, <2>1, <2>2 DEF Counted
<1>15. IsMem(new)
  BY <1>1, <1>6, <1>12, <1>13 DEF IsMem
<1>16. Kept(new)
  <2>1. new.clause_sets = stack /\ new.gc_sets = m.gc_sets \ {s.id}
        /\ new.freed = m.freed \cup {s.id}
    BY <1>6
  <2>2. \A k \in 1..n : k \in DOMAIN up /\ up[k] = stack[k]
    BY <1>2
  <2>3. \A k \in DOMAIN stack : stack[k].id \in m.gc_sets /\ stack[k].id \notin m.freed
    BY <1>1, <1>2, <2>2
  <2> QED
    BY <1>2, <1>8, <2>1, <2>3 DEF Kept
<1> QED
  BY <1>6, <1>14, <1>15, <1>16

LEMMA JobKeepsSpec ==
    ASSUME SpecInv, RunnerInv, Job
    PROVE  SpecInv'
<1>0. /\ cmd \in Texts \cup {Garbled} /\ MemInv(mem, ids) /\ JobMemInv
      /\ mem.clause_sets \in Seq(StackRecord)
  BY DEF SpecInv, MemInv, IsMem
<1>1. UNCHANGED <<cmd, mem, ids>>
  <2> USE DEF Idle, session
  <2>1. CASE JobStarts \/ ParseJob \/ TestTime \/ CreateRunner \/ ReadPid
    BY <2>1 DEF JobStarts, ParseJob, TestTime, CreateRunner, ReadPid
  <2>2. CASE Select \/ EndOfRound \/ ReportJob \/ JobFinishes
    BY <2>2 DEF Select, EndOfRound, ReportJob, JobFinishes
  <2>3. CASE \E r \in Runners : ReadLine(r) \/ GetResult(r)
    BY <2>3 DEF ReadLine, GetResult
  <2>4. CASE \E r \in Runners : CleanupRunner(r)
    BY <2>4 DEF CleanupRunner
  <2> QED
    BY <2>1, <2>2, <2>3, <2>4 DEF Job
<1>2. JobSet \in StackRecord /\ JobSet.id = 0
  BY DEF JobSet, StackRecord, NameSet
<1> SUFFICES JobMemInv'
  BY <1>0, <1>1 DEF SpecInv
<1>3. CASE ParseJob
  <2>1. jpc = "parse" /\ jmem = mem
    BY <1>0, <1>3 DEF ParseJob, JobMemInv
  <2>2. CASE jpc' = "error" /\ jmem' = jmem
    BY <1>0, <1>1, <2>2 DEF JobMemInv, WithProblem
  <2>3. ASSUME NEW m \in ClauseSetAlloc(jmem, JobSet.id), jpc' = "loop",
               jmem' = StructFOFSpecAddProblem(m, JobSet)
        PROVE  JobMemInv'
    <3>1. MemInv(m, ids) /\ m.clause_sets = mem.clause_sets
      BY <1>0, <2>1, <2>3, AllocKeepsMem
    <3>2. /\ IsMem(m) /\ Counted(m.clause_sets, m.f_distrib) /\ Kept(m)
          /\ m.shared_ax_sp = Len(mem.clause_sets)
      BY <3>1 DEF MemInv, SharedInv
    <3>3. ~ OnStack(JobSet.id, m.clause_sets) /\ JobSet.id \notin m.freed
      BY <1>2, <3>1 DEF OnStack, MemInv, StackInv, FreedInv
    <3>4. /\ IsMem(jmem') /\ Counted(jmem'.clause_sets, jmem'.f_distrib)
          /\ jmem'.clause_sets = Append(mem.clause_sets, JobSet)
          /\ jmem'.shared_ax_sp = Len(mem.clause_sets)
          /\ jmem'.gc_sets = m.gc_sets \cup {JobSet.id} /\ jmem'.freed = m.freed
      BY <1>2, <2>3, <3>1, <3>2, <3>3, AddProblem
    <3>5. Kept(jmem')
      <4> DEFINE stack == mem.clause_sets
                 up == jmem'.clause_sets
                 l == Len(stack)
      <4>1. up = Append(stack, JobSet) /\ stack \in Seq(StackRecord)
        BY <1>0, <3>4
      <4>2. \A k \in DOMAIN stack : stack[k].id \in m.gc_sets /\ stack[k].id \notin m.freed
        BY <3>1, <3>2 DEF Kept
      <4> HIDE DEF stack, up
      <4>3. l \in Nat /\ DOMAIN up = 1..(l + 1) /\ DOMAIN stack = 1..l
            /\ up[l + 1] = JobSet /\ \A k \in 1..l : up[k] = stack[k]
        BY <1>2, <4>1
      <4>4. \A k \in 1..(l + 1) : k \in 1..l \/ k = l + 1
        BY <4>3
      <4>5. \A k \in DOMAIN up : /\ up[k].id \in m.gc_sets \cup {JobSet.id}
                                 /\ up[k].id \notin m.freed
        BY <3>3, <4>2, <4>3, <4>4
      <4> QED
        BY <3>4, <4>5 DEF Kept, up
    <3> QED
      BY <1>1, <2>3, <3>4, <3>5 DEF JobMemInv, WithProblem
  <2> QED
    BY <1>3, <2>2, <2>3 DEF ParseJob
<1>4. CASE ReportJob
  <2>1. jpc = "report" /\ jmem' = StructFOFSpecBacktrackToSpec(jmem) /\ jpc' \in {"free", "sigpipe"}
    BY <1>4 DEF ReportJob, JobSends
  <2>2. /\ IsMem(jmem) /\ Counted(jmem.clause_sets, jmem.f_distrib) /\ Kept(jmem)
        /\ jmem.clause_sets = Append(mem.clause_sets, JobSet)
        /\ jmem.shared_ax_sp = Len(mem.clause_sets)
    BY <1>0, <2>1 DEF JobMemInv, WithProblem
  <2>3. /\ IsMem(jmem') /\ jmem'.clause_sets = mem.clause_sets
        /\ Counted(jmem'.clause_sets, jmem'.f_distrib) /\ Kept(jmem')
    BY <1>0, <1>2, <2>1, <2>2, BacktrackTakesDown
  <2> QED
    BY <1>1, <2>1, <2>3 DEF JobMemInv, WithProblem
<1>5. CASE JobStarts
  <2>1. jpc = "started" /\ jpc' \in {"parse", "sigpipe"} /\ jmem' = jmem
    BY <1>5 DEF JobStarts, JobSends
  <2> QED
    BY <1>0, <1>1, <2>1 DEF JobMemInv, WithProblem
<1>6. CASE TestTime \/ CreateRunner \/ ReadPid \/ Select \/ EndOfRound
           \/ \E r \in Runners : ReadLine(r) \/ GetResult(r)
  <2>1. jpc \in WithProblem /\ jpc' \in WithProblem \cup {"error"} /\ jmem' = jmem
    BY <1>6 DEF TestTime, CreateRunner, ReadPid, Select, EndOfRound, ReadLine, GetResult, WithProblem
  <2> QED
    BY <1>0, <1>1, <2>1 DEF JobMemInv, WithProblem
<1>7. CASE JobFinishes \/ \E r \in Runners : CleanupRunner(r)
  <2>1. jpc = "free" /\ jpc' \in {"free", "done", "sigpipe"} /\ jmem' = jmem
    BY <1>7 DEF JobFinishes, JobSends, CleanupRunner
  <2> QED
    BY <1>0, <1>1, <2>1 DEF JobMemInv, WithProblem
<1> QED
  BY <1>3, <1>4, <1>5, <1>6, <1>7 DEF Job

LEMMA SpecInit ==
    ASSUME Init
    PROVE  SpecInv
<1>1. cmd = Go /\ mem = EmptyMem /\ ids = 0 /\ jpc = "none" /\ jmem = EmptyMem
  BY DEF Init
<1>2. IsMem(EmptyMem) /\ Counted(EmptyMem.clause_sets, EmptyMem.f_distrib) /\ Kept(EmptyMem)
  BY DEF EmptyMem, IsMem, Counted, Kept
<1>3. MemInv(EmptyMem, 0)
  BY <1>2 DEF EmptyMem, MemInv, StackInv, ListInv, StagedInv, SharedInv, FreedInv
<1>4. Go \in Texts
  BY BlocksAssumption
<1> QED
  BY <1>1, <1>2, <1>3, <1>4 DEF SpecInv, JobMemInv, WithProblem

LEMMA SpecStep ==
    ASSUME SpecInv, RunnerInv, [Next]_vars
    PROVE  SpecInv'
<1>1. CASE Session
  BY <1>1, SessionKeepsSpec
<1>2. CASE Job
  BY <1>2, JobKeepsSpec
<1>3. CASE ~ Session /\ ~ Job
  <2>1. UNCHANGED <<mem, ids, jpc, jmem, cmd>>
    BY <1>3 DEF Next, Client, ClientSends, ClientWrites, ClientCloses, TimePasses, Over,
                RunnerWorks, RunnerEnds, Idle, session, job, vars
  <2>2. cmd' \in Texts \cup {Garbled}
    BY <2>1 DEF SpecInv
  <2> QED
    BY <2>1, <2>2, ReadingKeepsSpec
<1> QED
  BY <1>1, <1>2, <1>3

(* No set is twice on the stack. *)
LEMMA OnStackOnce ==
    ASSUME NEW m, Counted(m.clause_sets, m.f_distrib), NEW i
    PROVE  OnStackTimes(m, i) = IF OnStack(i, m.clause_sets) THEN 1 ELSE 0
<1> DEFINE stack == m.clause_sets
           K == {k \in DOMAIN stack : stack[k].id = i}
<1>1. CASE OnStack(i, stack)
  <2>1. PICK k \in DOMAIN stack : stack[k].id = i
    BY <1>1 DEF OnStack
  <2>2. K = {k}
    BY <2>1 DEF Counted
  <2> HIDE DEF K
  <2>3. Cardinality(K) = 1
    BY <2>2, FS_Singleton
  <2> QED
    BY <1>1, <2>3 DEF K, OnStackTimes
<1>2. CASE ~ OnStack(i, stack)
  <2>1. K = {}
    BY <1>2 DEF OnStack
  <2> HIDE DEF K
  <2>2. Cardinality(K) = 0
    BY <2>1, FS_EmptySet
  <2> QED
    BY <1>2, <2>2 DEF K, OnStackTimes
<1> QED
  BY <1>1, <1>2

LEMMA CountedIsKept ==
    ASSUME NEW m, Counted(m.clause_sets, m.f_distrib), Kept(m)
    PROVE  StackIsKept(m)
<1>1. \A s \in ToSet(m.clause_sets) :
        s.id \in DOMAIN m.f_distrib /\ s.id \in m.gc_sets /\ s.id \notin m.freed
  BY DEF Counted, Kept, ToSet
<1>2. \A i \in DOMAIN m.f_distrib : m.f_distrib[i] = OnStackTimes(m, i)
  BY OnStackOnce DEF Counted
<1> QED
  BY <1>1, <1>2 DEF StackIsKept

LEMMA SpecMeansConsistent ==
    ASSUME SpecInv
    PROVE  SpecIsConsistent
<1>1. MemInv(mem, ids) /\ JobMemInv
  BY DEF SpecInv
<1>2. StackIsKept(mem) /\ mem.shared_ax_sp = Len(mem.clause_sets)
  BY <1>1, CountedIsKept DEF MemInv, SharedInv
<1>3. StackIsKept(jmem)
  BY <1>1, CountedIsKept DEF JobMemInv
<1>4. ASSUME NEW i \in DOMAIN mem.axiom_sets
      PROVE  LET s == mem.axiom_sets[i] IN
             /\ s.id \notin mem.freed
             /\ OnStackTimes(mem, s.id) = IF s.staged THEN 1 ELSE 0
  <2> DEFINE s == mem.axiom_sets[i]
  <2>1. s.staged <=> OnStack(s.id, mem.clause_sets)
    BY <1>1 DEF MemInv, StagedInv
  <2>2. s.id \notin mem.freed
    BY <1>1 DEF MemInv, FreedInv
  <2>3. OnStackTimes(mem, s.id) = IF OnStack(s.id, mem.clause_sets) THEN 1 ELSE 0
    BY <1>1, OnStackOnce DEF MemInv
  <2> QED
    BY <2>1, <2>2, <2>3
<1>5. jpc \in {"free", "done"} => jmem.clause_sets = mem.clause_sets
  BY <1>1 DEF JobMemInv
<1> QED
  BY <1>2, <1>3, <1>4, <1>5 DEF SpecIsConsistent

(* For any axiom sets, library and order of the commands, and whatever     *)
(* blocks are reused: what is staged, what is on the stack and what        *)
(* f_distrib counts agree, in the session and in a job whose problem has   *)
(* been added on top and taken down again, and no set on the stack or in   *)
(* the list has been freed or is missed by the garbage collection while it *)
(* is on the stack.                                                        *)
THEOREM SpecConsistent == Spec => []SpecIsConsistent
<1>1. Init => RunnerInv /\ SpecInv
  BY ControlInit, SpecInit
<1>2. RunnerInv /\ SpecInv /\ [Next]_vars => (RunnerInv /\ SpecInv)'
  BY ControlStep, SpecStep
<1>3. SpecInv => SpecIsConsistent
  BY SpecMeansConsistent
<1> QED
  BY <1>1, <1>2, <1>3, PTL DEF Spec
=============================================================================
