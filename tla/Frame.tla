------------------------------- MODULE Frame -------------------------------
(***************************************************************************)
(* UAVCAN frames and the CAN frames that carry them (libuavcan: Frame,     *)
(* CanFrame; uavcan_linux: the conversions of SocketCanIface).  A CAN ID   *)
(* with its flags, and a byte of data, are the sets of their 1 bits, so    *)
(* that fields that overlap are ORed as in the code.                       *)
(***************************************************************************)
EXTENDS Integers, Sequences, FiniteSets, FiniteSetsExt

EFF == 31
RTR == 30
ERR == 29
ExtID == 0..28
Broadcast == 0       \* NodeID::Broadcast
PayloadCapacity == 7

\* bitpack and bitunpack, of a field of so many bits from offset.
bitpack(offset, width, field) == {offset + i : i \in {j \in 0..width - 1 : (field \div 2^j) % 2 = 1}}
bitunpack(offset, width, id) == MapThenSumSet(LAMBDA b : 2^(b - offset), id \cap (offset..offset + width - 1))
Flag(bit, x) == IF x THEN {bit} ELSE {}

isUnicast(node) == node \in 1..127
MaxDataTypeID(type) == IF type = "message" THEN 65535 ELSE 255

\* Frame::isValid
isValid(f) ==
  /\ ~(f.sot /\ f.toggle)
  /\ f.src \in 0..127 /\ f.dst \in 0..127
  /\ isUnicast(f.src) => f.src # f.dst
  /\ f.type \in {"message", "request", "response"}
  /\ (f.type = "message") = (f.dst = Broadcast)
  /\ f.src = Broadcast => f.sot /\ f.eot /\ f.type = "message"
  /\ Len(f.payload) <= PayloadCapacity
  /\ f.dtid <= MaxDataTypeID(f.type)
  /\ f.prio <= 31

-----------------------------------------------------------------------------
\* The tail byte, after the payload.
TailByte(f) == bitpack(0, 5, f.tid) \cup Flag(7, f.sot) \cup Flag(6, f.eot) \cup Flag(5, f.toggle)

\* The node's own ID where the destination's is to be.
TypeBitsSource(f) ==
  IF f.type = "message" THEN bitpack(8, 16, f.dtid)
  ELSE {7} \cup bitpack(8, 7, f.src) \cup Flag(15, f.type = "request") \cup bitpack(16, 8, f.dtid)

\* The part of the ID that depends on the kind of transfer.
TypeBits(f) ==
  IF f.type = "message" THEN bitpack(8, 16, f.dtid)
  ELSE {7} \cup bitpack(8, 7, f.dst) \cup Flag(15, f.type = "request") \cup bitpack(16, 8, f.dtid)

\* The low bits of an anonymous frame's CRC, which keep two such frames apart.
Discriminator(f, crc) == IF f.src = Broadcast THEN bitpack(10, 14, crc) ELSE {}

\* Frame::compile, of a valid frame.
compile(f, crc) ==
  [id |-> {EFF} \cup bitpack(0, 7, f.src) \cup bitpack(24, 5, f.prio) \cup TypeBits(f) \cup Discriminator(f, crc),
   data |-> Append(f.payload, TailByte(f))]

\* Frame::parse: the frame, which counts if isValid(parse(c)).
parsable(c) == EFF \in c.id /\ RTR \notin c.id /\ ERR \notin c.id /\ Len(c.data) >= 1

\* The data type ID of a message; an anonymous one's without the discriminator.
MessageTypeIDAll(id, src) == bitunpack(8, 16, id)
MessageTypeID(id, src) == IF src = Broadcast THEN bitunpack(8, 16, id) % 4 ELSE bitunpack(8, 16, id)

parse(c) ==
  LET src == bitunpack(0, 7, c.id)
      service == 7 \in c.id
      tail == c.data[Len(c.data)]
  IN [prio |-> bitunpack(24, 5, c.id), src |-> src,
      type |-> IF ~service THEN "message" ELSE IF 15 \in c.id THEN "request" ELSE "response",
      dst |-> IF service THEN bitunpack(8, 7, c.id) ELSE Broadcast,
      dtid |-> IF service THEN bitunpack(16, 8, c.id) ELSE MessageTypeID(c.id, src),
      payload |-> SubSeq(c.data, 1, Len(c.data) - 1),
      sot |-> 7 \in tail, eot |-> 6 \in tail, toggle |-> 5 \in tail, tid |-> bitunpack(0, 5, tail)]

-----------------------------------------------------------------------------
\* Decided by the lowest bit.
BelowLow(a, b) ==
  LET differ == (a \ b) \cup (b \ a)
  IN differ # {} /\ Min(differ) \in b

\* a < b for the sets of their bits: the highest bit they differ in is b's.
Below(a, b) ==
  LET differ == (a \ b) \cup (b \ a)
  IN differ # {} /\ Max(differ) \in b

\* CanFrame::priorityHigherThan: the arbitration on the bus.
priorityHigherThan(a, b) ==
  LET clean(c) == c.id \cap ExtID
      extended(c) == EFF \in c.id
      arb11(c) == IF extended(c) THEN {i - 18 : i \in clean(c) \cap 18..28} ELSE clean(c)
      remote(c) == RTR \in c.id
  IN IF extended(a) # extended(b)
     THEN IF arb11(a) # arb11(b) THEN Below(arb11(a), arb11(b)) ELSE extended(b)
     ELSE IF clean(a) = clean(b) /\ remote(a) # remote(b) THEN remote(b)
     ELSE Below(clean(a), clean(b))

\* SocketCanIface::makeSocketCanFrame and makeUavcanFrame: the flags, one by one.
makeSocketCanFrame(c) == [id |-> (c.id \cap ExtID) \cup (c.id \cap {EFF, ERR, RTR}), data |-> c.data]
makeUavcanFrame(s) == [id |-> (s.id \cap ExtID) \cup (s.id \cap {EFF, ERR, RTR}), data |-> SubSeq(s.data, 1, Min({Len(s.data), 8}))]
=============================================================================
