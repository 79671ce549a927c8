--------------------------- MODULE SensorTlvProofs ---------------------------
(***************************************************************************)
(* The decoding loop stays inside its bytes, produces values of the right  *)
(* width and delivers what the sensor meant, for reports of any length.    *)
(***************************************************************************)
EXTENDS SensorTlv, TLAPS

-----------------------------------------------------------------------------
(* Arithmetic of the header and of the values.                             *)

LEMMA HeaderArithmetic ==
    ASSUME NEW h \in 0..255
    PROVE  h % 64 \in 0..63 /\ h \div 64 \in 0..3
BY SMT

\* lo and hi are the low 24 and the high 8 bits of a value.
LEMMA ValueArithmetic ==
    ASSUME NEW lo \in Int, 0 <= lo, lo <= 16777215,
           NEW hi \in Int, 0 <= hi, hi <= 255
    PROVE  /\ int16(lo % 65536) \in Int
           /\ -32768 <= int16(lo % 65536) /\ int16(lo % 65536) <= 32767
           /\ (lo \div 2) % 65536 \in Int
           /\ 0 <= (lo \div 2) % 65536 /\ (lo \div 2) % 65536 <= 65535
           /\ (lo \div 2) % 256 \in Int
           /\ 0 <= (lo \div 2) % 256 /\ (lo \div 2) % 256 <= 255
           /\ lo % 65536 \in Int
           /\ 0 <= lo % 65536 /\ lo % 65536 <= 65535
           /\ (lo % 256) \div 2 \in Int
           /\ 0 <= (lo % 256) \div 2 /\ (lo % 256) \div 2 <= 127
           /\ hi \div 64 \in Int /\ 0 <= hi \div 64 /\ hi \div 64 <= 3
BY SMT DEF int16

LEMMA AccelArithmetic ==
    ASSUME NEW lo \in Int, 0 <= lo, lo <= 16777215,
           NEW hi \in Int, 0 <= hi, hi <= 255
    PROVE  /\ (hi % 64) * 16 + (lo \div 1048576) - 512 \in Int
           /\ -512 <= (hi % 64) * 16 + (lo \div 1048576) - 512
           /\ (hi % 64) * 16 + (lo \div 1048576) - 512 <= 511
           /\ ((lo \div 1024) % 1024) - 512 \in Int
           /\ -512 <= ((lo \div 1024) % 1024) - 512
           /\ ((lo \div 1024) % 1024) - 512 <= 511
           /\ (lo % 1024) - 512 \in Int
           /\ -512 <= (lo % 1024) - 512
           /\ (lo % 1024) - 512 <= 511
BY SMT

Word24(v) == v \in Int /\ 0 <= v /\ v <= 16777215

LEMMA BytesArithmetic ==
    ASSUME NEW a \in Byte, NEW b \in Byte, NEW c \in Byte
    PROVE  Word24(LittleEndian(a, b, c))
BY SMT DEF LittleEndian, Word24, Byte

-----------------------------------------------------------------------------
(* One entry.                                                              *)

Bytes == size \in Nat /\ sensor_bytes \in [0..(size - 1) -> Byte]

LEMMA ByteAt ==
    ASSUME Bytes, NEW k \in Nat, k < size
    PROVE  sensor_bytes[k] \in 0..255
BY DEF Bytes, Byte

LEMMA HeaderParts ==
    ASSUME Bytes, j \in Nat, j < size
    PROVE  val_len \in {1, 2, 4, 8}
<1>1. sensor_bytes[j] \in 0..255
  BY ByteAt
<1>2. size_bits \in 0..3
  BY <1>1, HeaderArithmetic DEF size_bits
<1> QED
  BY <1>2 DEF val_len

Value24 == Word24(Low24)
Value8 == High8 \in Int /\ 0 <= High8 /\ High8 <= 255

\* The value read from an entry that fits is made of bytes of the report.
LEMMA ValueParts ==
    ASSUME Bytes, j \in Nat, j < size, j + 1 + val_len <= size
    PROVE  Value24 /\ Value8
<1>1. size \in Nat /\ val_len \in Nat
  BY HeaderParts DEF Bytes
<1>2. ASSUME NEW b \in 0..3  PROVE ValueByte(b) \in 0..255
  <2>1. CASE b < val_len
    <3>1. j + 1 + b \in Nat /\ j + 1 + b < size
      BY <1>1, <2>1
    <3> QED  BY <2>1, <3>1, ByteAt DEF ValueByte
  <2>2. CASE ~(b < val_len)
    BY <2>2 DEF ValueByte
  <2> QED  BY <2>1, <2>2
<1>3. /\ ValueByte(0) \in 0..255 /\ ValueByte(1) \in 0..255
      /\ ValueByte(2) \in 0..255 /\ ValueByte(3) \in 0..255
  BY <1>2
<1>4. Value24
  BY <1>3, BytesArithmetic, Zenon DEF Low24, Value24, Byte
<1>5. Value8
  BY <1>3, SMT DEF High8, Value8
<1> QED
  BY <1>4, <1>5

\* Every measurement an entry sets fits its member of SensorData.
LEMMA MeasuredFits ==
    ASSUME Value24, Value8, NEW f \in DOMAIN Measured
    PROVE  Fits(f, Measured[f])
<1>1. f \in DOMAIN MemberType /\ Measured[f] = MemberValue[f]
  BY DEF Measured
<1>2. \A m \in DOMAIN MemberType :
        /\ MemberValue[m] \in Int
        /\ MemberMin[m] <= MemberValue[m]
        /\ MemberValue[m] <= MemberMax[m]
  BY ValueArithmetic, AccelArithmetic, SMT
  DEF Word24, Value24, Value8, AccelX, AccelY, AccelZ, MemberType, MemberValue, MemberMin, MemberMax
<1> QED
  BY <1>1, <1>2 DEF Fits

-----------------------------------------------------------------------------
(* The loop.                                                               *)

LEMMA TypeStep ==
    ASSUME TypeOK, [Next]_vars
    PROVE  TypeOK'
<1>1. /\ Bytes
      /\ size \in Nat
      /\ j \in Nat /\ j <= size
      /\ parsing \in BOOLEAN
  BY DEF TypeOK, Bytes
<1>2. CASE EndOfData
  BY <1>2 DEF EndOfData, Finish, TypeOK
<1>3. CASE SkipCommissioning
  <2>1. j' \in 0..size /\ UNCHANGED <<sensor_bytes, size, sensor_data, parsing>>
    BY <1>1, <1>3 DEF SkipCommissioning, Advance, k_tlv_commissioning_block
  <2> QED  BY <2>1 DEF TypeOK
<1>4. CASE SkipVariable
  <2>1. CASE Finish
    BY <2>1 DEF Finish, TypeOK
  <2>2. CASE ~Finish
    <3>1. /\ ~(j + 1 >= size)
          /\ ~(sensor_bytes[j + 1] > size - (j + 2))
          /\ j' = j + 2 + sensor_bytes[j + 1]
          /\ UNCHANGED <<sensor_bytes, size, sensor_data, parsing>>
      BY <1>4, <2>2 DEF SkipVariable, Advance
    <3>2. sensor_bytes[j + 1] \in 0..255
      BY <1>1, <3>1, ByteAt
    <3>3. j' \in 0..size
      BY <1>1, <3>1, <3>2
    <3> QED  BY <3>1, <3>3 DEF TypeOK
  <2> QED  BY <2>1, <2>2
<1>5. CASE ReadValue
  <2>1. CASE Finish
    BY <2>1 DEF Finish, TypeOK
  <2>2. CASE ~Finish
    <3>1. /\ j < size
          /\ ~(j + 1 + val_len > size)
          /\ j' = j + 1 + val_len
          /\ sensor_data' = Updated(Measured)
          /\ UNCHANGED <<sensor_bytes, size, parsing>>
      BY <1>5, <2>2 DEF ReadValue, Advance
    <3>2. val_len \in Nat
      BY <1>1, <3>1, HeaderParts
    <3>3. j' \in 0..size
      BY <1>1, <3>1, <3>2
    <3>4. Value24 /\ Value8
      BY <1>1, <3>1, <3>2, ValueParts
    <3>5. \A f \in DOMAIN Measured : Fits(f, Measured[f])
      BY <3>4, MeasuredFits
    <3>6. \A f \in DOMAIN sensor_data' : Fits(f, sensor_data'[f])
      BY <3>1, <3>5 DEF Updated, TypeOK
    <3> QED  BY <3>1, <3>3, <3>6 DEF TypeOK
  <2> QED  BY <2>1, <2>2
<1>6. CASE UNCHANGED vars
  BY <1>6 DEF vars, TypeOK
<1> QED
  BY <1>2, <1>3, <1>4, <1>5, <1>6 DEF Next

\* The loop reads only the bytes of the report and decodes only values that
\* fit, for every report of every length.
THEOREM DecoderInBounds == Spec => []TypeOK
<1>1. Init => TypeOK
  BY TlvAssumption DEF Init, TypeOK, NoData
<1> QED
  BY <1>1, TypeStep, PTL DEF Spec

\* The read position strictly advances until the callback is made, so the loop
\* ends, and no measurement once decoded is lost.
THEOREM DecoderProgresses == Spec => Progress
<1> DEFINE Step == /\ parsing' => j' > j
                   /\ DOMAIN sensor_data \subseteq DOMAIN sensor_data'
<1>1. ASSUME TypeOK, [Next]_vars  PROVE [Step]_vars
  <2>1. /\ Bytes
        /\ size \in Nat
        /\ j \in Nat /\ j <= size
    BY <1>1 DEF TypeOK, Bytes
  <2>2. CASE EndOfData
    BY <2>2 DEF EndOfData, Finish
  <2>3. CASE SkipCommissioning
    BY <2>1, <2>3 DEF SkipCommissioning, Advance, k_tlv_commissioning_block
  <2>4. CASE SkipVariable
    <3>1. CASE Finish
      BY <3>1 DEF Finish
    <3>2. CASE ~Finish
      <4>1. ~(j + 1 >= size) /\ j' = j + 2 + sensor_bytes[j + 1] /\ UNCHANGED sensor_data
        BY <2>4, <3>2 DEF SkipVariable, Advance
      <4>2. sensor_bytes[j + 1] \in Nat
        BY <2>1, <4>1, ByteAt
      <4> QED  BY <2>1, <4>1, <4>2
    <3> QED  BY <3>1, <3>2
  <2>5. CASE ReadValue
    <3>1. CASE Finish
      BY <3>1 DEF Finish
    <3>2. CASE ~Finish
      <4>1. j < size /\ j' = j + 1 + val_len /\ sensor_data' = Updated(Measured)
        BY <2>5, <3>2 DEF ReadValue, Advance
      <4>2. val_len \in Nat
        BY <2>1, <4>1, HeaderParts
      <4> QED  BY <2>1, <4>1, <4>2 DEF Updated
    <3> QED  BY <3>1, <3>2
  <2> QED
    BY <1>1, <2>2, <2>3, <2>4, <2>5 DEF Next
<1> QED
  BY <1>1, DecoderInBounds, PTL DEF Spec, Progress

-----------------------------------------------------------------------------
(* What is decoded: arithmetic.  Intervals are written as bounds, since    *)
(* the provers enumerate them.                                             *)

LEMMA HeaderSplit ==
    ASSUME NEW bits \in 0..3, NEW type \in 0..63
    PROVE  (64 * bits + type) % 64 = type /\ (64 * bits + type) \div 64 = bits
BY SMT

LEMMA TemperatureBack ==
    ASSUME NEW v, Between(v, -32768, 32767)
    PROVE  int16(v % 65536) = v
<1>1. v \in Int /\ -32768 <= v /\ v <= 32767
  BY DEF Between
<1>2. CASE v >= 0
  <2>1. v % 65536 = v
    BY <1>1, <1>2
  <2>2. int16(v) = v
    BY <1>1, <1>2 DEF int16
  <2> QED  BY <2>1, <2>2
<1>3. CASE v < 0
  <2>1. v % 65536 = v + 65536
    BY <1>1, <1>3
  <2>2. int16(v + 65536) = v
    BY <1>1, <1>3 DEF int16
  <2> QED  BY <2>1, <2>2
<1> QED
  BY <1>1, <1>2, <1>3

\* A value w of half units is 2 * v or one more.
LEMMA HalfBack ==
    ASSUME NEW w \in Int, NEW v \in Int, w \in {2 * v, 2 * v + 1}
    PROVE  w \div 2 = v
BY SMT

\* Halving and keeping the low bits can be exchanged.
LEMMA HalfOfLow ==
    ASSUME NEW lo \in Nat
    PROVE  /\ (lo \div 2) % 65536 = (lo % 131072) \div 2
           /\ (lo \div 2) % 256 = (lo % 512) \div 2
<1>1. (lo \div 2) % 65536 = (lo % 131072) \div 2
  BY SMT
<1>2. (lo \div 2) % 256 = (lo % 512) \div 2
  BY SMT
<1> QED
  BY <1>1, <1>2

LEMMA AccelBack ==
    ASSUME NEW st, Between(st, 0, 3), NEW a, Between(a, 0, 1023),
           NEW b, Between(b, 0, 1023), NEW c, Between(c, 0, 1023),
           NEW v0, NEW v1, NEW v2, NEW v3,
           v0 = c % 256, v1 = (c \div 256) + 4 * (b % 64),
           v2 = (b \div 64) + 16 * (a % 16), v3 = (a \div 16) + 64 * st,
           NEW lo, lo = v0 + 256 * v1 + 65536 * v2
    PROVE  /\ v3 \div 64 = st
           /\ (v3 % 64) * 16 + (lo \div 1048576) = a
           /\ (lo \div 1024) % 1024 = b
           /\ lo % 1024 = c
<1> DEFINE c0 == c % 256
           c1 == c \div 256
           b0 == b % 64
           b1 == b \div 64
           a0 == a % 16
           a1 == a \div 16
<1>1. Between(c0, 0, 255) /\ Between(c1, 0, 3) /\ c = c0 + 256 * c1
  BY SMT DEF Between
<1>2. Between(b0, 0, 63) /\ Between(b1, 0, 15) /\ b = b0 + 64 * b1
  BY SMT DEF Between
<1>3. Between(a0, 0, 15) /\ Between(a1, 0, 63) /\ a = a0 + 16 * a1
  BY SMT DEF Between
<1>4. v0 = c0 /\ v1 = c1 + 4 * b0 /\ v2 = b1 + 16 * a0 /\ v3 = a1 + 64 * st
  OBVIOUS
<1> HIDE DEF c0, c1, b0, b1, a0, a1
<1>5. lo = c + 1024 * b + 1048576 * a0
  BY <1>1, <1>2, <1>3, <1>4, SMT DEF Between
<1>6. v3 \div 64 = st /\ v3 % 64 = a1
  BY <1>3, <1>4, SMT DEF Between
<1>7. lo \div 1048576 = a0
  BY <1>3, <1>5, SMT DEF Between
<1>8. lo \div 1024 = b + 1024 * a0
  BY <1>3, <1>5, SMT DEF Between
<1>9. (b + 1024 * a0) % 1024 = b
  BY <1>3, SMT DEF Between
<1>10. lo % 1024 = c
  BY <1>3, <1>5, SMT DEF Between
<1>11. a1 * 16 + a0 = a
  BY <1>3, SMT DEF Between
<1> QED
  BY <1>6, <1>7, <1>8, <1>9, <1>10, <1>11

\* The value of an entry that a sensor wrote for m is read back as m.
LEMMA MeasuredMeans ==
    ASSUME NEW m, Encodes(m, type_id, val_len, sensor_bytes, j), Value24, Value8
    PROVE  /\ DOMAIN Measured = DOMAIN m
           /\ \A f \in DOMAIN m : Measured[f] = m[f]
<1>1. DOMAIN Measured = DOMAIN m
  BY DEF Measured, Encodes
<1>2. \A f \in DOMAIN m : Writes(f, m[f], Low24, High8)
  BY Zenon DEF Encodes, Low24, High8, ValueByte
<1>3. type_id = 10 /\ val_len = 4 =>
        /\ Between(m["accel_status"], 0, 3)
        /\ \A f \in {"accel_x_cg", "accel_y_cg", "accel_z_cg"} : Between(m[f], -512, 511)
        /\ <<ValueByte(0), ValueByte(1), ValueByte(2), ValueByte(3)>> =
             AccelBytes(m["accel_status"], m["accel_x_cg"], m["accel_y_cg"], m["accel_z_cg"])
  BY Zenon DEF Encodes, ValueByte
<1>4. Low24 \in Nat /\ High8 \in Nat
  BY DEF Value24, Value8, Word24
<1>5. ASSUME NEW f \in DOMAIN m  PROVE MemberValue[f] = m[f]
  <2>1. Writes(f, m[f], Low24, High8)
    BY <1>2
  <2>2. f \in DOMAIN MemberType /\ MemberType[f] = type_id /\ (type_id = 10 => val_len = 4)
    BY DEF Encodes
  <2>3. CASE f = "temperature_cdeg"
    <3>1. Between(m[f], -32768, 32767) /\ Low24 % 65536 = m[f] % 65536
      BY <2>1, <2>3 DEF Writes
    <3>2. int16(Low24 % 65536) = m[f]
      BY <3>1, TemperatureBack
    <3> QED  BY <2>3, <3>2 DEF MemberValue
  <2>4. CASE f = "battery_voltage"
    <3>1. m[f] \in Int /\ Low24 % 131072 \in {2 * m[f], 2 * m[f] + 1}
      BY <2>1, <2>4 DEF Writes, Between
    <3>2. Low24 % 131072 \in Int
      BY <1>4
    <3>3. (Low24 % 131072) \div 2 = m[f]
      <4> DEFINE w == Low24 % 131072
      <4> HIDE DEF w
      <4>1. m[f] \in Int /\ w \in Int /\ w \in {2 * m[f], 2 * m[f] + 1}
        BY <3>1, <3>2 DEF w
      <4> QED  BY <4>1, HalfBack DEF w
    <3>4. (Low24 \div 2) % 65536 = (Low24 % 131072) \div 2
      BY <1>4, HalfOfLow
    <3> QED  BY <2>4, <3>3, <3>4 DEF MemberValue
  <2>5. CASE f = "energy_lvl"
    <3>1. m[f] \in Int /\ Low24 % 512 \in {2 * m[f], 2 * m[f] + 1}
      BY <2>1, <2>5 DEF Writes, Between
    <3>2. Low24 % 512 \in Int
      BY <1>4
    <3>3. (Low24 \div 2) % 256 = m[f]
      BY <1>4, <3>1, <3>2, HalfBack, HalfOfLow
    <3> QED  BY <2>5, <3>3 DEF MemberValue
  <2>6. CASE f = "light_solar_cell" \/ f = "light_sensor"
    <3>1. Low24 % 65536 = m[f]
      BY <2>1, <2>6 DEF Writes
    <3> QED  BY <2>6, <3>1 DEF MemberValue
  <2>7. CASE f = "humidity"
    <3>1. m[f] \in Int /\ Low24 % 256 \in {2 * m[f], 2 * m[f] + 1}
      BY <2>1, <2>7 DEF Writes, Between
    <3>2. Low24 % 256 \in Int
      BY <1>4
    <3>3. (Low24 % 256) \div 2 = m[f]
      BY <3>1, <3>2, HalfBack
    <3> QED  BY <2>7, <3>3 DEF MemberValue
  <2>8. CASE f = "occupancy"
    <3>1. m[f] \in {0, 1} /\ (m[f] = 1 <=> Low24 = 2 /\ High8 = 0)
      BY <2>1, <2>8 DEF Writes
    <3> QED  BY <2>8, <3>1 DEF MemberValue
  <2>9. CASE f = "contact"
    <3>1. m[f] \in {0, 1} /\ (m[f] = 1 <=> Low24 % 256 = 2)
      BY <2>1, <2>9 DEF Writes
    <3> QED  BY <2>9, <3>1 DEF MemberValue
  <2>10. CASE f \in {"accel_status", "accel_x_cg", "accel_y_cg", "accel_z_cg"}
    <3> DEFINE st == m["accel_status"]
               x == m["accel_x_cg"]
               y == m["accel_y_cg"]
               z == m["accel_z_cg"]
    <3>1. MemberType[f] = 10
      BY <2>10 DEF MemberType
    <3>2. /\ Between(st, 0, 3)
          /\ Between(x, -512, 511) /\ Between(y, -512, 511) /\ Between(z, -512, 511)
          /\ <<ValueByte(0), ValueByte(1), ValueByte(2), ValueByte(3)>> =
               AccelBytes(st, x, y, z)
      BY <1>3, <2>2, <3>1
    <3> HIDE DEF st, x, y, z
    <3>3. /\ ValueByte(0) = (z + 512) % 256
          /\ ValueByte(1) = ((z + 512) \div 256) + 4 * ((y + 512) % 64)
          /\ ValueByte(2) = ((y + 512) \div 64) + 16 * ((x + 512) % 16)
          /\ ValueByte(3) = ((x + 512) \div 16) + 64 * st
      BY <3>2 DEF AccelBytes
    <3>4. Between(x + 512, 0, 1023) /\ Between(y + 512, 0, 1023) /\ Between(z + 512, 0, 1023)
      BY <3>2 DEF Between
    <3>5. Low24 = ValueByte(0) + 256 * ValueByte(1) + 65536 * ValueByte(2)
      BY DEF Low24, LittleEndian
    <3>6. /\ High8 \div 64 = st
          /\ (High8 % 64) * 16 + (Low24 \div 1048576) = x + 512
          /\ (Low24 \div 1024) % 1024 = y + 512
          /\ Low24 % 1024 = z + 512
      BY <3>2, <3>3, <3>4, <3>5, AccelBack DEF High8
    <3>7. x \in Int /\ y \in Int /\ z \in Int
      BY <3>2 DEF Between
    <3>8. AccelX = x /\ AccelY = y /\ AccelZ = z
      BY <1>4, <3>6, <3>7, SMT DEF AccelX, AccelY, AccelZ
    <3>9. /\ MemberValue["accel_status"] = st /\ MemberValue["accel_x_cg"] = x
          /\ MemberValue["accel_y_cg"] = y /\ MemberValue["accel_z_cg"] = z
      BY <3>6, <3>8 DEF MemberValue
    <3> QED  BY <2>10, <3>9 DEF st, x, y, z
  <2> QED
    BY <2>2, <2>3, <2>4, <2>5, <2>6, <2>7, <2>8, <2>9, <2>10 DEF MemberType
<1>6. \A f \in DOMAIN Measured : Measured[f] = MemberValue[f]
  BY DEF Measured
<1> QED
  BY <1>1, <1>5, <1>6

-----------------------------------------------------------------------------
(* What is decoded: the loop.  After k - 1 entries the position is where   *)
(* entry k begins, or at the end of the bytes inside it, and what was      *)
(* collected is, for each measurement, that of the last of those entries.  *)

Walked(k) ==
    /\ k \in 1..(Len(sent) + 1)
    /\ At(sent, k) <= size
    /\ \/ j = At(sent, k)
       \/ k \in DOMAIN sent /\ j = size /\ sent[k].end > size

\* Of the entries before k, m is the last that carries f.
LastFor(f, m, k) ==
    /\ m \in DOMAIN sent /\ m < k /\ f \in DOMAIN sent[m].means
    /\ \A q \in DOMAIN sent : q < k /\ f \in DOMAIN sent[q].means => q <= m

Collected(k) ==
    /\ sensor_data = [f \in DOMAIN sensor_data |-> sensor_data[f]]
    /\ \A m \in DOMAIN sent : m < k => DOMAIN sent[m].means \subseteq DOMAIN sensor_data
    /\ \A f \in DOMAIN sensor_data :
          \E m \in DOMAIN sent : LastFor(f, m, k) /\ sensor_data[f] = sent[m].means[f]

DecodeInv ==
    /\ Carries(sent, size, sensor_bytes)
    /\ parsing => \E k \in 1..(Len(sent) + 1) : Walked(k) /\ Collected(k)
    /\ Decoded

\* What Carries says of the entries' places.
LEMMA Places ==
    ASSUME Carries(sent, size, sensor_bytes)
    PROVE  /\ Len(sent) \in Nat /\ DOMAIN sent = 1..Len(sent)
           /\ \A k \in DOMAIN sent : sent[k].end \in Nat /\ At(sent, k) < sent[k].end
           /\ \A k, m \in DOMAIN sent : m < k => sent[m].end <= At(sent, k)
           /\ size <= At(sent, Len(sent) + 1)
BY Zenon DEF Carries

LEMMA AtNat ==
    ASSUME Carries(sent, size, sensor_bytes), NEW k \in 1..(Len(sent) + 1)
    PROVE  At(sent, k) \in Nat
<1>1. /\ Len(sent) \in Nat /\ DOMAIN sent = 1..Len(sent)
      /\ \A m \in DOMAIN sent : sent[m].end \in Nat
  BY Places
<1>2. CASE k = 1
  BY <1>2 DEF At
<1>3. CASE k # 1
  <2>1. k - 1 \in DOMAIN sent
    BY <1>1, <1>3
  <2> QED  BY <1>1, <1>3, <2>1 DEF At
<1> QED
  BY <1>2, <1>3

LEMMA AtNext ==
    ASSUME NEW s, NEW k \in Nat \ {0}
    PROVE  At(s, k + 1) = s[k].end
<1>1. k + 1 # 1 /\ (k + 1) - 1 = k
  OBVIOUS
<1> QED
  BY <1>1 DEF At

\* The entries that arrived whole are those before the one where the loop ends.
LEMMA CompleteBefore ==
    ASSUME Carries(sent, size, sensor_bytes), size \in Nat, NEW k, Walked(k),
           k \in DOMAIN sent => sent[k].end > size
    PROVE  Complete = {m \in DOMAIN sent : m < k}
<1>1. /\ Len(sent) \in Nat /\ DOMAIN sent = 1..Len(sent)
      /\ \A m \in DOMAIN sent : sent[m].end \in Nat /\ At(sent, m) < sent[m].end
      /\ \A q, m \in DOMAIN sent : m < q => sent[m].end <= At(sent, q)
  BY Places
<1>2. k \in 1..(Len(sent) + 1) /\ At(sent, k) <= size
  BY DEF Walked
<1>3. ASSUME NEW m \in DOMAIN sent, m < k  PROVE sent[m].end <= size
  <2>1. sent[m].end <= At(sent, k)
    <3>1. CASE k \in DOMAIN sent
      BY <1>1, <1>3, <3>1
    <3>2. CASE k \notin DOMAIN sent
      <4>1. k = Len(sent) + 1 /\ Len(sent) \in DOMAIN sent /\ (m = Len(sent) \/ m < Len(sent))
        BY <1>1, <1>2, <1>3, <3>2
      <4>2. At(sent, k) = sent[Len(sent)].end
        BY <1>1, <4>1, AtNext
      <4>3. sent[m].end \in Nat /\ sent[Len(sent)].end \in Nat
            /\ At(sent, Len(sent)) < sent[Len(sent)].end
        BY <1>1, <1>3, <4>1
      <4>4. m < Len(sent) => sent[m].end <= At(sent, Len(sent))
        BY <1>1, <1>3, <4>1
      <4>5. At(sent, Len(sent)) \in Nat
        BY <1>1, <4>1, AtNat
      <4>6. CASE m = Len(sent)
        BY <4>2, <4>3, <4>6
      <4>7. CASE m < Len(sent)
        BY <4>2, <4>3, <4>4, <4>5, <4>7
      <4> QED  BY <4>1, <4>6, <4>7
    <3> QED  BY <3>1, <3>2
  <2>2. sent[m].end \in Nat /\ At(sent, k) \in Nat
    BY <1>1, <1>2, <1>3, AtNat
  <2> QED  BY <1>2, <2>1, <2>2
<1>4. ASSUME NEW m \in DOMAIN sent, ~(m < k)  PROVE ~(sent[m].end <= size)
  <2>1. k \in DOMAIN sent /\ (m = k \/ k < m)
    BY <1>1, <1>2, <1>4
  <2>2. sent[k].end \in Nat /\ sent[m].end \in Nat /\ At(sent, m) < sent[m].end
    BY <1>1, <1>4, <2>1
  <2>3. At(sent, m) \in Nat
    BY <1>1, <1>4, AtNat
  <2>4. CASE m = k
    BY <2>1, <2>2, <2>4
  <2>5. CASE k < m
    <3>1. sent[k].end <= At(sent, m)
      BY <1>1, <1>4, <2>1, <2>5
    <3> QED  BY <2>1, <2>2, <2>3, <3>1
  <2> QED  BY <2>1, <2>4, <2>5
<1> QED
  BY <1>3, <1>4 DEF Complete

\* So what was collected when the loop ends is what the sensor meant.
LEMMA CollectedIsMeant ==
    ASSUME Carries(sent, size, sensor_bytes), NEW k \in Int, Collected(k),
           Complete = {m \in DOMAIN sent : m < k}
    PROVE  sensor_data = Meant
<1> DEFINE D == UNION {DOMAIN sent[m].means : m \in Complete}
           P(f, q) == /\ f \in DOMAIN sent[q].means
                      /\ \A m \in Complete : f \in DOMAIN sent[m].means => m <= q
           last(f) == CHOOSE q \in Complete : P(f, q)
<1>1. Meant = [f \in D |-> sent[last(f)].means[f]]
  BY Zenon DEF Meant
<1>2. D = DOMAIN sensor_data
  <2>1. ASSUME NEW f \in D  PROVE f \in DOMAIN sensor_data
    <3>1. PICK m \in Complete : f \in DOMAIN sent[m].means
      BY <2>1
    <3> QED  BY <3>1 DEF Collected
  <2>2. ASSUME NEW f \in DOMAIN sensor_data  PROVE f \in D
    <3>1. PICK m \in DOMAIN sent : LastFor(f, m, k)
      BY <2>2 DEF Collected
    <3>2. m \in Complete /\ f \in DOMAIN sent[m].means
      BY <3>1 DEF LastFor
    <3> QED  BY <3>2
  <2> HIDE DEF D
  <2> QED  BY <2>1, <2>2
<1>3. ASSUME NEW f \in DOMAIN sensor_data  PROVE sensor_data[f] = sent[last(f)].means[f]
  <2>1. PICK m \in DOMAIN sent : LastFor(f, m, k) /\ sensor_data[f] = sent[m].means[f]
    BY <1>3 DEF Collected
  <2>2. m \in Complete /\ P(f, m)
    BY <2>1 DEF LastFor
  <2>3. last(f) \in Complete /\ P(f, last(f))
    BY <2>2, Zenon
  <2>4. m <= last(f) /\ last(f) <= m
    BY <2>2, <2>3, Zenon
  <2> HIDE DEF P, last
  <2>5. last(f) \in DOMAIN sent /\ DOMAIN sent \subseteq Int
    BY <2>3, Places
  <2>6. last(f) = m
    BY <2>1, <2>4, <2>5
  <2> QED  BY <2>1, <2>6
<1> HIDE DEF D, last
<1>4. Meant = [f \in DOMAIN sensor_data |-> sensor_data[f]]
  BY <1>1, <1>2, <1>3
<1> QED
  BY <1>4 DEF Collected

\* One more entry, of the measurements m, is collected.
LEMMA CollectOne ==
    ASSUME Carries(sent, size, sensor_bytes), NEW k \in DOMAIN sent, Collected(k),
           NEW m, DOMAIN m = DOMAIN sent[k].means,
           \A f \in DOMAIN m : m[f] = sent[k].means[f],
           sensor_data' = Updated(m), sent' = sent
    PROVE  Collected(k + 1)'
<1>1. DOMAIN sent \subseteq Int /\ \A q \in DOMAIN sent : q < k + 1 <=> q < k \/ q = k
  BY Places
<1> DEFINE D == DOMAIN sensor_data
           E == DOMAIN m
           u == sensor_data'
<1>2. u = [f \in D \cup E |-> IF f \in E THEN m[f] ELSE sensor_data[f]]
  BY DEF Updated
<1>3. DOMAIN u = D \cup E
  BY <1>2
<1>4. \A q \in DOMAIN sent : q < k + 1 => DOMAIN sent[q].means \subseteq D \cup E
  BY <1>1 DEF Collected
<1>5. ASSUME NEW f \in D \cup E
      PROVE  \E q \in DOMAIN sent : LastFor(f, q, k + 1) /\ u[f] = sent[q].means[f]
  <2>1. CASE f \in E
    <3>1. LastFor(f, k, k + 1)
      <4>1. k < k + 1 /\ f \in DOMAIN sent[k].means
        BY <1>1, <2>1
      <4>2. \A q \in DOMAIN sent : q < k + 1 => q <= k
        BY <1>1
      <4> QED  BY <4>1, <4>2 DEF LastFor
    <3>2. u[f] = sent[k].means[f]
      BY <1>2, <2>1
    <3> QED  BY <3>1, <3>2
  <2>2. CASE f \notin E
    <3>1. PICK q \in DOMAIN sent : LastFor(f, q, k) /\ sensor_data[f] = sent[q].means[f]
      BY <1>5, <2>2 DEF Collected
    <3>2. f \notin DOMAIN sent[k].means
      BY <2>2
    <3>3. LastFor(f, q, k + 1)
      BY <1>1, <3>1, <3>2, Zenon DEF LastFor
    <3>4. u[f] = sensor_data[f]
      BY <1>2, <1>5, <2>2
    <3> QED  BY <3>1, <3>3, <3>4
  <2> QED  BY <2>1, <2>2
<1> HIDE DEF u, D, E
<1>6. u = [f \in DOMAIN u |-> u[f]]
  BY <1>2, <1>3
<1>7. \A f \in DOMAIN u :
         \E q \in DOMAIN sent : LastFor(f, q, k + 1) /\ u[f] = sent[q].means[f]
  BY <1>3, <1>5
<1>8. \A f, q : LastFor(f, q, k + 1) => LastFor(f, q, k + 1)'
  BY DEF LastFor
<1>9. \A q \in DOMAIN sent : q < k + 1 => DOMAIN sent[q].means \subseteq DOMAIN u
  BY <1>3, <1>4
<1> QED
  BY <1>6, <1>7, <1>8, <1>9 DEF Collected, u

LEMMA Finished ==
    ASSUME DecodeInv, size \in Nat, NEW k, Walked(k), Collected(k), Finish,
           k \in DOMAIN sent => sent[k].end > size
    PROVE  DecodeInv'
<1>1. /\ parsing' = FALSE /\ sent' = sent /\ sensor_bytes' = sensor_bytes
      /\ size' = size /\ sensor_data' = sensor_data
  BY DEF Finish
<1>2. Carries(sent, size, sensor_bytes) /\ k \in Int
  <2>1. Carries(sent, size, sensor_bytes)
    BY DEF DecodeInv
  <2> QED  BY <2>1, Places DEF Walked
<1>3. sensor_data = Meant
  BY <1>2, CompleteBefore, CollectedIsMeant
<1>4. Meant' = Meant
  BY <1>1 DEF Meant, Complete
<1>5. Decoded'
  BY <1>1, <1>3, <1>4 DEF Decoded
<1>6. Carries(sent', size', sensor_bytes')
  BY <1>1, <1>2
<1> QED
  BY <1>1, <1>5, <1>6 DEF DecodeInv

\* The loop goes on behind an entry that arrived whole.
LEMMA WentOn ==
    ASSUME DecodeInv, size \in Nat, NEW k \in DOMAIN sent, Collected(k),
           NEW m, DOMAIN m = DOMAIN sent[k].means,
           \A f \in DOMAIN m : m[f] = sent[k].means[f],
           sensor_data' = Updated(m), parsing,
           sent[k].end <= size, Advance(sent[k].end)
    PROVE  DecodeInv'
<1>1. /\ parsing' = parsing /\ sent' = sent /\ sensor_bytes' = sensor_bytes
      /\ size' = size /\ j' = sent[k].end
  BY DEF Advance
<1>2. Carries(sent, size, sensor_bytes)
  BY DEF DecodeInv
<1>3. Carries(sent', size', sensor_bytes')
  BY <1>1, <1>2
<1>4. Collected(k + 1)'
  BY <1>1, <1>2, CollectOne
<1>5. Len(sent) \in Nat /\ k \in 1..Len(sent)
  BY <1>2, Places
<1>6. k + 1 \in 1..(Len(sent) + 1) /\ k \in Nat \ {0}
  BY <1>5
<1>7. At(sent, k + 1) = sent[k].end
  BY <1>6, AtNext
<1>8. At(sent', k + 1) = j' /\ At(sent', k + 1) <= size'
  BY <1>1, <1>7
<1>9. Walked(k + 1)'
  BY <1>1, <1>6, <1>8 DEF Walked
<1>10. \E n \in 1..(Len(sent') + 1) : Walked(n)' /\ Collected(n)'
  BY <1>1, <1>4, <1>6, <1>9
<1>11. Decoded'
  BY <1>1 DEF Decoded
<1> QED
  BY <1>3, <1>10, <1>11 DEF DecodeInv

\* The entry at the read position, of the kind that its header tells.
LEMMA EntryHere ==
    ASSUME Carries(sent, size, sensor_bytes), size \in Nat, NEW k, Walked(k), j < size
    PROVE  /\ k \in DOMAIN sent /\ j \in Nat /\ j = At(sent, k)
           /\ sent[k].end \in Nat /\ j < sent[k].end
           /\ Holds(sent[k], size_bits, type_id, size, sensor_bytes, j)
           /\ size_bits \in 0..3 /\ type_id \in 0..63
<1>1. /\ Len(sent) \in Nat /\ DOMAIN sent = 1..Len(sent)
      /\ \A m \in DOMAIN sent : sent[m].end \in Nat /\ At(sent, m) < sent[m].end
      /\ size <= At(sent, Len(sent) + 1)
  BY Places
<1>2. k \in 1..(Len(sent) + 1) /\ At(sent, k) \in Nat
  BY AtNat DEF Walked
<1>3. j = At(sent, k)
  BY DEF Walked
<1>4. k # Len(sent) + 1
  BY <1>1, <1>2, <1>3
<1>5. k \in DOMAIN sent
  BY <1>1, <1>2, <1>4
<1>6. PICK bits \in 0..3, type \in 0..63 :
         Holds(sent[k], bits, type, size, sensor_bytes, j)
  BY <1>3, <1>5, Zenon DEF Carries
<1>7. sensor_bytes[j] = 64 * bits + type
  BY <1>6, Zenon DEF Holds
<1>8. size_bits = bits /\ type_id = type
  BY <1>7, HeaderSplit DEF size_bits, type_id
<1> QED
  BY <1>1, <1>2, <1>3, <1>5, <1>6, <1>8

LEMMA DecodeStep ==
    ASSUME TypeOK, DecodeInv, [Next]_vars
    PROVE  DecodeInv'
<1>1. CASE UNCHANGED vars
  <2>1. /\ sent' = sent /\ sensor_bytes' = sensor_bytes /\ size' = size /\ j' = j
        /\ sensor_data' = sensor_data /\ parsing' = parsing
    BY <1>1 DEF vars
  <2>2. Carries(sent', size', sensor_bytes')
    BY <2>1 DEF DecodeInv
  <2>3. Decoded'
    BY <2>1 DEF DecodeInv, Decoded, Meant, Complete
  <2>4. ASSUME NEW k, Walked(k), Collected(k)  PROVE Walked(k)' /\ Collected(k)'
    <3>1. Walked(k)'
      BY <2>1, <2>4 DEF Walked, At
    <3>2. Collected(k)'
      BY <2>1, <2>4 DEF Collected, LastFor
    <3> QED  BY <3>1, <3>2
  <2>5. parsing' => \E k \in 1..(Len(sent') + 1) : Walked(k)' /\ Collected(k)'
    BY <2>1, <2>4 DEF DecodeInv
  <2> QED  BY <2>2, <2>3, <2>5 DEF DecodeInv
<1>2. ASSUME Next, NEW k, Walked(k), Collected(k)  PROVE DecodeInv'
  <2>1. /\ Carries(sent, size, sensor_bytes) /\ Bytes /\ size \in Nat /\ j \in Nat
        /\ sensor_data = [f \in DOMAIN sensor_data |-> sensor_data[f]]
    BY <1>2 DEF DecodeInv, TypeOK, Bytes, Collected
  <2>2. CASE EndOfData
    <3>1. Finish /\ j >= size
      BY <2>2 DEF EndOfData
    <3>2. k \in DOMAIN sent => sent[k].end > size
      <4> SUFFICES ASSUME k \in DOMAIN sent  PROVE sent[k].end > size
        OBVIOUS
      <4>1. sent[k].end \in Nat /\ At(sent, k) < sent[k].end
        BY <2>1, Places
      <4>2. CASE j = At(sent, k)
        BY <2>1, <3>1, <4>1, <4>2
      <4>3. CASE j # At(sent, k)
        BY <1>2, <4>3 DEF Walked
      <4> QED  BY <4>2, <4>3
    <3> QED  BY <1>2, <2>1, <3>1, <3>2, Finished
  <2> DEFINE e == sent[k]
  <2>3. ASSUME j < size
        PROVE  /\ k \in DOMAIN sent /\ j = At(sent, k) /\ At(sent, k) <= size
               /\ e.end \in Nat /\ j < e.end
               /\ Holds(e, size_bits, type_id, size, sensor_bytes, j)
               /\ size_bits \in 0..3 /\ type_id \in 0..63
    BY <1>2, <2>1, <2>3, EntryHere DEF Walked
  <2>4. Updated(NoData) = sensor_data /\ DOMAIN NoData = {}
    BY <2>1 DEF Updated, NoData
  <2>5. CASE SkipCommissioning
    <3>1. /\ j < size /\ type_id = k_tlv_type_commissioning /\ sensor_data' = sensor_data
          /\ Advance(IF j + 1 + k_tlv_commissioning_block <= size
                       THEN j + 1 + k_tlv_commissioning_block
                       ELSE size)
          /\ parsing
      BY <2>5 DEF SkipCommissioning
    <3>2. e.end = j + 23 /\ DOMAIN e.means = {}
      BY <2>3, <3>1 DEF Holds
    <3>3. j + 1 + k_tlv_commissioning_block = e.end
      BY <2>1, <3>2 DEF k_tlv_commissioning_block
    <3>4. CASE e.end <= size
      <4>1. Advance(e.end)
        BY <3>1, <3>3, <3>4
      <4> QED  BY <1>2, <2>1, <2>3, <2>4, <3>1, <3>2, <3>4, <4>1, WentOn
    <3>5. CASE ~(e.end <= size)
      <4>1. Advance(size)
        BY <3>1, <3>3, <3>5
      <4>2. /\ parsing' = parsing /\ sent' = sent /\ sensor_bytes' = sensor_bytes
            /\ size' = size /\ j' = size /\ sensor_data' = sensor_data
        BY <3>1, <4>1 DEF Advance
      <4>3. Carries(sent', size', sensor_bytes')
        BY <2>1, <4>2
      <4>4. e.end > size
        BY <2>1, <2>3, <3>1, <3>5
      <4>5. Walked(k)'
        BY <1>2, <2>3, <3>1, <4>2, <4>4 DEF Walked, At
      <4>6. Collected(k)'
        BY <1>2, <4>2 DEF Collected, LastFor
      <4>7. k \in 1..(Len(sent') + 1)
        BY <1>2, <4>2 DEF Walked
      <4>8. Decoded'
        BY <3>1, <4>2 DEF Decoded
      <4> QED  BY <4>3, <4>5, <4>6, <4>7, <4>8 DEF DecodeInv
    <3> QED  BY <3>4, <3>5
  <2>6. CASE SkipVariable
    <3>1. /\ j < size /\ type_id # k_tlv_type_commissioning /\ IsVariable /\ parsing
          /\ IF j + 1 >= size \/ sensor_bytes[j + 1] > size - (j + 2)
               THEN Finish
               ELSE Advance(j + 2 + sensor_bytes[j + 1]) /\ UNCHANGED sensor_data
      BY <2>6 DEF SkipVariable
    <3>2. /\ e.end >= j + 2 /\ DOMAIN e.means = {}
          /\ j + 1 < size => sensor_bytes[j + 1] = e.end - j - 2
      BY <2>3, <3>1 DEF Holds, IsVariable
    <3>3. CASE j + 1 >= size \/ sensor_bytes[j + 1] > size - (j + 2)
      <4>1. e.end > size
        <5>1. CASE j + 1 >= size
          BY <2>1, <2>3, <3>1, <3>2, <5>1
        <5>2. CASE ~(j + 1 >= size)
          <6>1. sensor_bytes[j + 1] = e.end - j - 2 /\ sensor_bytes[j + 1] > size - (j + 2)
            BY <2>1, <3>2, <3>3, <5>2
          <6> QED  BY <2>1, <2>3, <3>1, <6>1
        <5> QED  BY <5>1, <5>2
      <4>2. Finish
        BY <3>1, <3>3
      <4> QED  BY <1>2, <2>1, <4>1, <4>2, Finished
    <3>4. CASE ~(j + 1 >= size \/ sensor_bytes[j + 1] > size - (j + 2))
      <4>1. sensor_bytes[j + 1] = e.end - j - 2 /\ ~(sensor_bytes[j + 1] > size - (j + 2))
        BY <2>1, <3>2, <3>4
      <4>2. e.end <= size /\ j + 2 + sensor_bytes[j + 1] = e.end
        BY <2>1, <2>3, <3>1, <4>1
      <4>3. Advance(e.end) /\ sensor_data' = sensor_data
        BY <3>1, <3>4, <4>2
      <4> QED  BY <1>2, <2>1, <2>3, <2>4, <3>1, <3>2, <4>2, <4>3, WentOn
    <3> QED  BY <3>3, <3>4
  <2>7. CASE ReadValue
    <3>1. /\ j < size /\ type_id # k_tlv_type_commissioning /\ ~IsVariable /\ parsing
          /\ IF j + 1 + val_len > size
               THEN Finish
               ELSE Advance(j + 1 + val_len) /\ sensor_data' = Updated(Measured)
      BY <2>7 DEF ReadValue
    <3>2. PICK len \in {1, 2, 4} :
            /\ <<size_bits, len>> \in {<<0, 1>>, <<1, 2>>, <<2, 4>>}
            /\ e.end = j + 1 + len
            /\ e.end <= size => Encodes(e.means, type_id, len, sensor_bytes, j)
      BY <2>3, <3>1 DEF Holds, IsVariable
    <3>3. len = val_len /\ val_len \in Nat
      BY <3>2 DEF val_len
    <3>4. e.end = j + 1 + val_len
      BY <3>2, <3>3
    <3>5. CASE j + 1 + val_len > size
      <4>1. e.end > size /\ Finish
        BY <3>1, <3>4, <3>5
      <4> QED  BY <1>2, <2>1, <4>1, Finished
    <3>6. CASE ~(j + 1 + val_len > size)
      <4>1. j + 1 + val_len <= size
        BY <2>1, <3>3, <3>6
      <4>2. e.end <= size
        BY <3>4, <4>1
      <4>3. Encodes(e.means, type_id, val_len, sensor_bytes, j)
        BY <3>2, <3>3, <4>2
      <4>4. Value24 /\ Value8
        BY <2>1, <3>1, <4>1, ValueParts
      <4>5. /\ DOMAIN Measured = DOMAIN e.means
            /\ \A f \in DOMAIN Measured : Measured[f] = e.means[f]
        BY <4>3, <4>4, MeasuredMeans
      <4>6. Advance(e.end) /\ sensor_data' = Updated(Measured)
        BY <3>1, <3>4, <3>6
      <4> QED  BY <1>2, <2>1, <2>3, <3>1, <4>2, <4>5, <4>6, WentOn
    <3> QED  BY <3>5, <3>6
  <2> QED
    BY <1>2, <2>2, <2>5, <2>6, <2>7 DEF Next
<1>3. Next => parsing
  BY DEF Next, EndOfData, SkipCommissioning, SkipVariable, ReadValue
<1> QED
  BY <1>1, <1>2, <1>3 DEF DecodeInv

\* Whatever entries a sensor writes, in whatever order and however often, and
\* wherever its report is cut off: the callback delivers the measurements it
\* meant, signs, scales and packed accelerations included, and nothing else.
THEOREM DecodedAsMeant ==
    ASSUME \A x \in Inputs : Carries(x.sent, x.size, x.bytes)
    PROVE  Spec => []Decoded
<1>1. Init => DecodeInv
  <2> SUFFICES ASSUME Init  PROVE DecodeInv
    OBVIOUS
  <2>1. Carries(sent, size, sensor_bytes) /\ size \in Nat
    BY TlvAssumption DEF Init
  <2>2. Len(sent) \in Nat /\ DOMAIN sent = 1..Len(sent)
    BY <2>1, Places
  <2>3. Walked(1)
    BY <2>1, <2>2 DEF Init, Walked, At
  <2>4. Collected(1)
    BY <2>2 DEF Init, Collected, NoData
  <2> QED  BY <2>1, <2>2, <2>3, <2>4 DEF Init, DecodeInv, Decoded
<1>2. TypeOK /\ DecodeInv /\ [Next]_vars => DecodeInv'
  BY DecodeStep
<1>3. DecodeInv => Decoded
  BY DEF DecodeInv
<1> QED
  BY <1>1, <1>2, <1>3, DecoderInBounds, PTL DEF Spec

=============================================================================
