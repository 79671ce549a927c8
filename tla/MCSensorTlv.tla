----------------------------- MODULE MCSensorTlv -----------------------------
(***************************************************************************)
(* Sensor reports of up to three entries drawn from every kind of entry,   *)
(* each report also cut short at every length.  The entries are the        *)
(* reference: they are written from the measurements towards the bytes,    *)
(* the decoder of SensorTlv from the bytes towards the measurements.       *)
(***************************************************************************)
EXTENDS SensorTlv, SequencesExt, TLC

Header(bits, type) == 64 * bits + type
Low(v) == v % 256
High(v) == (v % 65536) \div 256

Entry(bytes, means) == [bytes |-> bytes, means |-> means]

Temperature(t) == Entry(<<Header(1, 0), Low(t), High(t)>>, "temperature_cdeg" :> t)

\* Signs and extremes, one- and four-byte encodings of narrow measurements,
\* bytes that look like headers, an acceleration of the wrong length, unknown
\* and skipped entries, an entry of zero variable bytes.
Entries ==
    {Temperature(-1), Temperature(-32768),
     Entry(<<Header(1, 1), 255, 255>>, "battery_voltage" :> 32767),
     Entry(<<Header(2, 1), 0, 0, 2, 255>>, "battery_voltage" :> 0),
     Entry(<<Header(0, 2), 200>>, "energy_lvl" :> 100),
     Entry(<<Header(0, 6), 131>>, "humidity" :> 65),
     Entry(<<Header(1, 5), 62, 60>>, "light_sensor" :> 15422),
     Entry(<<Header(2, 10)>> \o AccelBytes(2, -512, 511, 1),
           ("accel_status" :> 2) @@ ("accel_x_cg" :> -512) @@
           ("accel_y_cg" :> 511) @@ ("accel_z_cg" :> 1)),
     Entry(<<Header(1, 10), 1, 1>>, NoData),
     Entry(<<Header(0, 32), 2>>, "occupancy" :> 1),
     Entry(<<Header(1, 32), 2, 1>>, "occupancy" :> 0),
     Entry(<<Header(0, 35), 2>>, "contact" :> 1),
     Entry(<<Header(0, 4), 9>>, "light_solar_cell" :> 9),
     Entry(<<Header(0, 9), 0>>, NoData),
     Entry(<<Header(3, 0), 2, 7, 7>>, NoData),
     Entry(<<Header(0, 60), 0>>, NoData),
     Entry(<<Header(1, 62)>> \o [k \in 1..22 |-> 32], NoData)}

Reports == {<<>>} \cup {<<a>> : a \in Entries} \cup (Entries \X Entries)
             \cup {<<Temperature(-1), a, b>> : a, b \in Entries}

Bytes(r) == FlattenSeq([k \in DOMAIN r |-> r[k].bytes])
Sent(r) == [k \in DOMAIN r |->
              [end |-> Len(Bytes(SubSeq(r, 1, k))), means |-> r[k].means]]

MCInputs == UNION {{[sent |-> Sent(r), size |-> n,
                     bytes |-> [k \in 0..(n - 1) |-> Bytes(r)[k + 1]]] :
                       n \in 0..Len(Bytes(r))} : r \in Reports}

\* What Decoded asks of the sensors.
ASSUME InputsCarried == \A x \in Inputs : Carries(x.sent, x.size, x.bytes)

=============================================================================
