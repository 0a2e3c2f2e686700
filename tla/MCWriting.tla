----------------------------- MODULE MCWriting ------------------------------
(* An instance of Writing for TLC: registers of four bits (so characters of   *)
(* two, half of them ASCII), scales of one decimal, one field of every kind.  *)
EXTENDS Writing, TLC

CONSTANTS c1, c2

W(f) == [f EXCEPT !.writable = TRUE]
Scale(f, scale, offset) == [f EXCEPT !.scale = scale, !.offset = offset]
By(f, at) == [f EXCEPT !.scaleAt = at]
Little(f) == [f EXCEPT !.order = "little"]
AtMostFive == [v \in {2000, 5000, 9000} |-> IF v <= 5000 THEN v ELSE Invalid]

Contended ==
  "mode" :> W(Bits(0, 0, 2)) @@ "flag" :> W(Bit(0, 3)) @@
  "power" :> W(By(SunInt16(3), 2)) @@ "level" :> W(By(Gauge(4, 100), 2)) @@
  "factor" :> W(ScaleFactor(2)) @@ "relay" :> W(Coil(0))

Single ==
  "gauge" :> W(Scale(Gauge(5, 100), 100, 200)) @@ "integer" :> W(Integer(5)) @@ "head" :> W(Integer(10)) @@
  "raw" :> W(RawRegister(5)) @@ "enum" :> W(Enum(5, {1, 4})) @@ "flags" :> W(Flags(5)) @@
  "boolean" :> W(Boolean(5)) @@ "vetted" :> [W(Integer(5)) EXCEPT !.validator = AtMostFive] @@
  "sunbool" :> W(SunBoolean(5)) @@ "sunenum" :> W(SunEnum(5, 1, {1, 15})) @@
  "sunbits" :> W(SunBitfield(5, 1)) @@ "tens" :> W(Gauge(5, 10000)) @@
  "sunword" :> W(SunUint16(5)) @@
  "acc" :> Acc(5, 1) @@ "input" :> [W(Integer(5)) EXCEPT !.space = "input"] @@
  "discrete" :> DiscreteInput(5) @@ "ip4" :> IPv4(5) @@ "mac" :> Eui48(5) @@ "ip6" :> IPv6(5)

Wide ==
  "uint32" :> W(Little(Uint32(11))) @@ "int32" :> W(Scale(Int32(11), 100, -500)) @@
  "uint64" :> W(Uint64(11)) @@ "int64" :> W(Little(Int64(11))) @@ "text" :> W(Text(11, 2)) @@
  "sunint32" :> W(By(SunInt32(11), 2)) @@ "sunuint32" :> W(By(SunUint32(11), 2)) @@
  "sunint64" :> W(SunInt64(11)) @@ "sunuint64" :> W(SunUint64(11))

Known == Contended @@ Single @@ Wide
At(name) == IF name \in DOMAIN Known THEN Known[name] ELSE None

Numbers == {-8000, 2000, 1440, 15000}
AskedContended ==
  ({"mode", "flag"} \X {1000, 3000, 5000}) \cup ({"power", "level"} \X {500, 7000, 20000})
  \cup ({"factor"} \X {-1000, 1000, -8000}) \cup ({"relay"} \X {0, 1000})
AskedOther ==
  ({"gauge", "integer", "head", "raw", "enum", "flags", "boolean", "sunbool", "sunenum", "sunbits", "sunword",
    "tens"} \X Numbers)
  \cup ({"vetted"} \X {2000, 9000})
  \cup ({"acc", "input", "discrete", "ip4", "mac", "ip6", "unknown"} \X {2000})
  \cup ({"uint32", "int32", "uint64", "int64", "sunint32", "sunuint32", "sunint64", "sunuint64"}
         \X {-8000, 2000, 77000})
  \cup ({"text"} \X {<<1, 2, 1>>, <<1, 1, 0, 1, 1, 1>>, <<1, 0>>})
Asked(c) == IF c = c1 THEN AskedContended ELSE AskedContended \cup AskedOther

Seeds == {<<[base |-> 0, words |-> <<5>>], [base |-> 2, words |-> <<15>>],
            [base |-> 10, words |-> <<1, 2, 3>>], [base |-> 4, words |-> <<7>>]>>}
NoCoils == {<<>>}
Failing ==
  {{}, {[op |-> "write", space |-> "holding", at |-> 12]},
   {[op |-> "read", space |-> "holding", at |-> 2]},
   {[op |-> "all", space |-> "holding", at |-> 0]}}
Changing ==
  {[op |-> "reseed", at |-> 0, words |-> <<12>>], [op |-> "reseed", at |-> 2, words |-> <<1>>],
   [op |-> "reseed", at |-> 2, words |-> <<8>>], [op |-> "mask", at |-> 0, words |-> <<7, 8>>]}
=============================================================================
