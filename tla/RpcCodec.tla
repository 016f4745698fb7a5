------------------------------ MODULE RpcCodec ------------------------------
(***************************************************************************)
(* The wire format of the RPC backend (src/dynabridge/backends/rpc.h): the   *)
(* writer, the reader with its sticky failure flag, tagged values, request   *)
(* and response frames.                                                      *)
(*                                                                          *)
(* A byte ranges over 0..Base - 1 and the 32- and 64-bit integers have W32    *)
(* and W64 bytes; the code has Base = 256, W32 = 4, W64 = 8.                  *)
(*                                                                          *)
(* A definition whose name says what is wrong with it, placed just before    *)
(* the one it varies, is a seeded fault that shows a property can fail;       *)
(* nothing uses it.                                                          *)
(***************************************************************************)
EXTENDS Naturals, Sequences, SequencesExt

CONSTANTS Base, W32, W64, RequestMagic, ResponseMagic, Version

Byte == 0..Base - 1
Power[w \in Nat] == IF w = 0 THEN 1 ELSE Base * Power[w - 1]
Limit(w) == Power[w]   \* integers of w bytes are 0..Limit(w) - 1

ASSUME CodecAssumption ==
  /\ Base \in Nat /\ Base > 6 /\ W32 \in Nat \ {0} /\ W64 \in Nat \ {0}
  /\ RequestMagic \in 0..Limit(W32) - 1 /\ ResponseMagic \in 0..Limit(W32) - 1
  /\ RequestMagic # ResponseMagic /\ Version \in Byte

\* value_kind
undefined == 0
signed_integer == 1
unsigned_integer == 2
real == 3
boolean == 4
string == 5
Numbers == {signed_integer, unsigned_integer, real}

\* value: its kind, its bits, its text.
Number(kind, bits) == [kind |-> kind, bits |-> bits, text |-> <<>>]
Undefined == Number(undefined, 0)
Boolean(bits) == Number(boolean, IF bits = 0 THEN 0 ELSE 1)
String(text) == [kind |-> string, bits |-> 0, text |-> text]

\* What the constructors of value make.
IsValue(v) ==
  \/ v \in {Undefined, Boolean(0), Boolean(1)}
  \/ \E kind \in Numbers : v = Number(kind, v.bits) /\ v.bits \in 0..Limit(W64) - 1
  \/ v = String(v.text) /\ v.text \in Seq(Byte)

-----------------------------------------------------------------------------
(* writer                                                                  *)

\* writer::integer: little-endian, the upper bytes cut off.
WriteInteger(number, w) == [i \in 1..w |-> (number \div Power[i - 1]) % Base]

\* A length that does not fit 32 bits is refused: writer::raw, encoded_size,
\* encode_request and encode_error raise, and there is no frame.
AnyLength(n) == TRUE
Writable(n) == n < Limit(W32)

WriteRaw(text) == WriteInteger(Len(text), W32) \o text

EncodeValue(v) ==
  <<v.kind>> \o
    ( IF v.kind \in Numbers THEN WriteInteger(v.bits, W64)
      ELSE IF v.kind = boolean THEN <<v.bits>>
      ELSE IF v.kind = string THEN WriteRaw(v.text)
      ELSE <<>> )

EncodeRequest(method, args) ==
  WriteInteger(RequestMagic, W32) \o <<Version>> \o WriteInteger(method, W64)
    \o WriteInteger(Len(args), W32)
    \o FlattenSeq([i \in DOMAIN args |-> EncodeValue(args[i])])

EncodeResponse(v) ==
  WriteInteger(ResponseMagic, W32) \o <<Version, 0>> \o EncodeValue(v)

EncodeError(message) ==
  WriteInteger(ResponseMagic, W32) \o <<Version, 1>> \o WriteRaw(message)

-----------------------------------------------------------------------------
(* reader: how many bytes were read, and whether it is still valid.  What a  *)
(* read returns is the reader after it, together with the value.             *)

Reader == [at |-> 0, ok |-> TRUE]

Remaining(f, r) == Len(f) - r.at

\* reader::require; the flag is sticky.
Require(f, r, size) == r.ok /\ size <= Remaining(f, r)

\* The integer whose bytes follow position at.
Assemble(f, at, w) ==
  LET sum[i \in 0..w] ==
        IF i = 0 THEN 0 ELSE sum[i - 1] + f[at + i] * Power[i - 1]
  IN sum[w]

ReadInteger(f, r, w) ==
  IF Require(f, r, w)
  THEN [at |-> r.at + w, ok |-> TRUE, value |-> Assemble(f, r.at, w)]
  ELSE [at |-> r.at, ok |-> FALSE, value |-> 0]

ReadRaw(f, r) ==
  LET size == ReadInteger(f, r, W32) IN
  IF Require(f, size, size.value)
  THEN [at |-> size.at + size.value, ok |-> TRUE,
        value |-> SubSeq(f, size.at + 1, size.at + size.value)]
  ELSE [at |-> size.at, ok |-> FALSE, value |-> <<>>]

Yields(r, v) == [at |-> r.at, ok |-> r.ok, value |-> v]

UnknownAsUndefined(r) == Yields(r, Undefined)
\* reader::invalidate: a kind that does not exist.
UnknownKind(r) == [at |-> r.at, ok |-> FALSE, value |-> Undefined]

DecodeValue(f, r) ==
  LET kind == ReadInteger(f, r, 1)
      bits == ReadInteger(f, kind, W64)
      flag == ReadInteger(f, kind, 1)
      text == ReadRaw(f, kind)
  IN IF kind.value = undefined THEN Yields(kind, Undefined)
     ELSE IF kind.value \in Numbers THEN Yields(bits, Number(kind.value, bits.value))
     ELSE IF kind.value = boolean THEN Yields(flag, Boolean(flag.value))
     ELSE IF kind.value = string THEN Yields(text, String(text.value))
     ELSE UnknownKind(kind)

\* The values whose encodings DecodeValue reads as v: a Boolean is true when its byte
\* is any but zero, and nothing else has a second form.
Forms(v) == IF v = Boolean(1) THEN {Number(boolean, bits) : bits \in 1..Base - 1} ELSE {v}

\* The whole frame was read, and validly.
Complete(f, r) == r.ok /\ Remaining(f, r) = 0

Malformed == [status |-> "malformed"]

\* The argument count is believed only if the rest of the frame could hold it: no
\* argument is shorter than a byte.
CountFits(f, argc) == argc.ok /\ argc.value <= Remaining(f, argc)

\* The arguments, one behind the other.
ReadArgs(f, argc) ==
  LET arg[i \in 0..argc.value] ==
        IF i = 0 THEN Yields(argc, <<>>)
        ELSE LET item == DecodeValue(f, arg[i - 1])
             IN Yields(item, Append(arg[i - 1].value, item.value))
  IN arg[argc.value]

\* try_decode_request
TryDecodeRequest(f) ==
  LET magic == ReadInteger(f, Reader, W32)
      version == ReadInteger(f, magic, 1)
      method == ReadInteger(f, version, W64)
      argc == ReadInteger(f, method, W32)
      last == ReadArgs(f, argc)
  IN IF magic.value # RequestMagic \/ version.value # Version \/ ~CountFits(f, argc)
     THEN Malformed
     ELSE IF ~Complete(f, last) THEN Malformed
     ELSE [status |-> "ok", method |-> method.value, args |-> last.value]

\* try_decode_response
TryDecodeResponse(f) ==
  LET magic == ReadInteger(f, Reader, W32)
      version == ReadInteger(f, magic, 1)
      tag == ReadInteger(f, version, 1)
      message == ReadRaw(f, tag)
      result == DecodeValue(f, tag)
  IN IF magic.value # ResponseMagic \/ version.value # Version \/ ~tag.ok \/ tag.value > 1
     THEN Malformed
     ELSE IF tag.value = 1
     THEN IF Complete(f, message) THEN [status |-> "remote_error", error |-> message.value]
          ELSE Malformed
     ELSE IF Complete(f, result) THEN [status |-> "ok", result |-> result.value]
     ELSE Malformed
=============================================================================
