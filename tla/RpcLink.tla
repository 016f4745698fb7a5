------------------------------ MODULE RpcLink ------------------------------
(***************************************************************************)
(* One frame of the RPC backend on its way: encoded, possibly cut short,     *)
(* extended or corrupted, then decoded by a peer that tries it as a request   *)
(* and as a response.                                                        *)
(***************************************************************************)
EXTENDS RpcCodec

CONSTANTS
  Methods,      \* method ids
  Payloads,     \* wire values
  MaxArgs,      \* bound: arguments of a request
  MaxExtra,     \* bound: bytes appended
  MaxFlips      \* bound: bytes changed

VARIABLES
  sent,        \* the message: request, response or error
  frame,       \* the bytes under way
  cut,         \* the last bytes were lost
  extra,       \* number of bytes appended
  flips,       \* number of bytes changed
  asRequest, asResponse   \* what the peer decoded, None before

vars == <<sent, frame, cut, extra, flips, asRequest, asResponse>>

None == [status |-> "none"]
InTransit == asRequest = None

Args == UNION {[1..n -> Payloads] : n \in 0..MaxArgs}
Messages ==
  [type : {"request"}, method : Methods, args : Args]
    \cup [type : {"response"}, result : Payloads]
    \cup [type : {"error"}, message : {p.text : p \in Payloads}]

\* What the encoders do not refuse.
Encodable(m) ==
  IF m.type = "request"
  THEN Writable(Len(m.args)) /\ \A i \in DOMAIN m.args : Writable(Len(m.args[i].text))
  ELSE Writable(Len(IF m.type = "response" THEN m.result.text ELSE m.message))

Encoded(m) ==
  IF m.type = "request" THEN EncodeRequest(m.method, m.args)
  ELSE IF m.type = "response" THEN EncodeResponse(m.result)
  ELSE EncodeError(m.message)

Init ==
  /\ sent \in Messages /\ Encodable(sent)
  /\ frame = Encoded(sent)
  /\ cut = FALSE /\ extra = 0 /\ flips = 0
  /\ asRequest = None /\ asResponse = None

\* The end of the frame is lost.
Cut ==
  /\ InTransit /\ frame # <<>> /\ extra = 0
  /\ frame' = Front(frame)
  /\ cut' = TRUE
  /\ UNCHANGED <<sent, extra, flips, asRequest, asResponse>>

\* Bytes follow it.
Extend(b) ==
  /\ InTransit /\ ~cut /\ extra < MaxExtra
  /\ frame' = Append(frame, b)
  /\ extra' = extra + 1
  /\ UNCHANGED <<sent, cut, flips, asRequest, asResponse>>

\* A byte changes.
Flip(i, b) ==
  /\ InTransit /\ flips < MaxFlips
  /\ frame[i] # b
  /\ frame' = [frame EXCEPT ![i] = b]
  /\ flips' = flips + 1
  /\ UNCHANGED <<sent, cut, extra, asRequest, asResponse>>

\* The peer decodes the frame.
Receive ==
  /\ InTransit
  /\ asRequest' = TryDecodeRequest(frame)
  /\ asResponse' = TryDecodeResponse(frame)
  /\ UNCHANGED <<sent, frame, cut, extra, flips>>

Done == ~InTransit /\ UNCHANGED vars

Next ==
  \/ Cut
  \/ \E b \in Byte : Extend(b)
  \/ \E i \in DOMAIN frame, b \in Byte : Flip(i, b)
  \/ Receive
  \/ Done

Spec == Init /\ [][Next]_vars

-----------------------------------------------------------------------------
\* Argument lists whose encodings are read as args.
ArgForms(args) ==
  {raw \in [DOMAIN args -> UNION {Forms(args[i]) : i \in DOMAIN args}] :
     \A i \in DOMAIN args : raw[i] \in Forms(args[i])}

\* Both decoders accept only what they can give back: what a frame was decoded to
\* encodes to exactly the bytes that were received, whatever happened to them, but for
\* the byte of a true Boolean, which may be any except zero.
DecodingInverts ==
  /\ asRequest.status = "ok" =>
       \E raw \in ArgForms(asRequest.args) : EncodeRequest(asRequest.method, raw) = frame
  /\ asResponse.status = "ok" =>
       \E raw \in Forms(asResponse.result) : EncodeResponse(raw) = frame
  /\ asResponse.status = "remote_error" => EncodeError(asResponse.error) = frame

\* An undamaged frame is decoded to the message that was sent, and by one decoder; a
\* frame that lost bytes at its end, or has bytes appended, is malformed: nothing is
\* ever read out of a part of a message or out of two.
IntactArrives ==
  ~InTransit /\ flips = 0 =>
    IF cut \/ extra > 0
    THEN asRequest.status = "malformed" /\ asResponse = Malformed
    ELSE IF sent.type = "request"
    THEN /\ asRequest.status = "ok"
         /\ asRequest.method = sent.method /\ asRequest.args = sent.args
         /\ asResponse = Malformed
    ELSE /\ asRequest.status = "malformed"
         /\ IF sent.type = "response"
            THEN asResponse = [status |-> "ok", result |-> sent.result]
            ELSE asResponse = [status |-> "remote_error", error |-> sent.message]

=============================================================================
