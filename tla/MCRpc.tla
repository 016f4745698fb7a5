------------------------------- MODULE MCRpc -------------------------------
(* Instance for TLC of the RPC backend: the router with its clients, and one   *)
(* frame on a link that damages it. A behaviour is one of either part.         *)
(* The router has four names of which two share an id, three binders, and      *)
(* calls whose arguments lie on and beyond the edges of the C++ types; bytes   *)
(* are 0..7, a 32-bit integer has one of them, a 64-bit one two. The link has  *)
(* one value of each kind or two, and a string one byte longer than a length   *)
(* can say, which no frame may carry.                                          *)
EXTENDS RpcRouter

CONSTANTS a, b, c, d, f, g, h, Methods, Payloads, MaxArgs, MaxExtra, MaxFlips

\* Method ids and wire values are what the code has.
ASSUME LinkAssumption ==
  /\ Methods \subseteq 0..Limit(W64) - 1
  /\ \A v \in Payloads : IsValue(v)
  /\ MaxArgs \in Nat

VARIABLES part, sent, bytes, cut, extra, flips, asRequest, asResponse

linkVars == <<sent, bytes, cut, extra, flips, asRequest, asResponse>>

Link == INSTANCE RpcLink WITH frame <- bytes

\* The router alone: nothing is on the link.
NoLink == sent = Null /\ bytes = <<>> /\ cut = FALSE /\ extra = 0 /\ flips = 0
            /\ asRequest = Link!None /\ asResponse = Link!None

MCInit ==
  /\ Init
  /\ \/ part = "router" /\ NoLink
     \/ part = "link" /\ Link!Init

MCNext ==
  \/ part = "router" /\ Next /\ UNCHANGED <<part, linkVars>>
  \/ part = "link" /\ Link!Next /\ UNCHANGED <<part, vars>>

MCSpec == MCInit /\ [][MCNext]_<<part, vars, linkVars>>

\* RpcLink: what a decoder accepts encodes to the bytes that were received.
DecodingInverts == Link!DecodingInverts

\* RpcLink: an intact message arrives as it was sent; one that was cut or extended is
\* refused.
IntactArrives == Link!IntactArrives

MCId == (a :> 9) @@ (b :> 2) @@ (c :> 2) @@ (d :> 40)

MCSignature ==
  (f :> [args |-> <<"int">>, result |-> "unsigned"]) @@
  (g :> [args |-> <<"bool", "string">>, result |-> "string"]) @@
  (h :> [args |-> <<"int">>, result |-> "int"])

Signed(x) == Number(signed_integer, Bits(x))
MCImports ==
  {[result |-> r, args |-> <<Signed(x)>>] : r \in {"int", "unsigned"}, x \in {-5, -4, 3, 4}}
    \cup {[result |-> "string", args |-> <<Boolean(1), String(<<7, 0>>)>>],
          [result |-> "void", args |-> <<Number(unsigned_integer, 3)>>],
          [result |-> "double", args |-> <<Boolean(0), Number(real, 1)>>]}

MCReturns ==
  [int |-> {-4, -1, 3}, unsigned |-> {0, 7},
   string |-> {<<>>, <<0, 7>>, [i \in 1..8 |-> 1]}]

MCPayloads ==
  {Undefined, Number(signed_integer, 62), Number(unsigned_integer, 8), Number(real, 5),
   Boolean(0), Boolean(1), String(<<>>), String(<<5, 0>>),
   String([i \in 1..8 |-> 1])}
=============================================================================
