----------------------------- MODULE RpcRouter -----------------------------
(***************************************************************************)
(* The router of the RPC backend, the call of a client and the scalar        *)
(* converters (src/dynabridge/backends/rpc.h).  The routes live in a vector   *)
(* sorted by method id and own their binders; a call is encoded, dispatched,  *)
(* answered and decoded through the frames of RpcCodec.                      *)
(*                                                                          *)
(* Routes are defined first and served afterwards, as the router demands.    *)
(*                                                                          *)
(* A definition whose name says what is wrong with it, placed just before    *)
(* the one it varies, is a seeded fault that shows a property can fail; no   *)
(* action uses it.                                                           *)
(***************************************************************************)
EXTENDS RpcCodec, Integers

CONSTANTS
  Names,        \* the names that servers define and clients import
  Id,           \* symbol_id: the 64-bit id of each name; two names may share one
  Binders,      \* the binders handed to define()
  Signature,    \* their [args : Seq(type), result : type or "void"]
  Null,         \* nullptr
  Imports,      \* the [result : type or "void", args : Seq(wire value)] of calls
  Returns       \* what a handler may return, for each type

Types == {"int", "unsigned", "double", "bool", "string"}

VARIABLES
  phase,      \* define, serve, destroyed
  routes,     \* routes_[1..n], and at 0 the temporary that define() makes
  made,       \* history: binders that were allocated
  deleted,    \* history: how often each binder was deleted
  accepted,   \* history: the binder that define() accepted last for a name
  stage,      \* of the call: idle, request, response, done
  call,       \* the call in progress: name, result, args; or Null
  frame,      \* the request or response under way
  damaged,    \* the transport lost a part of the request
  ran,        \* history: the handler's binder, arguments, reply; or Null
  outcome     \* what the client's call gives; or Null

table == <<routes, made, deleted, accepted>>
vars == <<phase, table, stage, call, frame, damaged, ran, outcome>>

-----------------------------------------------------------------------------
(* Converters: what To makes of a C++ value and From of a wire value.       *)

Bits(x) == x % Limit(W64)
AsSigned(bits) == IF 2 * bits < Limit(W64) THEN bits ELSE bits - Limit(W64)

\* static_cast to a 32-bit type.
Narrowed(x) == ((x + Limit(W32) \div 2) % Limit(W32)) - (Limit(W32) \div 2)

AnyInt(x) == TRUE
IntRange(x) == -Limit(W32) <= 2 * x /\ 2 * x < Limit(W32)

To(type, x) ==
  IF type = "int" THEN Number(signed_integer, Bits(x))
  ELSE IF type = "unsigned" THEN Number(unsigned_integer, x)
  ELSE IF type = "double" THEN Number(real, x)
  ELSE IF type = "bool" THEN Boolean(IF x THEN 1 ELSE 0)
  ELSE String(x)

KindOf ==
  [int |-> signed_integer, unsigned |-> unsigned_integer, double |-> real,
   bool |-> boolean, string |-> string]

\* probe() and from() accept the same values.
Convertible(type, v) ==
  /\ v.kind = KindOf[type]
  /\ type = "int" => IntRange(AsSigned(v.bits))
  /\ type = "unsigned" => v.bits < Limit(W32)

From(type, v) ==
  IF type = "int" THEN Narrowed(AsSigned(v.bits))
  ELSE IF type = "bool" THEN v.bits = 1
  ELSE IF type = "string" THEN v.text
  ELSE IF type = "unsigned" THEN v.bits % Limit(W32)
  ELSE v.bits

\* The values of the C++ types.
Holdable(type, x) ==
  \/ type = "int" /\ x \in Int /\ IntRange(x)
  \/ type = "unsigned" /\ x \in 0..Limit(W32) - 1
  \/ type = "double" /\ x \in 0..Limit(W64) - 1
  \/ type = "bool" /\ x \in BOOLEAN
  \/ type = "string" /\ x \in Seq(Byte)

\* Clients and servers are typed C++; invoke_impl has wire values that fit a frame,
\* or it raised before there was a call.
ASSUME RouterAssumption ==
  /\ Null \notin Binders
  /\ Id \in [Names -> 0..Limit(W64) - 1]
  /\ W32 <= W64
  /\ Signature \in [Binders -> [args : Seq(Types), result : (DOMAIN Returns) \cup {"void"}]]
  /\ "void" \notin DOMAIN Returns
  /\ \A import \in Imports :
       /\ import.result \in Types \cup {"void"}
       /\ import.args \in Seq(Range(import.args))
       /\ Writable(Len(import.args))
       /\ \A i \in 1..Len(import.args) :
            IsValue(import.args[i]) /\ Writable(Len(import.args[i].text))
  /\ \A type \in DOMAIN Returns : \A x \in Returns[type] : Holdable(type, x)

-----------------------------------------------------------------------------
(* route, on a memory m of slots and deletions.                            *)

Memory == [at |-> routes, deleted |-> deleted]

EmptyRoute == [id |-> 0, name |-> Null, state |-> Null]
Emptied(route) == [route EXCEPT !.state = Null]
Make(name, binder) == [id |-> Id[name], name |-> name, state |-> binder]

Reset(m, i) ==
  IF m.at[i].state = Null THEN m
  ELSE [m EXCEPT !.at[i].state = Null, !.deleted[m.at[i].state] = @ + 1]

MoveConstruct(m, to, from) ==
  [m EXCEPT !.at = [i \in {to} \cup DOMAIN m.at |->
                      IF i = to THEN m.at[from]
                      ELSE IF i = from THEN Emptied(m.at[from]) ELSE m.at[i]]]

MoveAssignNoReset(m, to, from) ==
  [m EXCEPT !.at[to] = m.at[from], !.at[from].state = Null]
MoveAssign(m, to, from) ==
  IF to = from THEN m
  ELSE [Reset(m, to) EXCEPT !.at[to] = m.at[from], !.at[from].state = Null]

Size(at) == Cardinality(DOMAIN at) - 1

\* std::vector::insert of the temporary: the last element is constructed behind the
\* end, the others are assigned upwards, and the temporary is assigned to its place.
Insert(m, place) ==
  LET n == Size(m.at)
      shifted[i \in place..n] ==
        IF i = n THEN MoveConstruct(m, n + 1, n)
        ELSE MoveAssign(shifted[i + 1], i + 1, i)
  IN IF place = n + 1 THEN MoveConstruct(m, place, 0)
     ELSE MoveAssign(shifted[place], place, 0)

\* std::lower_bound by method id, halving the range r[1]..r[1] + r[2] - 1.
LowerBound(at, id) ==
  LET n == Size(at)
      search[r \in {q \in (1..n + 1) \X (0..n) : q[1] + q[2] <= n + 1}] ==
        LET half == r[2] \div 2
            mid == r[1] + half
        IN IF r[2] = 0 THEN r[1]
           ELSE IF at[mid].id < id THEN search[<<mid + 1, r[2] - half - 1>>]
           ELSE search[<<r[1], half>>]
  IN search[<<1, n>>]

Found(at, id) ==
  LET i == LowerBound(at, id) IN i <= Size(at) /\ at[i].id = id

\* ~route() of every element.
Cleared(m) ==
  LET cleared[i \in 0..Size(m.at)] == IF i = 0 THEN m ELSE Reset(cleared[i - 1], i)
  IN cleared[Size(m.at)]

-----------------------------------------------------------------------------
Init ==
  /\ phase = "define"
  /\ routes = [i \in {0} |-> EmptyRoute]
  /\ made = {} /\ deleted = [b \in Binders |-> 0]
  /\ accepted = [n \in Names |-> Null]
  /\ stage = "idle" /\ call = Null /\ frame = <<>> /\ damaged = FALSE /\ ran = Null /\ outcome = Null

Holds(m) == routes' = m.at /\ deleted' = m.deleted
Idle == stage = "idle"
NoCall == UNCHANGED <<stage, call, frame, damaged, ran, outcome>>

ReplacesAnyName(i, name) == TRUE
\* Of two names with one id only the first can be defined.
MayReplace(i, name) == routes[i].name = name

\* define(): the temporary replaces the route of its name or is inserted in its place,
\* and is destroyed.
Define(name, b) ==
  LET place == LowerBound(routes, Id[name])
      temporary == [Memory EXCEPT !.at[0] = Make(name, b)]
      placed == IF Found(routes, Id[name]) THEN MoveAssign(temporary, place, 0)
                ELSE Insert(temporary, place)
  IN /\ phase = "define" /\ b \notin made
     /\ Found(routes, Id[name]) => MayReplace(place, name)
     /\ Holds(Reset(placed, 0))
     /\ made' = made \cup {b}
     /\ accepted' = [accepted EXCEPT ![name] = b]
     /\ UNCHANGED phase /\ NoCall

\* define() of a name whose id another name has: protocol_error, nothing is made.
DefineCollides(name) ==
  /\ phase = "define" /\ Found(routes, Id[name])
  /\ ~MayReplace(LowerBound(routes, Id[name]), name)
  /\ UNCHANGED <<phase, table>> /\ NoCall

\* The vector cannot grow: the exception destroys the temporary only.
GrowthFails(name, b) ==
  /\ phase = "define" /\ b \notin made /\ ~Found(routes, Id[name])
  /\ Holds(Reset([Memory EXCEPT !.at[0] = Make(name, b)], 0))
  /\ made' = made \cup {b}
  /\ UNCHANGED <<phase, accepted>> /\ NoCall

Serve ==
  /\ phase = "define"
  /\ phase' = "serve"
  /\ UNCHANGED table /\ NoCall

\* The router is destroyed.
Destroy ==
  /\ phase # "destroyed" /\ Idle
  /\ phase' = "destroyed"
  /\ Holds(Cleared(Memory))
  /\ UNCHANGED <<made, accepted>> /\ NoCall

-----------------------------------------------------------------------------
(* A call.                                                                 *)

\* invoke_impl: the imported symbol's id and the converted arguments.
Call(name, import) ==
  /\ phase = "serve" /\ Idle
  /\ stage' = "request"
  /\ call' = [name |-> name, result |-> import.result, args |-> import.args]
  /\ frame' = EncodeRequest(Id[name], import.args)
  /\ UNCHANGED <<phase, table, damaged, ran, outcome>>

InTransit == stage = "request"

\* The transport loses the end of the request.
Damage ==
  /\ InTransit /\ ~damaged
  /\ damaged' = TRUE
  /\ frame' = Front(frame)
  /\ UNCHANGED <<phase, table, stage, call, ran, outcome>>

\* The texts that dispatch() answers an error with; Thrown is an exception's own.
InvalidFrame == <<1>>
UnknownMethod == <<2>>
Mismatched == <<3>>
UnknownFailure == <<4>>
Unsendable == <<5>>
Thrown == <<6>>

Answers(bytes) ==
  /\ stage' = "response"
  /\ frame' = bytes
  /\ UNCHANGED <<phase, table, call, damaged, outcome>>

Request == TryDecodeRequest(frame)
Route == routes[LowerBound(routes, Request.method)]

\* invoke_binder: the arity, then the conversion of every argument.
Matches(b, args) ==
  /\ Len(args) = Len(Signature[b].args)
  /\ \A i \in DOMAIN args : Convertible(Signature[b].args[i], args[i])

\* dispatch() answers an error without reaching a handler.
Refuse(message) ==
  /\ InTransit
  /\ ran' = [binder |-> Null, args |-> <<>>, reply |-> message]
  /\ Answers(EncodeError(message))

RefuseFrame == Request.status # "ok" /\ Refuse(InvalidFrame)
RefuseMethod ==
  /\ Request.status = "ok" /\ ~Found(routes, Request.method)
  /\ Refuse(UnknownMethod)
RefuseArguments ==
  /\ Request.status = "ok" /\ Found(routes, Request.method)
  /\ ~Matches(Route.state, Request.args)
  /\ Refuse(Mismatched)

\* The handler runs with the converted arguments.
Invoke(reply, bytes) ==
  /\ InTransit /\ Request.status = "ok" /\ Found(routes, Request.method)
  /\ Matches(Route.state, Request.args)
  /\ ran' = [binder |-> Route.state, reply |-> reply,
             args |-> [i \in DOMAIN Request.args |->
                         From(Signature[Route.state].args[i], Request.args[i])]]
  /\ Answers(bytes)

\* It returns, and encode_response takes the converted result; a result that no frame
\* can carry raises and is answered as an error.
HandlerReturns ==
  /\ InTransit /\ Request.status = "ok" /\ Found(routes, Request.method)
  /\ LET type == Signature[Route.state].result IN
     IF type = "void" THEN Invoke(<<>>, EncodeResponse(Undefined))
     ELSE \E x \in Returns[type] :
            LET v == To(type, x) IN
            Invoke(x, IF Writable(Len(v.text)) THEN EncodeResponse(v)
                      ELSE EncodeError(Unsendable))

\* It throws: a std::exception answers its text, anything else the unknown failure.
HandlerThrows ==
  \E message \in {Thrown, UnknownFailure} : Invoke(message, EncodeError(message))

\* decode_response and from_cast.
Outcome(response) ==
  IF response.status = "malformed" THEN [status |-> "protocol_error"]
  ELSE IF response.status = "remote_error" THEN response
  ELSE IF call.result = "void" THEN [status |-> "returned"]
  ELSE IF ~Convertible(call.result, response.result) THEN [status |-> "bad_conversion"]
  ELSE [status |-> "value", value |-> From(call.result, response.result)]

Receive ==
  /\ stage = "response" /\ stage' = "done"
  /\ outcome' = Outcome(TryDecodeResponse(frame))
  /\ UNCHANGED <<phase, table, call, frame, damaged, ran>>

\* The client has its outcome; the next call starts afresh.
CallEnds ==
  /\ stage = "done" /\ stage' = "idle"
  /\ call' = Null /\ frame' = <<>> /\ damaged' = FALSE /\ ran' = Null /\ outcome' = Null
  /\ UNCHANGED <<phase, table>>

Destroyed == phase = "destroyed" /\ UNCHANGED vars

Next ==
  \/ \E n \in Names, b \in Binders : Define(n, b) \/ GrowthFails(n, b)
  \/ \E n \in Names : DefineCollides(n)
  \/ Serve \/ Destroy
  \/ \E n \in Names, import \in Imports : Call(n, import)
  \/ Damage
  \/ RefuseFrame \/ RefuseMethod \/ RefuseArguments \/ HandlerReturns \/ HandlerThrows
  \/ Receive \/ CallEnds \/ Destroyed

Spec == Init /\ [][Next]_vars

-----------------------------------------------------------------------------
\* Every binder has one owner: through insertion, replacement, a vector that cannot
\* grow and the end of the router, a binder that was allocated is deleted exactly
\* once, and not while a route still has it.
BindersOwned ==
  \A b \in made :
    LET owners == {i \in DOMAIN routes : routes[i].state = b} IN
    deleted[b] + Cardinality(owners) = 1

\* A request for a defined name runs the binder that was defined for that name last,
\* whatever was defined, replaced or refused since and whichever ids collide.
ServesLastDefined ==
  ran # Null /\ ~damaged /\ accepted[call.name] # Null =>
    \/ ran.binder = accepted[call.name]
    \/ ran.binder = Null /\ ran.reply = Mismatched
         /\ ~Matches(accepted[call.name], call.args)

\* A call means the same at both ends.  A handler's arguments are the values the
\* client's wire values stand for, so numbers that a C++ type cannot hold never reach
\* a handler; and the client's outcome is the handler's: its value when both ends
\* agree on the type, its error as a remote error, never a protocol error.
CallFaithful ==
  /\ ran # Null /\ ran.binder # Null =>
       \A i \in DOMAIN ran.args :
         To(Signature[ran.binder].args[i], ran.args[i]) = call.args[i]
  /\ outcome # Null =>
       /\ outcome.status # "protocol_error"
       /\ outcome.status = "remote_error" => outcome.error \in {ran.reply, Unsendable}
       /\ outcome.status = "value" /\ Signature[ran.binder].result = call.result =>
            outcome.value = ran.reply
       /\ outcome.status = "bad_conversion" => Signature[ran.binder].result # call.result
=============================================================================
