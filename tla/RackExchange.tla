---------------------------- MODULE RackExchange ----------------------------
(***************************************************************************)
(* The head of one exchange on its way through the bridge: the client's    *)
(* header fields into the Rack environment, an upstream's answer into the  *)
(* Rack response an application passes on, or one of its own, and that     *)
(* into the fields Envoy sends, with the upgrade both sides agreed to.     *)
(*                                                                         *)
(* A field whose value lists several tokens stands for as many fields, and *)
(* the value "raw" for bytes that are no UTF-8.                            *)
(***************************************************************************)
EXTENDS Naturals, Sequences, SequencesExt

CONSTANTS
  MaxClientFields,            \* bound: fields of the client's that matter
  MaxUpstreamFields,          \* bound: fields of the upstream's answer
  MaxEntries                  \* bound: entries of an application's own headers

F(name, value) == [name |-> name, value |-> value]

\* The entries of a Rack headers hash: a name with a String, or with an Array.
S(name, value) == [name |-> name, array |-> FALSE, values |-> <<value>>]

A(name, values) == [name |-> name, array |-> TRUE, values |-> values]

None == "none"

Protocols == {"ws", "h2c"}

ClientFields ==
  { F("connection", "upgrade"), F("connection", "keep-alive"), F("upgrade", "ws"),
    F("upgrade", "h2c"), F("upgrade", "raw"), F(":path", "/"), F("host", "spoken"), F("x-a", "1"),
    F("x-a", "2") }

UpstreamFields ==
  { F(":status", "200"), F(":status", "101"), F(":status", "bad"), F("x-a", "1"), F("x-a", "raw"),
    F("x-b", "1"), F("upgrade", "ws"), F("connection", "close"), F("rack.protocol", "ws"),
    F("rack.protocol", "raw"), F("rack.x", "1") }

\* What an application answers itself, with names as it spells them.
Entries ==
  { S("rack.protocol", "ws"), A("rack.protocol", <<"h2c", "ws">>), S("Upgrade", "h2c"),
    S("connection", "close"), A("x-a", <<"1", "2">>), S("rack.x", "1") }

VARIABLES
  stage,
  client,                     \* the request's fields
  env,                        \* the Rack environment
  asked,                      \* the protocol an upstream was asked to upgrade to
  upstream,                   \* its answer, if the application passes it on
  status, hash,               \* the Rack response
  head,                       \* the ResponseHead
  accepted,                   \* the protocol the application accepted
  sent                        \* what goes to the client

vars == <<stage, client, env, asked, upstream, status, hash, head, accepted, sent>>

Init ==
  /\ stage = "received" /\ client \in SeqOf(ClientFields, MaxClientFields)
  /\ env = << >> /\ asked = None /\ upstream = << >> /\ status = None /\ hash = << >>
  /\ head = << >> /\ accepted = None /\ sent = << >>

IsPseudo(name) == name \in {":path", ":status"}

IsRack(name) == name \in {"rack.protocol", "rack.x"}

Lower(name) == IF name = "Upgrade" THEN "upgrade" ELSE name

\* from_utf8_lossy: what is no UTF-8 is replaced.
Text(value) == IF value = "raw" THEN "replaced" ELSE value

Values(fields, name) ==
  LET own == SelectSeq(fields, LAMBDA f : f.name = name)
  IN  [i \in 1 .. Len(own) |-> own[i].value]

Texts(fields, name) == [i \in DOMAIN Values(fields, name) |-> Text(Values(fields, name)[i])]

-----------------------------------------------------------------------------
(* build_env *)

\* Mutant of UpgradeProtocols: an upgrade field is an offer by itself.
UpgradeProtocolsAlone(fields) == Texts(fields, "upgrade")

UpgradeProtocols(fields) ==
  IF Contains(Texts(fields, "connection"), "upgrade") THEN Texts(fields, "upgrade") ELSE << >>

Keys == [ host |-> "HTTP_HOST", connection |-> "HTTP_CONNECTION", upgrade |-> "HTTP_UPGRADE" ]

EnvHeaderKey(name) == IF name = "x-a" THEN "HTTP_X_A" ELSE Keys[name]

\* Fields are set one after the other, over what the connection itself says.
SetField(e, f) == IF IsPseudo(f.name) THEN e
                  ELSE [k \in DOMAIN e \cup {EnvHeaderKey(f.name)} |->
                          IF k = EnvHeaderKey(f.name) THEN f.value ELSE e[k]]

BuildEnv ==
  /\ stage = "received" /\ stage' = "called"
  /\ LET facts == [k \in {"REQUEST_METHOD", "PATH_INFO", "HTTP_HOST"} |-> "fact"]
         offers == UpgradeProtocols(client)
     IN  env' = FoldLeft(SetField,
                         IF offers = << >> THEN facts
                         ELSE [k \in DOMAIN facts \cup {"rack.protocol"} |->
                                 IF k = "rack.protocol" THEN offers ELSE facts[k]],
                         client)
  /\ UNCHANGED <<client, asked, upstream, status, hash, head, accepted, sent>>

Offered == IF "rack.protocol" \in DOMAIN env THEN env["rack.protocol"] ELSE << >>

-----------------------------------------------------------------------------
(* The application: an upstream's answer passed on, or one of its own. *)

\* head_of: the last status counts.
StatusOf(fields) ==
  IF Values(fields, ":status") = << >> \/ Last(Values(fields, ":status")) = "bad" THEN None
  ELSE Last(Values(fields, ":status"))

FieldsOf(fields) ==
  LET own == SelectSeq(fields, LAMBDA f : ~IsPseudo(f.name))
  IN  [i \in 1 .. Len(own) |-> F(Text(own[i].name), Text(own[i].value))]

Entry(h, name) == SelectInSeq(h, LAMBDA e : e.name = name)

\* Mutant of AddHeader: a third value is treated as the second was.
AddHeaderPair(h, f) ==
  LET i == Entry(h, f.name)
  IN  IF i = 0 THEN Append(h, S(f.name, f.value))
      ELSE [h EXCEPT ![i] = A(f.name, <<h[i].values[1], f.value>>)]

\* rack_headers: a second value makes the String an Array, and a third is added
\* to the Array there is.
AddHeader(h, f) ==
  LET i == Entry(h, f.name)
  IN  IF i = 0 THEN Append(h, S(f.name, f.value))
      ELSE IF h[i].array THEN [h EXCEPT ![i].values = Append(@, f.value)]
      ELSE [h EXCEPT ![i] = A(f.name, <<h[i].values[1], f.value>>)]

RackHeaders(fields) == FoldLeft(AddHeader, << >>, fields)

\* `stream`, of an upstream that agreed to upgrade: `merge` replaces an entry
\* where it stands.
Upgraded(h, protocol) ==
  LET kept == SelectSeq(h, LAMBDA e : e.name \notin {"upgrade", "connection"})
      i    == Entry(kept, "rack.protocol")
  IN  IF i = 0 THEN Append(kept, S("rack.protocol", protocol))
      ELSE [kept EXCEPT ![i] = S("rack.protocol", protocol)]

Proxy ==
  /\ stage = "called"
  /\ upstream' \in SeqOf(UpstreamFields, MaxUpstreamFields) /\ StatusOf(upstream') # None
  /\ asked' \in Protocols \cup {None}
  /\ stage' = "answered" /\ status' = StatusOf(upstream')
  /\ LET h == RackHeaders(FieldsOf(upstream'))
     IN  hash' = IF asked' # None /\ status' = "101" THEN Upgraded(h, asked') ELSE h
  /\ UNCHANGED <<client, env, head, accepted, sent>>

\* The upstream's head made no sense: `call` and `stream` raise.
ProxyFails ==
  /\ stage = "called"
  /\ upstream' \in SeqOf(UpstreamFields, 1) /\ StatusOf(upstream') = None
  /\ stage' = "failed"
  /\ UNCHANGED <<client, env, asked, status, hash, head, accepted, sent>>

Answer ==
  /\ stage = "called"
  /\ hash' \in {h \in SeqOf(Entries, MaxEntries) :
                  \A i, j \in 1 .. Len(h) : h[i].name = h[j].name => i = j}
  /\ status' \in {"200", "101"}
  /\ stage' = "answered"
  /\ UNCHANGED <<client, env, asked, upstream, head, accepted, sent>>

\* response_parts refuses what is no triple, or has no status or headers.
Malformed ==
  /\ stage = "called" /\ stage' = "failed"
  /\ UNCHANGED <<client, env, asked, upstream, status, hash, head, accepted, sent>>

-----------------------------------------------------------------------------
(* respond, and the worker *)

\* copy_headers: a String is one field, an Array as many as it has values.
CopyHeaders(h) ==
  FlattenSeq([i \in 1 .. Len(h) |-> [j \in 1 .. Len(h[i].values) |-> F(h[i].name, h[i].values[j])]])

Accepts(protocol) == Contains(Offered, protocol)

Retained(fields) == SelectSeq(fields, LAMBDA f : Lower(f.name) \notin {"upgrade", "connection"})

\* accepted_protocol: the first rack.protocol is taken out, and stands for the
\* upgrade's own fields.
Respond ==
  /\ stage = "answered"
  /\ LET fields == CopyHeaders(hash)
         named  == SelectInSeq(fields, LAMBDA f : f.name = "rack.protocol")
     IN  IF named = 0
         THEN stage' = "responded" /\ head' = fields /\ UNCHANGED <<accepted, status>>
         ELSE IF ~Accepts(fields[named].value)
         THEN stage' = "failed" /\ UNCHANGED <<head, accepted, status>>
         ELSE /\ stage' = "responded" /\ accepted' = fields[named].value /\ status' = "101"
              /\ head' = Retained(RemoveAt(fields, named))
                         \o <<F("upgrade", fields[named].value), F("connection", "upgrade")>>
  /\ UNCHANGED <<client, env, asked, upstream, hash, sent>>

Sendable(f) == ~IsPseudo(f.name) /\ ~IsRack(f.name)

\* send_response_head
SendResponseHead ==
  /\ stage = "responded" /\ stage' = "sent"
  /\ sent' = <<F(":status", status)>> \o SelectSeq(head, Sendable)
  /\ UNCHANGED <<client, env, asked, upstream, status, hash, head, accepted>>

Next == BuildEnv \/ Proxy \/ ProxyFails \/ Answer \/ Malformed \/ Respond \/ SendResponseHead

Spec == Init /\ [][Next]_vars

-----------------------------------------------------------------------------
(* Properties. *)

Names == {f.name : f \in ClientFields \cup UpstreamFields} \cup {e.name : e \in Entries}

\* Every variable has the type the code gives it: one status leads, and nothing
\* that is Rack's own, or repeats a pseudo-header, is sent to a client.
TypeOK ==
  /\ stage \in {"received", "called", "answered", "responded", "sent", "failed"}
  /\ accepted \in Protocols \cup {"replaced", None} /\ status \in {None, "200", "101"}
  /\ \A i \in 1 .. Len(hash) : ~hash[i].array => Len(hash[i].values) = 1
  /\ \A i \in 1 .. Len(sent) :
       /\ sent[i].name \in Names /\ sent[i].name # ":path" /\ ~IsRack(sent[i].name)
       /\ sent[i].name = ":status" <=> i = 1

UpgradeNames == {n \in Names : Lower(n) \in {"upgrade", "connection"}}

\* An answer an application passes on keeps every value of every field as text
\* and in order, however often the field is repeated, through the hash and back.
\* What is left out is Rack's own (any name that starts with rack., also where the
\* upstream sent it) and, of an upgrade, the fields that go with it.
ProxiedIsFaithful ==
  stage = "sent" /\ upstream # << >> =>
    \A n \in Names \ (IF accepted = None THEN {} ELSE UpgradeNames) :
      ~IsPseudo(n) => Values(sent, n) = IF IsRack(n) THEN << >> ELSE Texts(upstream, n)

\* An upgrade goes out with its own two fields and no other, however the
\* application or the upstream spelt those they set; the client offered the
\* protocol and said the connection may change; and of an answer that is passed
\* on, the protocol is the one the upstream was asked for and took up with a 101,
\* or else the first it named itself, as an application would have.
UpgradeIsAgreed ==
  stage = "sent" /\ accepted # None =>
    /\ sent[1].value = "101"
    /\ \A n \in UpgradeNames :
         Values(sent, n) = CASE n = "upgrade" -> <<accepted>>
                             [] n = "connection" -> <<"upgrade">>
                             [] OTHER -> << >>
    /\ \E i, j \in 1 .. Len(client) :
         /\ client[i] = F("connection", "upgrade")
         /\ client[j].name = "upgrade" /\ Text(client[j].value) = accepted
    /\ upstream # << >> =>
         accepted = IF asked # None /\ StatusOf(upstream) = "101" THEN asked
                    ELSE Texts(upstream, "rack.protocol")[1]

\* Claimed by "A refusal arrives as an ordinary response": an upstream that was
\* asked to upgrade and answers anything but a 101 leaves the client's connection
\* as it was.
RefusalIsOrdinary ==
  stage = "sent" /\ asked # None /\ StatusOf(upstream) # "101" => sent[1].value # "101"
=============================================================================
