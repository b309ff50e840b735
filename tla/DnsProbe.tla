------------------------------ MODULE DnsProbe ------------------------------
(***************************************************************************)
(* The DNS probe (crates/nq-monitor/src/probe.rs): one query in one        *)
(* datagram, the first datagram that comes back, one row.  The socket is   *)
(* not connected and its port may be one an earlier probe used, so what    *)
(* comes back first may be an answer to an earlier query, a copy, or       *)
(* damaged; and the resolver may answer after the probe has given up.      *)
(***************************************************************************)
EXTENDS Naturals

CONSTANTS
  None,
  Queries,     \* bound: the probes made, in order 1..Queries
  Ids          \* the query ids there are (2^15 of them in the code)

DnsAssumption ==
  /\ Queries \in Nat
  /\ Ids \subseteq Nat

VARIABLES
  query,       \* the probe under way, 0 before the first
  idOf,        \* query id of each probe, None before it
  dnsPc,       \* "idle", "sent"
  wire,        \* datagrams on their way to the probe's port
  open,        \* queries the resolver has not answered yet
  dnsRows,     \* observations written: query -> row
  truth        \* history: what the resolver said to each query, None before

dnsVars == <<query, idOf, dnsPc, wire, open, dnsRows, truth>>
-----------------------------------------------------------------------------
(***************************************************************************)
(* Datagrams.  rcode 4 stands for the codes without a kind of their own;   *)
(* answers are the types of the records in the answer section, "asked" for *)
(* the one that was asked for.                                             *)
(***************************************************************************)
Replies ==
  [rcode : {0, 2, 3, 4, 5}, answers : {{}, {"asked"}, {"alias"}, {"alias", "asked"}}]

\* What may be wrong with one.
Damage == {"none", "short", "query", "truncated", "qdcount", "question", "record"}

\* The resolver answers what it was asked, once, and the answer may be damaged.
Answer ==
  \E q \in open, r \in Replies, d \in Damage :
    /\ wire' = wire \cup {[id |-> idOf[q], reply |-> r, damage |-> d]}
    /\ truth' = [truth EXCEPT ![q] = r]
    /\ open' = open \ {q}
    /\ UNCHANGED <<query, idOf, dnsPc, dnsRows>>

Lose ==
  \/ \E d \in wire : wire' = wire \ {d} /\ UNCHANGED open
  \/ \E q \in open : open' = open \ {q} /\ UNCHANGED wire
-----------------------------------------------------------------------------
Negative(rcode) ==
  CASE rcode = 3 -> "nxdomain" [] rcode = 5 -> "refused" [] OTHER -> "servfail"

\* Mutant: the id of the answer is not compared.
ParseResponseAnyId(d, id) ==
  IF d.damage # "none" THEN "transport_error"
  ELSE IF d.reply.rcode # 0 THEN Negative(d.reply.rcode)
  ELSE IF "asked" \in d.reply.answers THEN "success" ELSE "nodata"

\* parse_response: the header, then the question, then the code, and the answer
\* section only under code 0.  A record of another type is no answer.
ParseResponse(d, id) ==
  IF d.id # id \/ d.damage \in {"short", "query", "truncated", "qdcount", "question"}
  THEN "transport_error"
  ELSE IF d.reply.rcode # 0 THEN Negative(d.reply.rcode)
  ELSE IF d.reply.answers = {} THEN "nodata"
  ELSE IF d.damage = "record" THEN "transport_error"
  ELSE IF "asked" \in d.reply.answers THEN "success" ELSE "nodata"

Init ==
  /\ query = 0 /\ dnsPc = "idle" /\ wire = {} /\ open = {}
  /\ idOf = [q \in 1..Queries |-> None]
  /\ dnsRows = [q \in 1..Queries |-> None]
  /\ truth = [q \in 1..Queries |-> None]

\* outcome_from_wire, insert_dns_observation.
Record(kind) == dnsRows' = [dnsRows EXCEPT ![query] = kind]

\* generate_query_id: the clock and the process id, folded; ids come again.
\* UdpDnsClient::query up to send_to; a bad name, bind or send is recorded.
SendQuery ==
  /\ dnsPc = "idle" /\ query < Queries
  /\ query' = query + 1
  /\ \E id \in Ids : idOf' = [idOf EXCEPT ![query + 1] = id]
  /\ \/ dnsPc' = "sent" /\ open' = open \cup {query + 1} /\ UNCHANGED dnsRows
     \/ dnsPc' = "idle" /\ dnsRows' = [dnsRows EXCEPT ![query + 1] = "transport_error"] /\ UNCHANGED open
  /\ UNCHANGED <<wire, truth>>

\* One recv, and no second one.
Receive ==
  /\ dnsPc = "sent"
  /\ \E d \in wire : wire' = wire \ {d} /\ Record(ParseResponse(d, idOf[query]))
  /\ dnsPc' = "idle"
  /\ UNCHANGED <<query, idOf, open, truth>>

\* The read timeout, or another error of recv.
GiveUp ==
  /\ dnsPc = "sent"
  /\ Record("timeout") \/ Record("transport_error")
  /\ dnsPc' = "idle"
  /\ UNCHANGED <<query, idOf, wire, open, truth>>

Loses == Lose /\ UNCHANGED <<query, idOf, dnsPc, dnsRows, truth>>

Next == SendQuery \/ Answer \/ Loses \/ Receive \/ GiveUp

Spec == Init /\ [][Next]_dnsVars
-----------------------------------------------------------------------------
(***************************************************************************)
(* Properties.                                                             *)
(***************************************************************************)
\* What a reply means, whatever was in the way of it.
Meaning(r) ==
  IF r.rcode # 0 THEN Negative(r.rcode)
  ELSE IF "asked" \in r.answers THEN "success" ELSE "nodata"

\* A row that claims an answer or a clean negative claims what the resolver said
\* to that query, or to an earlier one of the same id: no damaged datagram and
\* none with another id becomes testimony.  A late answer to an earlier query does
\* when the id has come again, for neither the sender nor the question is compared
\* (parse_response, generate_query_id, record_probe).
RowTellsTheReply ==
  \A q \in 1..Queries :
    dnsRows[q] \notin {None, "transport_error", "timeout"} =>
      \E p \in 1..q :
        idOf[p] = idOf[q] /\ truth[p] # None /\ dnsRows[q] = Meaning(truth[p])
=============================================================================
