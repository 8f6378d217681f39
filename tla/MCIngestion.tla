----------------------------- MODULE MCIngestion -----------------------------
(***************************************************************************)
(* Ingestion with one message for every way a message can fare.              *)
(***************************************************************************)
EXTENDS Ingestion

Element(type, numbers, unit) == [type |-> type, numbers |-> numbers, unit |-> unit]
Message(fields, data) ==
  [parses |-> "syntax" \in fields, procID |-> "procID" \in fields,
   appname |-> "appname" \in fields, timestamp |-> "timestamp" \in fields,
   text |-> "text" \in fields, data |-> data]

Header == {"syntax", "procID", "appname", "timestamp"}
MCMessages ==
  {Message({}, {}), Message({"syntax", "appname", "text"}, {}), Message(Header, {}),
   Message({"syntax", "procID", "appname", "text"}, {}),
   Message(Header \cup {"text"}, {Element("tags", FALSE, FALSE)}),
   Message(Header, {Element("tags", FALSE, FALSE)}),
   Message(Header \cup {"text"}, {Element("other", TRUE, TRUE)}),
   Message(Header, {Element("counter", TRUE, FALSE), Element("event", FALSE, FALSE)}),
   Message(Header, {Element("timer", TRUE, FALSE), Element("gauge", TRUE, FALSE)}),
   Message(Header, {Element("gauge", TRUE, TRUE)})}
=============================================================================
