--------------------------- MODULE Announcements ---------------------------
(***************************************************************************)
(* What the sensors show of a connection: the binary sensor and the name   *)
(* of the phone.  The name is asked for on the Bluetooth task when a link  *)
(* comes up and answered at some later time, when that link may be gone or *)
(* be another phone's; disconnect() may come between any two records.      *)
(*                                                                         *)
(* Of the hub only the connection is kept; the control around it is in     *)
(* A2dpHub.tla.                                                            *)
(***************************************************************************)
EXTENDS Naturals, Sequences

CONSTANTS
  Phones,           \* a phone stands for its address and its name
  NoName,           \* the empty string, and no phone
  NAME_QUEUE,        \* records in the queue; none is lost here
  NAME_REQUESTS     \* bound: names asked for and not yet answered

ASSUME NoNameAssumption == NoName \notin Phones
ASSUME AnnouncementBounds == {NAME_QUEUE, NAME_REQUESTS} \subseteq Nat \ {0}

VARIABLES
  phone_link, phone,       \* the link as the stack sees it, and its other end
  name_requests,           \* esp_bt_gap_read_remote_name calls, oldest first
  records,                 \* the event queue
  hub_connected, last_phone, peer_name,
  binary_sensor,           \* last published
  name_sensor

phoneVars == <<phone_link, phone, name_requests>>
shownVars == <<hub_connected, last_phone, peer_name, binary_sensor, name_sensor>>
annVars == <<phoneVars, records, shownVars>>

AnnRecords == [type: {"CONNECTED", "DISCONNECTED", "PEER_NAME_UPDATED"},
               phone: Phones \cup {NoName}]

AnnTypeOK ==
  /\ phone_link \in {"down", "up", "closing"}
  /\ {phone, peer_name, name_sensor, last_phone} \subseteq Phones \cup {NoName}
  /\ name_requests \in Seq(Phones)
  /\ records \in Seq(AnnRecords)
  /\ {hub_connected, binary_sensor} \subseteq BOOLEAN

\* The binary sensor publishes is_connected() once in its setup().
AnnInit ==
  /\ phone_link = "down" /\ phone = NoName
  /\ name_requests = << >> /\ records = << >>
  /\ hub_connected = FALSE /\ last_phone = NoName /\ peer_name = NoName
  /\ binary_sensor = FALSE /\ name_sensor = NoName

-----------------------------------------------------------------------------
(* The Bluetooth task.                                                     *)

Record(type, p) ==
  /\ Len(records) < NAME_QUEUE
  /\ records' = Append(records, [type |-> type, phone |-> p])

\* The CONNECTED callback asks for the name before it posts its record.
PhoneConnects(p) ==
  /\ phone_link = "down" /\ Len(name_requests) < NAME_REQUESTS
  /\ phone_link' = "up" /\ phone' = p
  /\ name_requests' = Append(name_requests, p)
  /\ Record("CONNECTED", p)
  /\ UNCHANGED shownVars

PhoneLeaves ==
  /\ phone_link # "down"
  /\ phone_link' = "down" /\ phone' = NoName
  /\ Record("DISCONNECTED", NoName)
  /\ UNCHANGED <<name_requests, shownVars>>

\* handle_gap_event_: only a success is posted.
NameAnswered ==
  /\ name_requests # << >>
  /\ name_requests' = Tail(name_requests)
  /\ Record("PEER_NAME_UPDATED", Head(name_requests))
  /\ UNCHANGED <<phone_link, phone, shownVars>>

\* A phone that is connected answers; one that has gone may not.
NameFails ==
  /\ name_requests # << >>
  /\ phone_link # "up" \/ phone # Head(name_requests)
  /\ name_requests' = Tail(name_requests)
  /\ UNCHANGED <<phone_link, phone, records, shownVars>>

-----------------------------------------------------------------------------
(* The main loop: handlers and the callbacks they run.                     *)

NextRecord(type) ==
  /\ records # << >> /\ Head(records).type = type
  /\ records' = Tail(records)
  /\ UNCHANGED phoneVars

\* connection_callback_: the binary sensor, and the name if it is the end.
TellConnection(up) ==
  /\ hub_connected' = up /\ binary_sensor' = up
  /\ name_sensor' = IF up THEN name_sensor ELSE NoName

ConnectedRecord ==
  /\ NextRecord("CONNECTED")
  /\ IF hub_connected
       THEN UNCHANGED shownVars
       ELSE /\ TellConnection(TRUE)
            /\ last_phone' = Head(records).phone
            /\ UNCHANGED peer_name

DisconnectedRecord ==
  /\ NextRecord("DISCONNECTED")
  /\ IF hub_connected THEN TellConnection(FALSE)
                      ELSE UNCHANGED <<hub_connected, binary_sensor, name_sensor>>
  /\ UNCHANGED <<last_phone, peer_name>>

\* Faulty variant: a name that is already shown stays.
PeerNameOnce ==
  /\ NextRecord("PEER_NAME_UPDATED")
  /\ peer_name' = Head(records).phone
  /\ name_sensor' = IF name_sensor = NoName THEN peer_name' ELSE name_sensor
  /\ UNCHANGED <<hub_connected, last_phone, binary_sensor>>

PeerNameRecord ==
  /\ NextRecord("PEER_NAME_UPDATED")
  /\ peer_name' = Head(records).phone
  /\ name_sensor' = peer_name'
  /\ UNCHANGED <<hub_connected, last_phone, binary_sensor>>

\* disconnect(): the stack is asked, the subscribers are told at once.
DisconnectCall ==
  /\ hub_connected
  /\ phone_link' = IF phone_link = "up" /\ phone = last_phone
                     THEN "closing" ELSE phone_link
  /\ TellConnection(FALSE)
  /\ UNCHANGED <<phone, name_requests, records, last_phone, peer_name>>

HandleRecord == ConnectedRecord \/ DisconnectedRecord \/ PeerNameRecord
AnswerName == NameAnswered \/ NameFails

AnnNext ==
  \/ \E p \in Phones : PhoneConnects(p)
  \/ PhoneLeaves
  \/ AnswerName
  \/ HandleRecord
  \/ DisconnectCall

\* loop() drains the queue; every name request is answered in the end.
AnnFairness == WF_annVars(HandleRecord) /\ WF_annVars(AnswerName)

-----------------------------------------------------------------------------
\* With an empty queue the binary sensor tells the link, and once the stack has
\* answered for every name as well, the name sensor tells the phone at its end:
\* no late name of another phone is left standing, and none is still to come
\* that a disconnect() in between could have wiped.
SensorsSettled ==
  records = << >> =>
    /\ phone_link = "down" => ~binary_sensor
    /\ phone_link = "up" =>
         /\ binary_sensor
         /\ name_requests = << >> => name_sensor = phone

\* Whatever came before - late names of other phones, disconnect() over a link
\* that was already another one - once a phone stays, the sensors show it and
\* its name (a2dp_sink_text_sensor.h:15), and once no phone is there, that.
SensorsConverge ==
  /\ \A p \in Phones :
       <>[](phone_link = "up" /\ phone = p) => <>[](binary_sensor /\ name_sensor = p)
  /\ <>[](phone_link = "down") => <>[]~binary_sensor
=============================================================================
