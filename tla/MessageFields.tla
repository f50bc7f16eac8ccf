---------------------------- MODULE MessageFields ----------------------------
(***************************************************************************)
(* The fields of a message: what OutboundMessageBuilder::build writes into *)
(* the C message (src/message/outbound.rs) and what the getters read from  *)
(* one, built here or received (src/message.rs, src/message/inbound.rs).   *)
(*                                                                         *)
(* A C message is [text, num, props]: functions on the fields it carries.  *)
(* A user property is a pair <<type, text>>.  Times are counted in half    *)
(* milliseconds from the UNIX epoch, so that rounding can be seen.         *)
(***************************************************************************)
EXTENDS PropertyLists

CONSTANTS
    Word,           \* 2 to the width of a u64
    MaxUserData     \* SOLCLIENT_BUFINFO_MAX_USER_DATA_SIZE

ASSUME WordAssumption == Word \in Nat /\ Word > 0 /\ Word % 2 = 0 /\ MaxUserData \in Nat

\* An unsigned word read as a signed one.
AsSigned(n) == IF n < Word \div 2 THEN n ELSE n - Word

-----------------------------------------------------------------------------
(* Writing.                                                                *)

MessageTexts == {"delivery_mode", "destination", "payload", "correlation_id", "application_id",
                 "application_msg_type"}
MessageFlags == {"eliding_eligible", "is_reply"}

\* SystemTime to milliseconds: refused before the epoch and beyond an i64.
BadTimestamp(ts) == ts < 0 \/ ts \div 2 >= Word \div 2

\* OutboundMessageBuilder::build up to the field it refuses, in this order.  The
\* message allocated before is freed with msg when build returns an error.
MessageFault(texts, nums, props) ==
    LET missing == {"delivery_mode", "destination", "payload"} \ DOMAIN texts
        malformed == {key \in {"correlation_id", "application_id", "application_msg_type"} \cap DOMAIN texts :
                         HasNul(texts[key])}
        badNumbers == {key \in DOMAIN nums : \/ key = "user_data" /\ nums[key] > MaxUserData
                                             \/ key = "sender_timestamp" /\ BadTimestamp(nums[key])}
        badProps == IF \E k \in DOMAIN props : HasNul(k) \/ HasNul(props[k]) THEN {"user_properties"} ELSE {}
    IN  FirstFault(<<"delivery_mode", "destination", "user_data", "user_properties", "payload",
                     "correlation_id", "sender_timestamp", "application_id", "application_msg_type">>,
                   missing \cup malformed \cup badNumbers \cup badProps)

\* DestinationType::to_i32: a topic is written as a temporary one.
ToRawType(type) == IF type = "Topic" THEN "TopicTemp" ELSE type

\* ClassOfService to u32; the C library starts a message at SOLCLIENT_COS_1.
ToRawClass(cos) == cos - 1

\* seq_number goes down as the word it is, a timestamp in whole milliseconds.
WriteNumber(key, n) ==
    CASE key = "sender_timestamp" -> n \div 2
      [] key = "class_of_service" -> ToRawClass(n)
      [] OTHER -> n

\* The C message of a build that succeeds.
WriteMessage(texts, nums, props) ==
    [text |-> [key \in DOMAIN texts \ {"user_properties"} |->
                  IF key = "destination" THEN ToRawType(texts[key]) ELSE texts[key]],
     num |-> [key \in DOMAIN nums |-> WriteNumber(key, nums[key])] ++ [class_of_service |-> ToRawClass(1)],
     props |-> [k \in DOMAIN props |-> <<"string", props[k]>>]]

-----------------------------------------------------------------------------
(* Reading.  A getter returns <<"some", value>>, or one of these.          *)

None == <<"none">>
Error == <<"error">>
Some(value) == <<"some", value>>

\* get_correlation_id, get_sender_id: NOT_FOUND is None, a text that is not UTF-8
\* an error.
GetText(msg, key) ==
    IF key \notin DOMAIN msg.text THEN None
    ELSE IF msg.text[key] = "not utf-8" THEN Error ELSE Some(msg.text[key])

\* get_application_message_id, get_application_msg_type: no error, only None.
GetTextOrNone(msg, key) == IF GetText(msg, key) = Error THEN None ELSE GetText(msg, key)

\* get_payload and get_xml_part borrow what is there; of user data the length is kept.
GetBytes(msg, key) == IF key \in DOMAIN msg.text THEN Some(msg.text[key]) ELSE None

\* get_destination, get_reply_to: a type the crate does not know is the null destination.
\* Failures of the C function are left out; all but two of its codes are read as a destination.
DestinationTypes == {"Null", "Topic", "Queue", "TopicTemp", "QueueTemp"}
GetDestination(msg, key) ==
    IF key \notin DOMAIN msg.text THEN None
    ELSE IF msg.text[key] \in DestinationTypes THEN Some(msg.text[key]) ELSE Some("Null")

GetUserData(msg) == IF "user_data" \in DOMAIN msg.num THEN Some(msg.num["user_data"]) ELSE None

\* get_payload_as_string: no string container, or a null pointer in one, is None.
GetPayloadString(msg) ==
    IF "payload_string" \in DOMAIN msg.text /\ msg.text["payload_string"] = "null" THEN None
    ELSE GetText(msg, "payload_string")

\* get_replication_group_message_id: the token is read, then written as text, which the
\* library refuses for a token it does not know; get_replication_group_message_id_raw.
GetRgmid(msg) ==
    IF "rgmid" \notin DOMAIN msg.text THEN None
    ELSE IF msg.text["rgmid"] = "unprintable" THEN Error ELSE Some(msg.text["rgmid"])
GetRgmidRaw(msg) == GetBytes(msg, "rgmid")

\* is_eliding_eligible, is_reply, is_redelivered, is_discard_indication.
GetFlag(msg, key) == key \in DOMAIN msg.text /\ msg.text[key] = "true"

\* get_priority: -1 is how the C library says that there is none.
GetPriority(msg) ==
    LET priority == IF "priority" \in DOMAIN msg.num THEN msg.num["priority"] ELSE -1
    IN  IF priority = -1 THEN None ELSE Some(priority % 256)

GetSequenceNumber(msg) ==
    IF "seq_number" \in DOMAIN msg.num THEN Some(AsSigned(msg.num["seq_number"])) ELSE None

\* get_cache_request_id, get_msg_id.
GetNumber(msg, key) == IF key \in DOMAIN msg.num THEN Some(msg.num[key]) ELSE None

\* get_expiration does not look at the return code.
GetExpiration(msg) == IF "expiration" \in DOMAIN msg.num THEN msg.num["expiration"] ELSE 0

\* is_cache_msg: CacheStatus::from_i32 or InvalidMessage; without a cache a message is live.
CacheStatuses == [n \in {-1, 0, 1, 2} |-> CASE n = 0 -> "LiveMessage" [] n = 1 -> "CacheMessage"
                                           [] n = 2 -> "SuspectMessage" [] OTHER -> "InvalidMessage"]
GetCacheStatus(msg) ==
    LET raw == IF "cache_status" \in DOMAIN msg.num THEN msg.num["cache_status"] ELSE 0
    IN  IF raw \in DOMAIN CacheStatuses THEN CacheStatuses[raw] ELSE "InvalidMessage"

GetClassOfService(msg) ==
    IF msg.num["class_of_service"] \in 0 .. 2 THEN Some(msg.num["class_of_service"] + 1) ELSE Error

\* Variant of GetTimestamp: the i64 is cast to a u64.
GetTimestampCast(msg, key) ==
    IF key \notin DOMAIN msg.num THEN None ELSE Some((msg.num[key] % Word) * 2)

\* get_sender_timestamp, get_receive_timestamp: before the epoch there is none.
GetTimestamp(msg, key) ==
    IF key \notin DOMAIN msg.num \/ msg.num[key] < 0 THEN None ELSE Some(msg.num[key] * 2)

\* get_user_properties: fields that are no strings, or not UTF-8, are skipped.
GetUserProperties(msg) ==
    LET readable == {k \in DOMAIN msg.props :
                        /\ k # "not utf-8"
                        /\ msg.props[k][1] = "string"
                        /\ msg.props[k][2] # "not utf-8"}
    IN  [k \in readable |-> msg.props[k][2]]
=============================================================================
