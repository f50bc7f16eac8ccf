------------------------------- MODULE Builders -------------------------------
(***************************************************************************)
(* The builders of the crate and the message getters, driven by an         *)
(* application: it calls setters in any order, several times if it likes,  *)
(* and builds.  A session, flow, cache session or context becomes a        *)
(* property list, a message a C message.  "foreign" is a message of        *)
(* another publisher, which only the getters see.  The arguments of        *)
(* create_flow_active are its setter calls; three of them always come.     *)
(***************************************************************************)
EXTENDS SessionProps, FlowProps, MessageFields

CONSTANTS
    Kinds,          \* what is built
    Samples,        \* Samples[option]: the numbers it is set to
    MaxCalls        \* bounds the run: setter calls after the required ones, foreign fields

ASSUME KindsAssumption ==
    /\ Kinds \subseteq {"session", "async_session", "flow", "async_flow", "cache", "crypto", "message", "foreign"}
    /\ MaxCalls \in Nat

VARIABLES
    kind,
    given,          \* the required options, set first
    texts, nums,    \* the fields of the builder that are Some
    userProps,      \* user_properties of the message builder
    asked,          \* the setter calls so far
    built,          \* build() has been called
    fault,          \* the option it refused, or "none"
    raw,            \* the property list
    msg             \* the C message

fieldVars == <<texts, nums, userProps>>
resultVars == <<built, fault, raw, msg>>
vars == <<kind, given, fieldVars, asked, resultVars>>

-----------------------------------------------------------------------------
RequiredOptions(k) ==
    CASE k \in {"session", "async_session"} -> Range(Required)
      [] k = "flow" -> {"bind_entity", "bind_name", "on_message"}
      [] k = "async_flow" -> {"bind_name"}
      [] k = "cache" -> {"cache_name"}
      [] k = "message" -> {"delivery_mode", "destination", "payload"}
      [] OTHER -> {}

\* The setters that take a text or a flag, and what they are called with; "nul" where the
\* type of the argument allows it.
SessionSetters == [key \in SessionTexts |-> {"y", "nul"}] ++ [key \in SessionFlags |-> {"true", "false"}]

AsyncSessionSetters == Restrict(SessionSetters, DOMAIN SessionSetters \cap (Range(Required) \cup AsyncSessionOptions))

FlowSetters ==
    [key \in {"bind_name"} \cup FlowOptions |-> {"y", "nul"}] ++ [key \in FlowFlags |-> {"true", "false"}]
    ++ [ack_mode |-> {"auto", "client"}, bind_entity |-> {"queue", "topic_endpoint"}]

AsyncFlowSetters == Restrict(FlowSetters, {"bind_name", "ack_mode", "active_flow_indication"})

MessageSetters ==
    [key \in {"correlation_id", "application_id", "application_msg_type"} |-> {"y", "nul"}]
    ++ [key \in MessageFlags |-> {"true", "false"}]
    ++ [payload |-> {"y"}, destination |-> {"Topic", "Queue", "TopicTemp", "QueueTemp"}]

ForeignTexts ==
    [correlation_id |-> {"y", "not utf-8"}, application_id |-> {"y", "not utf-8"}, xml_part |-> {"y"},
     payload_string |-> {"y", "null", "not utf-8"}, reply_to |-> {"Topic", "QueueTemp", "unknown"},
     rgmid |-> {"y", "unprintable"}, redelivered |-> {"true"}]

Setters ==
    [session |-> SessionSetters, async_session |-> AsyncSessionSetters, flow |-> FlowSetters,
     async_flow |-> AsyncFlowSetters, cache |-> [cache_name |-> {"y", "nul"}],
     crypto |-> [key \in {"ssl_lib", "crypto_lib"} |-> {"y", "nul"}], message |-> MessageSetters,
     foreign |-> ForeignTexts]

NumberSetters ==
    [session |-> SessionNumbers, async_session |-> SessionNumbers \cap AsyncSessionOptions,
     flow |-> {"window_size", "max_unacked_messages"}, async_flow |-> {"window_size", "max_unacked_messages"},
     cache |-> DOMAIN CacheDefaults, crypto |-> {},
     message |-> {"seq_number", "priority", "class_of_service", "sender_timestamp", "user_data"},
     foreign |-> {"sender_timestamp", "rcv_timestamp", "cache_status", "msg_id", "cache_request_id", "expiration"}]

\* The types of the setters' arguments: unsigned but for retries and limits that may be -1
\* and times that may lie before the epoch; u8, ClassOfService and u64.
ASSUME SamplesAssumption ==
    /\ \A key \in (SessionNumbers \ Retries) \cup {"user_data"} : Samples[key] \subseteq Nat
    /\ \A key \in Retries \cup {"sender_timestamp", "rcv_timestamp", "cache_status"} : Samples[key] \subseteq Int
    /\ Samples["priority"] \subseteq 0 .. 255
    /\ Samples["class_of_service"] \subseteq 1 .. 3
    /\ Samples["seq_number"] \subseteq 0 .. Word - 1

\* A number, one that is asked for or a default, does not read like the null pointer.
ASSUME NumeralsAssumption ==
    /\ \A key \in SessionNumbers \cup {"window_size", "max_unacked_messages"} \cup DOMAIN CacheDefaults :
          \A n \in Samples[key] : ToString(n) # Null
    /\ \A n \in {0, 1, 255, 10000} : ToString(n) # Null

\* SOLCLIENT_COS_1 is what a message starts with.
EmptyMessage == [text |-> <<>>, num |-> [class_of_service |-> 0], props |-> <<>>]

\* What create_flow_active is called with at least.
FirstCalls(k) ==
    IF k = "async_flow" THEN <<<<"ack_mode", "auto">>, <<"window_size", 1>>, <<"active_flow_indication", "false">>>>
    ELSE <<>>

\* All required options are there, or all but one.
Init ==
    /\ kind \in Kinds
    /\ \E without \in (IF kind \in {"cache", "async_flow"} THEN {} ELSE RequiredOptions(kind)) \cup {"none"} :
          given = [key \in RequiredOptions(kind) \ {without} |->
                      CASE key = "destination" -> "Queue" [] key = "bind_entity" -> "queue" [] OTHER -> "x"]
    /\ texts = CASE kind = "flow" -> given ++ FlowDefaultTexts
                 [] kind = "async_flow" -> given ++ [ack_mode |-> "auto", active_flow_indication |-> "false"]
                 [] OTHER -> given
    /\ nums = CASE kind = "flow" -> FlowDefaultNumbers [] kind = "async_flow" -> [window_size |-> 1] [] OTHER -> <<>>
    /\ userProps = <<>>
    /\ asked = FirstCalls(kind)
    /\ built = FALSE
    /\ fault = "none"
    /\ raw = NoList
    /\ msg = EmptyMessage

-----------------------------------------------------------------------------
(* Setters.                                                                *)

Calls == ~built /\ kind # "foreign" /\ Len(asked) < Len(FirstCalls(kind)) + MaxCalls

Note(call) == asked' = Append(asked, call)

\* A setter replaces the value; false makes a flag of a message None again.
SetText(key, text) ==
    /\ Calls
    /\ texts' = IF kind = "message" /\ text = "false" THEN Restrict(texts, DOMAIN texts \ {key})
                ELSE With(texts, key, text)
    /\ Note(<<key, text>>)
    /\ UNCHANGED <<kind, given, nums, userProps, resultVars>>

SetNumber(key, n) ==
    /\ Calls
    /\ nums' = With(nums, key, n)
    /\ Note(<<key, n>>)
    /\ UNCHANGED <<kind, given, texts, userProps, resultVars>>

UserKeys == {"k1", "k2"}
UserMaps == [{"k1"} -> {"a"}] \cup [{} -> {"a"}]

SetUserProperty(key, text) ==
    /\ Calls /\ kind = "message"
    /\ userProps' = With(userProps, key, text)
    /\ Note(<<"user_property", key, text>>)
    /\ UNCHANGED <<kind, given, texts, nums, resultVars>>

\* Variant of SetUserProperties: the map is added to what is there.
AddUserProperties(map) ==
    /\ Calls /\ kind = "message"
    /\ userProps' = map ++ userProps
    /\ Note(<<"user_properties", map>>)
    /\ UNCHANGED <<kind, given, texts, nums, resultVars>>

SetUserProperties(map) ==
    /\ Calls /\ kind = "message"
    /\ userProps' = map
    /\ Note(<<"user_properties", map>>)
    /\ UNCHANGED <<kind, given, texts, nums, resultVars>>

-----------------------------------------------------------------------------
(* build().                                                                *)

BuildList(why, list) ==
    /\ ~built
    /\ built' = TRUE
    /\ fault' = why
    /\ raw' = IF why = "none" THEN list ELSE NoList
    /\ UNCHANGED <<kind, given, fieldVars, asked, msg>>

BuildSession == kind = "session" /\ BuildList(SessionFault(texts, nums), SessionToRaw(texts, nums))
BuildAsyncSession ==
    kind = "async_session" /\ BuildList(AsyncSessionFault(texts, nums), SessionToRaw(Forward(texts), Forward(nums)))
BuildAsyncFlow == kind = "async_flow" /\ BuildList(AsyncFlowFault(texts), AsyncFlowToRaw(texts, nums))
BuildFlow == kind = "flow" /\ BuildList(FlowFault(texts), FlowToRaw(texts, nums))
BuildCache == kind = "cache" /\ BuildList(CacheFault(texts), CacheToRaw(texts, nums))
BuildCrypto == kind = "crypto" /\ BuildList(CryptoFault(texts), CryptoToRaw(texts))

BuildMessage ==
    /\ kind = "message"
    /\ ~built
    /\ built' = TRUE
    /\ fault' = MessageFault(texts, nums, userProps)
    /\ msg' = IF fault' = "none" THEN WriteMessage(texts, nums, userProps) ELSE EmptyMessage
    /\ UNCHANGED <<kind, given, fieldVars, asked, raw>>

\* Another publisher, and the broker, set a field; what a C message can hold.
MoreFields ==
    /\ kind = "foreign"
    /\ Cardinality(DOMAIN msg.text) + Cardinality(DOMAIN msg.num) + Cardinality(DOMAIN msg.props) <= MaxCalls

ForeignText(key, text) ==
    /\ MoreFields /\ key \notin DOMAIN msg.text
    /\ msg' = [msg EXCEPT !.text = With(@, key, text)]
    /\ UNCHANGED <<kind, given, fieldVars, asked, built, fault, raw>>

ForeignNumber(key, n) ==
    /\ MoreFields /\ key \notin DOMAIN msg.num
    /\ msg' = [msg EXCEPT !.num = With(@, key, n)]
    /\ UNCHANGED <<kind, given, fieldVars, asked, built, fault, raw>>

ForeignProperty(key, value) ==
    /\ MoreFields /\ key \notin DOMAIN msg.props
    /\ msg' = [msg EXCEPT !.props = With(@, key, value)]
    /\ UNCHANGED <<kind, given, fieldVars, asked, built, fault, raw>>

Next ==
    \/ \E key \in DOMAIN Setters[kind] : \E text \in Setters[kind][key] : SetText(key, text) \/ ForeignText(key, text)
    \/ \E key \in NumberSetters[kind] : \E n \in Samples[key] : SetNumber(key, n) \/ ForeignNumber(key, n)
    \/ \E key \in UserKeys, text \in {"a", "b", "nul"} : SetUserProperty(key, text)
    \/ \E map \in UserMaps : SetUserProperties(map)
    \/ \E key \in UserKeys \cup {"not utf-8"}, value \in {<<"string", "a">>, <<"string", "not utf-8">>, <<"int", "1">>} :
          ForeignProperty(key, value)
    \/ BuildSession \/ BuildAsyncSession \/ BuildFlow \/ BuildAsyncFlow \/ BuildCache \/ BuildCrypto \/ BuildMessage

Spec == Init /\ [][Next]_vars

-----------------------------------------------------------------------------
(* Properties.                                                             *)

Made == built /\ fault = "none"
Listed == Made /\ kind # "message"

\* The value of the last call for an option; calls of other options do not count.
AskedFor(key) == \E i \in DOMAIN asked : asked[i][1] = key
LastWord(key) ==
    IF AskedFor(key) THEN asked[Max({i \in DOMAIN asked : asked[i][1] = key})][2] ELSE given[key]
Wanted == DOMAIN given \cup {asked[i][1] : i \in DOMAIN asked}

\* The C library reads pairs up to a null pointer: every list has whole pairs, no key
\* twice, and ends, or is not there at all (session/builder.rs:184-187, "first we specify the key, then the value").
ListsAreWellFormed == Listed => raw = NoList \/ WellFormed(raw)

\* The properties of a kind of list and their defaults in the library, by option.
NameOf == CASE kind \in {"session", "async_session"} -> SessionNames
            [] kind \in {"flow", "async_flow"} -> FlowName
            [] kind = "cache" -> CacheName
            [] kind = "crypto" -> CryptoName

DefaultOf == CASE kind \in {"session", "async_session"} -> SessionDefaults
               [] kind \in {"flow", "async_flow"} -> FlowDefaults
               [] kind = "cache" -> CacheLibraryDefaults
               [] kind = "crypto" -> <<>>

\* What an option is for the library in the end, as a set: empty when nobody says.
Effective(option) ==
    LET seen == LibraryReads(raw)
    IN  IF NameOf[option] \in DOMAIN seen THEN {seen[NameOf[option]]}
        ELSE IF option \in DOMAIN DefaultOf THEN {DefaultOf[option]} ELSE {}

\* What the documentation promises of options nobody sets: of flows
\* (flow/builder.rs:70-151, "Default: ..."), of sessions (session/builder.rs:446-449 and
\* async_support.rs:171-189, "enabled by default", "Disabled by default"), of flows of an
\* AsyncSession (async_support.rs:475, "created in the stopped state") and of
\* CacheSession::new, and what to_raw always sets.
Documented ==
    CASE kind = "flow" -> [durable |-> "1", ack_mode |-> "1", window_size |-> ToString(255), no_local |-> "0",
                           start_state |-> "1", active_flow_indication |-> "0", browser |-> "0", max_unacked_messages |-> "-1"]
      [] kind = "async_flow" -> [bind_entity |-> "2", durable |-> "1", start_state |-> "0"]
      [] kind = "cache" -> [max_message |-> "1", max_age |-> ToString(0), timeout_ms |-> ToString(10000)]
      [] kind \in {"session", "async_session"} ->
            [connect_blocking |-> "1", guaranteed_with_web_transport |-> "1",
             ssl_validate_certificate |-> "1", generate_rcv_timestamps |-> "0"]
      [] OTHER -> <<>>

AsString(key) ==
    LET value == LastWord(key)
    IN  IF key \in NumberSetters[kind] THEN ToString(value)
        ELSE CASE key = "bind_entity" -> IF value = "queue" THEN "2" ELSE "3"
               [] key = "ack_mode" -> IF value = "auto" THEN "1" ELSE "2"
               [] key \in SessionFlags \cup FlowFlags -> IF value = "true" THEN "1" ELSE "0"
               [] OTHER -> value

\* Of every option the library ends up with the last value it was set to, or the
\* documented default, under the property of that option, and it hears of no other
\* property: no option is lost between setter, check and list, lands on another's
\* property, or is taken for unset because it is false.  CacheLimitArrives is about the
\* option left out here.
LibraryGetsTheLastWord ==
    Listed =>
        LET wanted == [key \in Wanted \ {"on_message"} |-> AsString(key)] ++ Documented
            unheard == IF kind = "cache" THEN {"max_message"} ELSE {}
        IN  /\ \A key \in DOMAIN wanted \ unheard : Effective(key) = {wanted[key]}
            /\ kind # "cache" => DOMAIN LibraryReads(raw) \subseteq {NameOf[key] : key \in DOMAIN wanted}

\* The max_message of Session::cache_session (session.rs:173-184) is the library's
\* CACHESESSION_MAX_MSGS.
CacheLimitArrives ==
    Listed /\ kind = "cache" /\ AskedFor("max_message") => Effective("max_message") = {AsString("max_message")}

\* The intervals the error messages of the session builder name
\* (session/builder.rs:751-926, "valid range is ...").
InNamedRange(key, x) ==
    CASE key \in {"buffer_size_bytes", "block_write_timeout_ms", "connect_timeout_ms"} -> x >= 1
      [] key = "subconfirm_timeout_ms" -> x >= 1000
      [] key \in {"socket_send_buf_size_bytes", "socket_rcv_buf_size_bytes"} -> x = 0 \/ x >= 1024
      [] key = "keep_alive_interval_ms" -> x = 0 \/ x >= 50
      [] key = "keep_alive_limit" -> x >= 3
      [] key = "compression_level" -> x <= 9
      [] key = "openssl_security_level" -> x \in 0 .. 5
      [] key \in Retries -> x >= -1
      [] OTHER -> TRUE

\* A session, sync or async, is refused exactly when a required option is missing, a text
\* cannot be a C string or a number lies outside the range its error message names,
\* whatever else was set before and after.
RefusalsAreJust ==
    built /\ kind \in {"session", "async_session"} =>
        (fault = "none" <=>
            /\ Range(Required) \subseteq Wanted
            /\ \A key \in Wanted :
                  IF key \in SessionNumbers THEN InNamedRange(key, LastWord(key)) ELSE LastWord(key) # "nul")

\* The user properties the calls add up to.
WantedProperty(key) ==
    LET touching == {i \in DOMAIN asked :
                        \/ asked[i][1] = "user_properties"
                        \/ asked[i][1] = "user_property" /\ asked[i][2] = key}
        call == asked[Max(touching)]
    IN  IF touching = {} THEN None
        ELSE IF call[1] = "user_property" THEN Some(call[3])
        ELSE IF key \in DOMAIN call[2] THEN Some(call[2][key]) ELSE None

\* Reading a message back gives what it was built from (the it_should_build_* tests of
\* message/outbound.rs): texts, a destination that is not the topic written as a temporary
\* one, flags, numbers and user properties, a timestamp to the millisecond, a sequence
\* number as far as an i64 goes, and None for the rest.
MessageReadsBack ==
    Made /\ kind = "message" =>
        /\ \A key \in {"correlation_id", "application_id", "application_msg_type"} :
              GetText(msg, key) = IF key \in Wanted THEN Some(LastWord(key)) ELSE None
        /\ GetBytes(msg, "payload") = Some(LastWord("payload"))
        /\ LastWord("destination") # "Topic" => GetDestination(msg, "destination") = Some(LastWord("destination"))
        /\ {GetDestination(msg, "reply_to"), GetBytes(msg, "xml_part"), GetPayloadString(msg), GetNumber(msg, "msg_id"),
            GetRgmid(msg)} = {None}
        /\ \A key \in MessageFlags : GetFlag(msg, key) <=> AskedFor(key) /\ LastWord(key) = "true"
        /\ GetPriority(msg) = IF AskedFor("priority") THEN Some(LastWord("priority")) ELSE None
        /\ GetClassOfService(msg) = IF AskedFor("class_of_service") THEN Some(LastWord("class_of_service")) ELSE Some(1)
        /\ GetUserData(msg) = IF AskedFor("user_data") THEN Some(LastWord("user_data")) ELSE None
        /\ AskedFor("seq_number") /\ LastWord("seq_number") < Word \div 2 =>
              GetSequenceNumber(msg) = Some(LastWord("seq_number"))
        /\ GetTimestamp(msg, "sender_timestamp") =
              IF AskedFor("sender_timestamp") THEN Some(LastWord("sender_timestamp") - (LastWord("sender_timestamp") % 2))
              ELSE None
        /\ \A key \in UserKeys :
              (IF key \in DOMAIN GetUserProperties(msg) THEN Some(GetUserProperties(msg)[key]) ELSE None)
              = WantedProperty(key)

\* The getters invent nothing: what they return of a foreign message is a field it
\* carries, a time after the epoch, a text that is one; a property that cannot be read
\* does not hide the others, a destination or cache status the crate does not know is null
\* or invalid and not one it does (inbound.rs:188-191, 210-213, message.rs:355-358), and a
\* replication id has bytes whenever it has a text.
ForeignFieldsAreNotInvented ==
    kind = "foreign" =>
        /\ \A key \in {"sender_timestamp", "rcv_timestamp"} :
              LET ts == GetTimestamp(msg, key)
              IN  IF key \in DOMAIN msg.num /\ msg.num[key] >= 0 THEN ts = Some(2 * msg.num[key]) ELSE ts = None
        /\ GetText(msg, "correlation_id") = None <=> "correlation_id" \notin DOMAIN msg.text
        /\ GetDestination(msg, "reply_to") = Some("Null") <=>
              "reply_to" \in DOMAIN msg.text /\ msg.text["reply_to"] = "unknown"
        /\ "cache_status" \in DOMAIN msg.num =>
              (GetCacheStatus(msg) = "LiveMessage" <=> msg.num["cache_status"] = 0)
        /\ GetPayloadString(msg) \in {None, Error, Some("y")}
        /\ GetRgmid(msg) # None <=> GetRgmidRaw(msg) # None
        /\ \A key \in {"msg_id", "cache_request_id"} : GetNumber(msg, key) # None <=> key \in DOMAIN msg.num
        /\ GetExpiration(msg) # 0 => "expiration" \in DOMAIN msg.num
        /\ GetFlag(msg, "redelivered") <=> "redelivered" \in DOMAIN msg.text
        /\ GetTextOrNone(msg, "application_id") \in {None} \cup {Some(msg.text[key]) : key \in DOMAIN msg.text}
        /\ \A key \in UserKeys :
              key \in DOMAIN GetUserProperties(msg) <=>
                  key \in DOMAIN msg.props /\ msg.props[key] = <<"string", "a">>
=============================================================================
